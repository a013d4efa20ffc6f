--------------------------- MODULE RecoveryProofs ---------------------------
(***************************************************************************)
(* The theorems about the programs of MCRecovery, in the composition that  *)
(* TLC runs.  Those of the migration are proved in MigrationProofs; those  *)
(* of the bootstrap are proved here: the status never calls a half-repaired*)
(* Codex history ready, nothing is rewritten without a backup, and a lock  *)
(* that a dead bootstrap leaves can be taken by the next: for any number of*)
(* bootstraps, rollouts, databases, deaths, faults and edits.              *)
(*                                                                         *)
(* The argument is about the journal.  As long as a configuration that     *)
(* asks for no repair stands beside a history that needs one, there is a   *)
(* journal (Renames); a run that may publish has written or found one, and *)
(* only a run that found the whole history repaired takes it away          *)
(* (Journalled).  While a run is at work no session is started, so what    *)
(* was found repaired stays so.  The status reads the journal under both   *)
(* its names after the configuration, in the order in which it is renamed: *)
(* what it has read so far binds what is there (Read).  What is rewritten  *)
(* was backed up in the version it has, or is held by a transaction        *)
(* (Backed).                                                               *)
(*                                                                         *)
(* The lock of an undisturbed run says at each of its steps what journal   *)
(* and configuration are (GoesBy), so that it may die after any of them;   *)
(* while the lock is in its place nobody else changes them (LockInv).      *)
(***************************************************************************)
EXTENDS MCRecovery, Naturals, TLAPS

\* The part is chosen at the start.
LEMMA PartStays == ASSUME NEW name PROVE [Next]_vars => ((part = name)' <=> (part = name))
BY DEF Next, vars

LEMMA BootstrapPart == Spec /\ part = "bootstrap" => Bootstrap!Spec
<1>1. Init /\ part = "bootstrap" => Bootstrap!Init
  BY DEF Init
<1>2. [Next]_vars /\ part = "bootstrap" => [Bootstrap!Next]_(Bootstrap!bootstrapVars)
  BY DEF Next, vars, bootstrapVars, Bootstrap!bootstrapVars
<1>3. [Next]_vars => ((part = "bootstrap")' <=> (part = "bootstrap"))
  BY PartStays
<1> QED
  BY <1>1, <1>2, <1>3, PTL DEF Spec, Bootstrap!Spec

------------------------
(* The bootstrap *)

RunFields == DOMAIN Bootstrap!Idle(0)

IsJournal(p) ==
  /\ DOMAIN p = DOMAIN Bootstrap!NoPending
  /\ p.at \in {"none", "pending", "clearing"}
  /\ p.at = "none" <=> p = Bootstrap!NoPending

IsRun(r) ==
  /\ DOMAIN r = RunFields
  /\ IsJournal(r.pend)
  /\ r.changes \subseteq Bootstrap!Items \X Nat
  /\ r.todo \subseteq Bootstrap!Items /\ r.held \subseteq Bootstrap!Items
  /\ r.configOnly \in BOOLEAN /\ r.resumed \in BOOLEAN

\* What the steps may be relied on to keep in shape.
HistoryShape == history \in [Bootstrap!Items -> [provider : {"old", "new"}, version : Nat]]
StatusShape ==
  /\ DOMAIN status = {"next", "configured", "edited"}
  /\ status.next \in 0..9 /\ status.configured \in BOOLEAN /\ status.edited \in BOOLEAN
RunsShape == runs = [c \in Clients |-> runs[c]] /\ \A c \in Clients : IsRun(runs[c])
Shape == HistoryShape /\ RunsShape /\ IsJournal(pending) /\ StatusShape

\* Whoever is here has found that no item names an old provider.
FoundRepaired(r) == r.pc \in {"complete", "verifyAgain", "clear", "remove", "restorePending"}

Backed(r) ==
  /\ r.pc # "backUp" => r.changes \subseteq backups
  /\ \A d \in r.held : history[d].provider = "old" => <<d, history[d].version>> \in backups

Resting(r) == r.pc = "idle" => r.held = {} /\ ~r.configOnly /\ r.pend = Bootstrap!NoPending

Journalled(r) ==
  /\ r.pc \in {"check", "resume"} \/ r.resumed => r.pend # Bootstrap!NoPending
  /\ r.pc = "publish" => r.configOnly \/ r.pend # Bootstrap!NoPending
  /\ r.pend # Bootstrap!NoPending => pending # Bootstrap!NoPending \/ Bootstrap!OldItems = {}
  /\ r.configOnly \/ FoundRepaired(r) => Bootstrap!OldItems = {}

RunInv(r) == Backed(r) /\ Resting(r) /\ Journalled(r)

Renames ==
  /\ config \in Bootstrap!Configs
  /\ config = "unbound" => Bootstrap!OldItems = {}
  /\ ~Bootstrap!Required(config) /\ Bootstrap!OldItems # {} => pending # Bootstrap!NoPending

Read ==
  status.configured /\ ~status.edited =>
    /\ status.next >= 5 => config = "target"
    /\ status.next >= 7 /\ Bootstrap!OldItems # {} => pending.at # "pending"
    /\ status.next >= 8 => Bootstrap!OldItems = {}

RepairInv == Shape /\ Renames /\ Read /\ \A c \in Clients : RunInv(runs[c])

------------------------
(* What a step of a bootstrap may do to the files and to the other runs. *)

OnlyRenamed ==
  \A i \in Bootstrap!Items : history'[i] = history[i] \/ history'[i].provider = "new"

JournalGoesLast == pending # Bootstrap!NoPending /\ pending' = Bootstrap!NoPending => Bootstrap!OldItems = {}

\* The name under which the journal lies changes back only when there is nothing to repair.
NameComesBack ==
  pending.at # "pending" /\ pending'.at = "pending" /\ ~Bootstrap!Required(config) => Bootstrap!OldItems = {}

FilesStep ==
  /\ OnlyRenamed /\ HistoryShape' /\ IsJournal(pending)'
  /\ backups \subseteq backups'
  /\ \/ config' = config
     \/ config' = "target" /\ (pending # Bootstrap!NoPending \/ Bootstrap!OldItems = {})
  /\ JournalGoesLast /\ NameComesBack
  /\ status' = status

\* All of a run that the invariant speaks of.
Same(r, s) ==
  /\ DOMAIN r = DOMAIN s /\ r.pc = s.pc /\ r.pend = s.pend /\ r.changes = s.changes
  /\ r.todo = s.todo /\ r.held = s.held /\ r.configOnly = s.configOnly
  /\ r.resumed = s.resumed

OthersStay(c) ==
  /\ runs' = [k \in Clients |-> runs'[k]]
  /\ \A k \in Clients \ {c} : Same(runs'[k], runs[k])

LEMMA StepMoves ==
  ASSUME RunsShape, NEW c \in Clients, NEW r, Bootstrap!Step(c, r)
  PROVE  OthersStay(c) /\ runs'[c] = r
BY SMT DEF RunsShape, Bootstrap!Step, OthersStay, Same

LEMMA OldOnlyShrinks ==
  ASSUME OnlyRenamed, HistoryShape
  PROVE  Bootstrap!OldItems' \subseteq Bootstrap!OldItems
BY SMT DEF OnlyRenamed, Bootstrap!OldItems

\* Whatever the run of c does, the invariant stays true of the others.
LEMMA OthersKeep ==
  ASSUME RepairInv, NEW c \in Clients, FilesStep, OthersStay(c),
         NEW k \in Clients, k # c
  PROVE  IsRun(runs[k])' /\ RunInv(runs[k])'
<1> USE DEF Shape
<1>1. Same(runs'[k], runs[k]) /\ IsRun(runs[k]) /\ RunInv(runs[k])
  BY SMT DEF OthersStay, RepairInv, RunsShape
<1>2. Bootstrap!OldItems' \subseteq Bootstrap!OldItems
  BY OldOnlyShrinks DEF FilesStep, RepairInv
<1>3. IsRun(runs[k])'
  BY <1>1, SMT DEF Same, IsRun, IsJournal
<1>4. Backed(runs[k])'
  <2>1. runs'[k].pc # "backUp" => runs'[k].changes \subseteq backups'
    BY <1>1, SMT DEF Same, RunInv, Backed, FilesStep
  <2>2. ASSUME NEW d \in runs'[k].held, history'[d].provider = "old"
        PROVE  <<d, history'[d].version>> \in backups'
    BY <1>1, <2>2, SMT DEF Same, RunInv, Backed, FilesStep, OnlyRenamed, IsRun, RepairInv
  <2> QED BY <2>1, <2>2 DEF Backed
<1>5. Resting(runs[k])'
  BY <1>1, SMT DEF Same, RunInv, Resting
<1>6. Journalled(runs[k])'
  BY <1>1, <1>2, SMT DEF Same, RunInv, Journalled, FoundRepaired, FilesStep, JournalGoesLast
<1> QED BY <1>3, <1>4, <1>5, <1>6 DEF RunInv

\* What the configuration, the journal and the reading say stays true as well.
LEMMA GlobalsKeep ==
  ASSUME RepairInv, FilesStep
  PROVE  Renames' /\ Read' /\ HistoryShape' /\ IsJournal(pending)' /\ StatusShape'
<1>2. Bootstrap!OldItems' \subseteq Bootstrap!OldItems
  BY OldOnlyShrinks DEF FilesStep, RepairInv, Shape
<1>3. Renames'
  BY <1>2, SMT DEF Renames, RepairInv, FilesStep, JournalGoesLast, Bootstrap!Required,
     Bootstrap!Configs
<1>4. Read'
  BY <1>2, SMT DEF Read, Renames, RepairInv, FilesStep, NameComesBack, Bootstrap!Required, Shape,
                   StatusShape
<1> QED BY <1>3, <1>4 DEF FilesStep, RepairInv, Shape, StatusShape

------------------------
(* The steps of a bootstrap. *)

StepKeeps(c) == FilesStep /\ OthersStay(c) /\ IsRun(runs[c])' /\ RunInv(runs[c])'

\* A run that ends may have gone on with what it knows.
Knows(r) ==
  /\ IsRun(r)
  /\ r.resumed => r.pend # Bootstrap!NoPending
  /\ r.pend # Bootstrap!NoPending => pending # Bootstrap!NoPending \/ Bootstrap!OldItems = {}
  /\ r.configOnly => Bootstrap!OldItems = {}

LEMMA RunKnows ==
  ASSUME RepairInv, NEW c \in Clients
  PROVE  Knows(runs[c]) /\ Backed(runs[c]) /\ Resting(runs[c]) /\ Journalled(runs[c])
BY SMT DEF RepairInv, Shape, RunsShape, RunInv, Journalled, Knows

LEMMA QuietFiles ==
  ASSUME RepairInv, UNCHANGED Bootstrap!Files, UNCHANGED status
  PROVE  FilesStep
BY SMT DEF RepairInv, Shape, HistoryShape, Bootstrap!Files, FilesStep, OnlyRenamed, IsJournal,
           JournalGoesLast, NameComesBack

\* The run of c knows what it did, and no file took that away.
LEMMA KnowsStill ==
  ASSUME RepairInv, FilesStep, NEW r, Knows(r)
  PROVE  /\ r.pend # Bootstrap!NoPending => pending' # Bootstrap!NoPending \/ Bootstrap!OldItems' = {}
         /\ r.configOnly => Bootstrap!OldItems' = {}
<1>1. Bootstrap!OldItems' \subseteq Bootstrap!OldItems
  BY OldOnlyShrinks DEF FilesStep, RepairInv, Shape
<1> QED BY <1>1, SMT DEF Knows, FilesStep, JournalGoesLast

LEMMA IdleKeeps ==
  ASSUME RepairInv, NEW c \in Clients, FilesStep, NEW life, Bootstrap!Step(c, Bootstrap!Idle(life))
  PROVE  StepKeeps(c)
<1>1. OthersStay(c) /\ runs'[c] = Bootstrap!Idle(life)
  BY StepMoves DEF RepairInv, Shape
<1>2. IsRun(runs'[c])
  BY <1>1, SMT DEF IsRun, RunFields, Bootstrap!Idle, IsJournal, Bootstrap!NoPending
<1>3. RunInv(runs[c])'
  BY <1>1, SMT DEF RunInv, Backed, Resting, Journalled, FoundRepaired, Bootstrap!Idle
<1> QED BY <1>1, <1>2, <1>3 DEF StepKeeps, IsRun, IsJournal

LEMMA EndingKeeps ==
  ASSUME RepairInv, NEW c \in Clients, FilesStep, NEW r, Knows(r), Bootstrap!Step(c, Bootstrap!Ending(r))
  PROVE  StepKeeps(c)
<1>1. OthersStay(c) /\ runs'[c] = Bootstrap!Ending(r)
  BY StepMoves DEF RepairInv, Shape
<1>2. IsRun(runs'[c])
  BY <1>1, SMT DEF IsRun, RunFields, Bootstrap!Idle, Knows, Bootstrap!Ending
<1>3. RunInv(runs[c])'
  BY <1>1, KnowsStill, SMT DEF RunInv, Backed, Resting, Journalled, FoundRepaired, Bootstrap!Ending,
     Knows, IsRun, RunFields, Bootstrap!Idle
<1> QED BY <1>1, <1>2, <1>3 DEF StepKeeps, IsRun, IsJournal

LEMMA FinishKeeps ==
  ASSUME RepairInv, NEW c \in Clients, FilesStep, Bootstrap!Finish(c)
  PROVE  StepKeeps(c)
BY EndingKeeps, RunKnows DEF Bootstrap!Finish

\* A run goes on: it has the fields of one, and what it changed of itself is in order.
LEMMA GoesOnKeeps ==
  ASSUME RepairInv, NEW c \in Clients, FilesStep, NEW r, Bootstrap!Step(c, r),
         Knows(r),
         r.pc # "idle",
         r.pc # "backUp" => r.changes \subseteq backups',
         \A d \in r.held : history'[d].provider = "old"
                             => <<d, history'[d].version>> \in backups',
         r.pc \in {"check", "resume"} => r.pend # Bootstrap!NoPending,
         r.pc = "publish" => r.configOnly \/ r.pend # Bootstrap!NoPending,
         FoundRepaired(r) => Bootstrap!OldItems' = {}
  PROVE  StepKeeps(c)
<1>1. OthersStay(c) /\ runs'[c] = r
  BY StepMoves DEF RepairInv, Shape
<1>2. IsRun(runs'[c])
  BY <1>1 DEF Knows
<1>3. RunInv(runs[c])'
  BY <1>1, KnowsStill, SMT DEF RunInv, Backed, Resting, Journalled, FoundRepaired, Knows
<1> QED BY <1>1, <1>2, <1>3 DEF StepKeeps, IsRun, IsJournal

\* A run that only moves on, with what it has.
LEMMA GotoKeeps ==
  ASSUME RepairInv, NEW c \in Clients, FilesStep, UNCHANGED <<history, backups>>,
         NEW pc, Bootstrap!Goto(c, pc), runs[c].pc # "backUp",
         pc \notin {"idle", "backUp"},
         pc \in {"check", "resume"} => runs[c].pend # Bootstrap!NoPending,
         pc = "publish" => runs[c].configOnly \/ runs[c].pend # Bootstrap!NoPending,
         pc \in {"complete", "verifyAgain", "clear", "remove", "restorePending"}
           => Bootstrap!OldItems' = {}
  PROVE  StepKeeps(c)
<1> DEFINE r == [runs[c] EXCEPT !.pc = pc]
<1>1. Bootstrap!Step(c, r)
  BY DEF Bootstrap!Goto
<1>2. Knows(runs[c]) /\ Backed(runs[c])
  BY RunKnows
<1>3. Knows(r) /\ r.pc = pc /\ r.changes = runs[c].changes /\ r.held = runs[c].held
      /\ r.pend = runs[c].pend /\ r.configOnly = runs[c].configOnly
  BY <1>2, SMT DEF Knows, IsRun, RunFields, Bootstrap!Idle
<1> HIDE DEF r
<1>4. /\ r.pc # "idle"
      /\ r.pc # "backUp" => r.changes \subseteq backups'
      /\ \A d \in r.held : history'[d].provider = "old"
                             => <<d, history'[d].version>> \in backups'
      /\ r.pc \in {"check", "resume"} => r.pend # Bootstrap!NoPending
      /\ r.pc = "publish" => r.configOnly \/ r.pend # Bootstrap!NoPending
      /\ FoundRepaired(r) => Bootstrap!OldItems' = {}
  BY <1>2, <1>3, SMT DEF Backed, FoundRepaired
<1> QED BY <1>1, <1>3, <1>4, GoesOnKeeps

LEMMA QuietSteps ==
  ASSUME RepairInv, NEW c \in Clients,
         \/ Bootstrap!Inspect(c) \/ Bootstrap!AcquireConfigLock(c) \/ Bootstrap!StealLock(c) \/ Bootstrap!RestoreLock(c)
         \/ Bootstrap!WriteToken(c) \/ Bootstrap!Plan(c) \/ Bootstrap!Begin(c) \/ Bootstrap!Discover(c) \/ Bootstrap!BindPreparedLock(c)
         \/ Bootstrap!ResumeRun(c) \/ Bootstrap!CheckRun(c) \/ Bootstrap!Confirm(c) \/ Bootstrap!Verify(c) \/ Bootstrap!CompleteLock(c)
         \/ Bootstrap!ReleaseLock(c) \/ Bootstrap!Die(c)
  PROVE  UNCHANGED Bootstrap!Files /\ FilesStep
<1>1. UNCHANGED Bootstrap!Files /\ UNCHANGED status
  BY SMT DEF Bootstrap!Inspect, Bootstrap!AcquireConfigLock, Bootstrap!StealLock,
     Bootstrap!RestoreLock, Bootstrap!WriteToken, Bootstrap!Plan, Bootstrap!Begin,
             Bootstrap!Discover, Bootstrap!BindPreparedLock, Bootstrap!ResumeRun,
     Bootstrap!CheckRun, Bootstrap!Confirm, Bootstrap!Verify, Bootstrap!CompleteLock,
             Bootstrap!ReleaseLock, Bootstrap!Die, Bootstrap!Files, Bootstrap!Others
<1> QED BY <1>1, QuietFiles

\* The lock is asked for, taken, stolen, put back and given back.
LEMMA LockSteps ==
  ASSUME RepairInv, NEW c \in Clients,
         \/ Bootstrap!Inspect(c) \/ Bootstrap!AcquireConfigLock(c) \/ Bootstrap!StealLock(c) \/ Bootstrap!RestoreLock(c)
         \/ Bootstrap!ReleaseLock(c) \/ Bootstrap!Die(c)
  PROVE  StepKeeps(c)
<1>1. FilesStep /\ UNCHANGED <<history, backups>>
  BY QuietSteps DEF Bootstrap!Files
<1>2. Knows(runs[c]) /\ Backed(runs[c])
  BY RunKnows
<1>3. ASSUME NEW r, Bootstrap!Step(c, r), r.pc \in {"lock", "steal", "restore"}, Knows(r),
             \/ /\ runs[c].pc # "backUp"
                /\ r.changes = runs[c].changes /\ r.held = runs[c].held
             \/ r.changes = {} /\ r.held = {}
      PROVE  StepKeeps(c)
  <2>1. /\ r.pc # "backUp" => r.changes \subseteq backups'
        /\ \A d \in r.held : history'[d].provider = "old"
                               => <<d, history'[d].version>> \in backups'
    BY <1>1, <1>2, <1>3, SMT DEF Backed
  <2> QED BY <1>1, <1>3, <2>1, GoesOnKeeps, SMT DEF FoundRepaired
<1>4. CASE Bootstrap!Inspect(c)
  <2> DEFINE r == [Bootstrap!Idle(runs[c].life) EXCEPT !.pc = "lock", !.op = bounds.runs + 1,
                                                      !.seen = pending]
  <2>1. Knows(r) /\ r.pc = "lock" /\ r.changes = {} /\ r.held = {}
    BY SMT DEF Knows, IsRun, RunFields, Bootstrap!Idle, IsJournal, Bootstrap!NoPending
  <2>2. Bootstrap!Step(c, r)
    BY <1>4 DEF Bootstrap!Inspect
  <2> HIDE DEF r
  <2> QED BY <1>3, <2>1, <2>2
<1>5. CASE Bootstrap!AcquireConfigLock(c)
  <2>1. CASE Bootstrap!Goto(c, "token")
    BY <1>1, <1>5, <2>1, GotoKeeps, SMT DEF Bootstrap!AcquireConfigLock, Bootstrap!At
  <2>2. CASE Bootstrap!Step(c, [runs[c] EXCEPT !.pc = "steal", !.claim = lock])
    <3> DEFINE r == [runs[c] EXCEPT !.pc = "steal", !.claim = lock]
    <3>1. Knows(r) /\ r.pc = "steal" /\ r.changes = runs[c].changes
          /\ r.held = runs[c].held
      BY <1>2, SMT DEF Knows, IsRun, RunFields, Bootstrap!Idle
    <3>2. runs[c].pc # "backUp"
      BY <1>5 DEF Bootstrap!AcquireConfigLock, Bootstrap!At
    <3>3. Bootstrap!Step(c, r)
      BY <2>2
    <3> HIDE DEF r
    <3> QED BY <1>3, <3>1, <3>2, <3>3
  <2> QED BY <1>1, <1>5, <2>1, <2>2, IdleKeeps DEF Bootstrap!AcquireConfigLock
<1>6. CASE Bootstrap!StealLock(c) \/ Bootstrap!ReleaseLock(c)
  <2>1. CASE Bootstrap!Goto(c, "lock")
    BY <1>1, <1>6, <2>1, GotoKeeps, SMT DEF Bootstrap!StealLock, Bootstrap!ReleaseLock, Bootstrap!At
  <2>2. CASE Bootstrap!Step(c, [runs[c] EXCEPT !.pc = "restore", !.claim = lock])
    <3> DEFINE r == [runs[c] EXCEPT !.pc = "restore", !.claim = lock]
    <3>1. Knows(r) /\ r.pc = "restore" /\ r.changes = runs[c].changes
          /\ r.held = runs[c].held
      BY <1>2, SMT DEF Knows, IsRun, RunFields, Bootstrap!Idle
    <3>2. runs[c].pc # "backUp"
      BY <1>6 DEF Bootstrap!StealLock, Bootstrap!ReleaseLock, Bootstrap!At
    <3>3. Bootstrap!Step(c, r)
      BY <2>2
    <3> HIDE DEF r
    <3> QED BY <1>3, <3>1, <3>2, <3>3
  <2> QED BY <1>1, <1>6, <2>1, <2>2, IdleKeeps DEF Bootstrap!StealLock, Bootstrap!ReleaseLock
<1>7. CASE Bootstrap!RestoreLock(c) \/ Bootstrap!Die(c)
  BY <1>1, <1>7, IdleKeeps DEF Bootstrap!RestoreLock, Bootstrap!Die
<1> QED BY <1>4, <1>5, <1>6, <1>7

\* The token of a lock is known to whoever has claimed the lock before it was written.
LEMMA TokenStep ==
  ASSUME RepairInv, NEW c \in Clients, Bootstrap!WriteToken(c)
  PROVE  StepKeeps(c)
<1>1. FilesStep /\ UNCHANGED <<history, backups>>
  BY QuietSteps DEF Bootstrap!Files
<1>2. CASE Bootstrap!Step(c, Bootstrap!Idle(runs[c].life))
  BY <1>1, <1>2, IdleKeeps
<1>3. CASE ~Bootstrap!Step(c, Bootstrap!Idle(runs[c].life))
  <2>1. /\ runs[c].pc = "token" /\ RunsShape
        /\ \A k \in Clients : IsRun(runs[k])
    BY SMT DEF Bootstrap!WriteToken, Bootstrap!At, RepairInv, Shape, RunsShape
  <2>2. OthersStay(c)
    BY <1>3, <2>1, SMT DEF Bootstrap!WriteToken, OthersStay, Same, IsRun, RunFields, Bootstrap!Idle
  <2>3. \E mine : runs'[c] = [runs[c] EXCEPT !.pc = "read", !.mine = mine]
    <3> DEFINE mine == [owner |-> Bootstrap!Owner(c),
                        phase |-> IF runs[c].seen = Bootstrap!NoPending THEN "acquired" ELSE "prepared",
                        binding |-> IF runs[c].seen = Bootstrap!NoPending THEN Bootstrap!NoBinding
                                    ELSE Bootstrap!BindingOf(runs[c].seen)]
    <3>1. runs'[c] = [runs[c] EXCEPT !.pc = "read", !.mine = mine]
      BY <1>3, SMT DEF Bootstrap!WriteToken
    <3> QED BY <3>1
  <2>4. IsRun(runs'[c]) /\ runs'[c].pc = "read" /\ runs'[c].changes = runs[c].changes
        /\ runs'[c].held = runs[c].held /\ runs'[c].pend = runs[c].pend
        /\ runs'[c].configOnly = runs[c].configOnly
        /\ runs'[c].resumed = runs[c].resumed
    BY <2>1, <2>3, SMT DEF IsRun, RunFields, Bootstrap!Idle
  <2>5. Knows(runs[c]) /\ Backed(runs[c])
    BY RunKnows
  <2>6. RunInv(runs[c])'
    BY <1>1, <2>1, <2>4, <2>5, KnowsStill, SMT
    DEF RunInv, Backed, Resting, Journalled, FoundRepaired, Knows
  <2> QED BY <1>1, <2>2, <2>4, <2>6 DEF StepKeeps, IsRun, IsJournal
<1> QED BY <1>2, <1>3

\* The change is planned under the lock, and the journal read again.
LEMMA PlanSteps ==
  ASSUME RepairInv, NEW c \in Clients, Bootstrap!Plan(c) \/ Bootstrap!Begin(c) \/ Bootstrap!Discover(c)
  PROVE  StepKeeps(c)
<1>1. FilesStep /\ UNCHANGED <<history, backups>>
  BY QuietSteps DEF Bootstrap!Files
<1>2. Knows(runs[c]) /\ Backed(runs[c]) /\ IsJournal(pending) /\ Renames
      /\ HistoryShape
  BY RunKnows DEF RepairInv, Shape
<1>3. Bootstrap!OldItems' = Bootstrap!OldItems
  BY <1>1, SMT DEF Bootstrap!OldItems
<1>4. ASSUME NEW r, Bootstrap!Step(c, r), Knows(r), runs[c].pc # "backUp",
             r.changes = runs[c].changes /\ r.held = runs[c].held,
             r.pc \in {"bind", "begin", "discover", "check"},
             r.pc = "check" => r.pend # Bootstrap!NoPending
      PROVE  StepKeeps(c)
  <2>1. /\ r.pc # "backUp" => r.changes \subseteq backups'
        /\ \A d \in r.held : history'[d].provider = "old"
                               => <<d, history'[d].version>> \in backups'
    BY <1>1, <1>2, <1>4, SMT DEF Backed
  <2> QED BY <1>1, <1>4, <2>1, GoesOnKeeps, SMT DEF FoundRepaired
<1>5. CASE Bootstrap!Plan(c)
  <2> DEFINE r == [runs[c] EXCEPT !.source = config]
  <2>1. Knows(r) /\ r.changes = runs[c].changes /\ r.held = runs[c].held
    BY <1>2, SMT DEF Knows, IsRun, RunFields, Bootstrap!Idle
  <2>2. CASE Bootstrap!Step(c, Bootstrap!Ending(r))
    BY <1>1, <2>1, <2>2, EndingKeeps
  <2>3. CASE ~Bootstrap!Required(config) /\ config # "target"
             /\ Bootstrap!Step(c, [r EXCEPT !.pc = "bind", !.configOnly = TRUE])
    <3> DEFINE s == [r EXCEPT !.pc = "bind", !.configOnly = TRUE]
    <3>1. Bootstrap!OldItems = {}
      BY <1>2, <2>3, SMT DEF Renames, Bootstrap!Configs, Bootstrap!Required
    <3>2. Knows(s) /\ s.pc = "bind" /\ s.changes = runs[c].changes /\ s.held = runs[c].held
      BY <2>1, <3>1, SMT DEF Knows, IsRun, RunFields, Bootstrap!Idle
    <3>3. Bootstrap!Step(c, s) /\ runs[c].pc # "backUp"
      BY <1>5, <2>3 DEF Bootstrap!Plan, Bootstrap!At
    <3> HIDE DEF s
    <3> QED BY <1>4, <3>2, <3>3
  <2>4. CASE Bootstrap!Step(c, [r EXCEPT !.pc = "begin"])
    <3> DEFINE s == [r EXCEPT !.pc = "begin"]
    <3>2. Knows(s) /\ s.pc = "begin" /\ s.changes = runs[c].changes /\ s.held = runs[c].held
      BY <2>1, SMT DEF Knows, IsRun, RunFields, Bootstrap!Idle
    <3>3. Bootstrap!Step(c, s) /\ runs[c].pc # "backUp"
      BY <1>5, <2>4 DEF Bootstrap!Plan, Bootstrap!At
    <3> HIDE DEF s
    <3> QED BY <1>4, <3>2, <3>3
  <2> QED BY <1>5, <2>2, <2>3, <2>4 DEF Bootstrap!Plan
<1>6. CASE Bootstrap!Begin(c)
  <2> DEFINE s == [runs[c] EXCEPT !.pend = pending, !.resumed = TRUE, !.pc = "check",
                                  !.published = runs[c].source = "target"]
             t == [runs[c] EXCEPT !.pc = "discover"]
  <2>1. pending # Bootstrap!NoPending => Knows(s) /\ s.pc = "check" /\ s.pend # Bootstrap!NoPending
                                           /\ s.changes = runs[c].changes /\ s.held = runs[c].held
    BY <1>2, SMT DEF Knows, IsRun, RunFields, Bootstrap!Idle
  <2>2. Knows(t) /\ t.pc = "discover" /\ t.changes = runs[c].changes /\ t.held = runs[c].held
    BY <1>2, SMT DEF Knows, IsRun, RunFields, Bootstrap!Idle
  <2>3. runs[c].pc # "backUp"
        /\ \/ pending # Bootstrap!NoPending /\ Bootstrap!Step(c, s)
           \/ Bootstrap!Step(c, Bootstrap!Ending(runs[c]))
           \/ Bootstrap!Step(c, t)
    BY <1>6 DEF Bootstrap!Begin, Bootstrap!At
  <2> HIDE DEF s, t
  <2> QED BY <1>1, <1>2, <1>4, <2>1, <2>2, <2>3, EndingKeeps
<1>7. CASE Bootstrap!Discover(c)
  <2> DEFINE s == Bootstrap!BackingUp(runs[c])
             t == [runs[c] EXCEPT !.pc = "bind", !.configOnly = TRUE]
  <2>1. Knows(s) /\ s.pc = "backUp" /\ s.held = runs[c].held
    BY <1>2, SMT DEF Knows, IsRun, RunFields, Bootstrap!Idle, Bootstrap!BackingUp,
       Bootstrap!Snapshot, Bootstrap!OldItems, Bootstrap!Items,
                     HistoryShape
  <2>2. Bootstrap!Snapshot = {} => Bootstrap!OldItems = {}
    <3>1. ASSUME NEW i \in Bootstrap!OldItems
          PROVE  <<i, history[i].version>> \in Bootstrap!Snapshot
      BY SMT DEF Bootstrap!Snapshot
    <3> QED BY <3>1
  <2>3. Bootstrap!OldItems = {} => Knows(t) /\ t.pc = "bind" /\ t.changes = runs[c].changes
                                     /\ t.held = runs[c].held
    BY <1>2, SMT DEF Knows, IsRun, RunFields, Bootstrap!Idle
  <2>4. runs[c].pc # "backUp"
        /\ \/ Bootstrap!Step(c, s)
           \/ Bootstrap!Finish(c)
           \/ Bootstrap!Snapshot = {} /\ Bootstrap!Step(c, t)
    BY <1>7 DEF Bootstrap!Discover, Bootstrap!At
  <2>5. \A d \in s.held : history'[d].provider = "old"
                               => <<d, history'[d].version>> \in backups'
    BY <1>1, <1>2, <2>1, SMT DEF Backed
  <2> HIDE DEF s, t
  <2>6. CASE Bootstrap!Step(c, s)
    BY <1>1, <2>1, <2>5, <2>6, GoesOnKeeps, SMT DEF FoundRepaired
  <2> QED BY <1>1, <1>4, <2>2, <2>3, <2>4, <2>6, FinishKeeps
<1> QED BY <1>5, <1>6, <1>7

LEMMA GrowingFiles ==
  ASSUME RepairInv, UNCHANGED <<config, history, pending, status>>,
         backups \subseteq backups'
  PROVE  FilesStep
BY SMT DEF RepairInv, Shape, HistoryShape, FilesStep, OnlyRenamed, IsJournal,
           JournalGoesLast, NameComesBack

LEMMA PreparedKnows ==
  ASSUME NEW r, Knows(r)
  PROVE  /\ Knows(Bootstrap!Prepared(r)) /\ Bootstrap!Prepared(r).pc \in {"prepare", "resume", "bind"}
         /\ Bootstrap!Prepared(r).pc = "resume" => r.pend # Bootstrap!NoPending
         /\ Bootstrap!Prepared(r).changes = r.changes /\ Bootstrap!Prepared(r).held = r.held
         /\ Bootstrap!Prepared(r).todo = r.todo /\ Bootstrap!Prepared(r).pend = r.pend
BY SMT DEF Knows, Bootstrap!Prepared, IsRun, RunFields, Bootstrap!Idle

\* The rollouts are backed up as they were read, the databases as they are held.
LEMMA BackUpSteps ==
  ASSUME RepairInv, NEW c \in Clients, Bootstrap!BackUpRollouts(c) \/ Bootstrap!PrepareDatabase(c)
  PROVE  StepKeeps(c)
<1>1. UNCHANGED <<config, history, pending, status>> /\ backups \subseteq backups'
  <2>1. UNCHANGED <<config, history, pending, status>>
    BY SMT DEF Bootstrap!BackUpRollouts, Bootstrap!PrepareDatabase, Bootstrap!Others
  <2>2. CASE Bootstrap!BackUpRollouts(c)
    <3>1. CASE backups' = backups \union runs[c].changes
      BY <2>1, <3>1
    <3>2. CASE \E some \in SUBSET runs[c].changes : backups' = backups \union some
      BY <2>1, <3>2
    <3> QED BY <2>2, <3>1, <3>2 DEF Bootstrap!BackUpRollouts
  <2>3. CASE Bootstrap!PrepareDatabase(c)
    <3>1. CASE UNCHANGED backups
      BY <2>1, <3>1
    <3>2. CASE \E d \in runs[c].todo : Bootstrap!BackUpDatabase(d)
      BY <2>1, <3>2 DEF Bootstrap!BackUpDatabase
    <3> QED BY <2>3, <3>1, <3>2 DEF Bootstrap!PrepareDatabase
  <2> QED BY <2>2, <2>3
<1>2. FilesStep
  BY <1>1, GrowingFiles
<1>3. Knows(runs[c]) /\ Backed(runs[c])
  BY RunKnows
<1>4. ASSUME NEW r, Knows(r), NEW s, s = Bootstrap!Prepared(r), Bootstrap!Step(c, s),
             r.changes \subseteq backups',
             \A d \in r.held : history'[d].provider = "old"
                                 => <<d, history'[d].version>> \in backups'
      PROVE  StepKeeps(c)
  <2>1. /\ Knows(s) /\ s.pc \in {"prepare", "resume", "bind"}
        /\ s.pc = "resume" => s.pend # Bootstrap!NoPending
        /\ s.changes = r.changes /\ s.held = r.held
    BY <1>4, PreparedKnows
  <2> QED BY <1>2, <1>4, <2>1, GoesOnKeeps, SMT DEF FoundRepaired
<1>5. CASE Bootstrap!BackUpRollouts(c)
  <2>1. CASE backups' = backups \union runs[c].changes /\ Bootstrap!Step(c, Bootstrap!Prepared(runs[c]))
    <3>1. /\ runs[c].changes \subseteq backups'
          /\ \A d \in runs[c].held : history'[d].provider = "old"
                                       => <<d, history'[d].version>> \in backups'
      BY <1>1, <1>3, <2>1, SMT DEF Backed
    <3> QED BY <1>3, <1>4, <2>1, <3>1
  <2> QED BY <1>2, <1>5, <2>1, FinishKeeps DEF Bootstrap!BackUpRollouts
<1>6. CASE Bootstrap!PrepareDatabase(c)
  <2>1. ASSUME NEW d \in runs[c].todo \ Bootstrap!Held, d \in Bootstrap!OldItems, Bootstrap!BackUpDatabase(d),
               Bootstrap!Step(c, [Bootstrap!Prepared([runs[c] EXCEPT !.todo = @ \ {d}])
                                    EXCEPT !.held = @ \union {d}])
        PROVE  StepKeeps(c)
    <3> DEFINE r == [runs[c] EXCEPT !.todo = @ \ {d}]
               s == [Bootstrap!Prepared(r) EXCEPT !.held = @ \union {d}]
    <3>1. Knows(r) /\ r.changes = runs[c].changes /\ r.held = runs[c].held
          /\ r.pend = runs[c].pend
      BY <1>3, SMT DEF Knows, IsRun, RunFields, Bootstrap!Idle
    <3>2. /\ Knows(Bootstrap!Prepared(r)) /\ Bootstrap!Prepared(r).pc \in {"prepare", "resume", "bind"}
          /\ Bootstrap!Prepared(r).pc = "resume" => Bootstrap!Prepared(r).pend # Bootstrap!NoPending
          /\ Bootstrap!Prepared(r).changes = r.changes /\ Bootstrap!Prepared(r).held = r.held
      BY <3>1, PreparedKnows
    <3> HIDE DEF r
    <3>3. d \in Bootstrap!Items
      BY <1>3, SMT DEF Knows, IsRun
    <3>4. /\ Knows(s) /\ s.pc \in {"prepare", "resume", "bind"}
          /\ s.pc = "resume" => s.pend # Bootstrap!NoPending
          /\ s.changes = runs[c].changes /\ s.held = runs[c].held \union {d}
      BY <3>1, <3>2, <3>3, SMT DEF Knows, IsRun, RunFields, Bootstrap!Idle
    <3>5. runs[c].pc # "backUp" /\ <<d, history[d].version>> \in backups'
      BY <1>6, <2>1, SMT DEF Bootstrap!PrepareDatabase, Bootstrap!At, Bootstrap!BackUpDatabase
    <3>6. Bootstrap!Step(c, s)
      BY <2>1 DEF r
    <3> HIDE DEF s
    <3>7. /\ s.pc # "backUp" => s.changes \subseteq backups'
          /\ \A e \in s.held : history'[e].provider = "old"
                                 => <<e, history'[e].version>> \in backups'
      BY <1>1, <1>3, <3>4, <3>5, SMT DEF Backed
    <3> QED BY <1>2, <3>4, <3>6, <3>7, GoesOnKeeps, SMT DEF FoundRepaired
  <2>2. ASSUME NEW d \in runs[c].todo \ Bootstrap!Held, UNCHANGED backups,
               Bootstrap!Step(c, Bootstrap!Prepared([runs[c] EXCEPT !.todo = @ \ {d}]))
        PROVE  StepKeeps(c)
    <3> DEFINE r == [runs[c] EXCEPT !.todo = @ \ {d}]
    <3>1. Knows(r) /\ r.changes = runs[c].changes /\ r.held = runs[c].held
      BY <1>3, SMT DEF Knows, IsRun, RunFields, Bootstrap!Idle
    <3>2. runs[c].pc # "backUp"
      BY <1>6, SMT DEF Bootstrap!PrepareDatabase, Bootstrap!At
    <3>3. Bootstrap!Step(c, Bootstrap!Prepared(r))
      BY <2>2
    <3> HIDE DEF r
    <3>4. /\ r.changes \subseteq backups'
          /\ \A e \in r.held : history'[e].provider = "old"
                                 => <<e, history'[e].version>> \in backups'
      BY <1>1, <1>3, <3>1, <3>2, SMT DEF Backed
    <3> QED BY <1>4, <3>1, <3>3, <3>4
  <2> QED BY <1>2, <1>6, <2>1, <2>2, FinishKeeps DEF Bootstrap!PrepareDatabase
<1> QED BY <1>5, <1>6

\* The lock is bound, the journal written, and everything looked at once more.
LEMMA BindSteps ==
  ASSUME RepairInv, NEW c \in Clients, Bootstrap!BindPreparedLock(c) \/ Bootstrap!ResumeRun(c) \/ Bootstrap!CheckRun(c)
  PROVE  StepKeeps(c)
<1>1. FilesStep /\ UNCHANGED <<history, backups>>
  BY QuietSteps DEF Bootstrap!Files
<1>2. Knows(runs[c]) /\ Backed(runs[c]) /\ Journalled(runs[c]) /\ HistoryShape
  BY RunKnows DEF RepairInv, Shape
<1>3. CASE Bootstrap!BindPreparedLock(c)
  <2>1. ASSUME NEW mine, NEW pc, pc = IF runs[c].configOnly THEN "publish" ELSE "journal",
               Bootstrap!Step(c, [runs[c] EXCEPT !.mine = mine, !.pc = pc])
        PROVE  StepKeeps(c)
    <3> DEFINE r == [runs[c] EXCEPT !.mine = mine, !.pc = pc]
    <3>1. Knows(r) /\ r.pc = pc /\ r.changes = runs[c].changes /\ r.held = runs[c].held
          /\ r.configOnly = runs[c].configOnly
      BY <1>2, SMT DEF Knows, IsRun, RunFields, Bootstrap!Idle
    <3>2. Bootstrap!Step(c, r) /\ runs[c].pc # "backUp"
      BY <1>3, <2>1 DEF Bootstrap!BindPreparedLock, Bootstrap!At
    <3> HIDE DEF r
    <3>3. /\ r.pc # "backUp" => r.changes \subseteq backups'
          /\ \A d \in r.held : history'[d].provider = "old"
                                 => <<d, history'[d].version>> \in backups'
          /\ r.pc = "publish" => r.configOnly
          /\ r.pc \notin {"check", "resume"} /\ ~FoundRepaired(r) /\ r.pc # "idle"
      BY <1>1, <1>2, <2>1, <3>1, <3>2, SMT DEF Backed, FoundRepaired
    <3> QED BY <1>1, <3>1, <3>2, <3>3, GoesOnKeeps
  <2> QED BY <1>1, <1>3, <2>1, FinishKeeps DEF Bootstrap!BindPreparedLock
<1>4. CASE Bootstrap!ResumeRun(c)
  <2>1. runs[c].pc = "resume" /\ runs[c].pend # Bootstrap!NoPending
    BY <1>2, <1>4 DEF Bootstrap!ResumeRun, Bootstrap!At, Journalled
  <2>2. Bootstrap!Goto(c, Bootstrap!Publishing(runs[c])) \/ Bootstrap!Finish(c)
    BY <1>4 DEF Bootstrap!ResumeRun
  <2>3. Bootstrap!Publishing(runs[c]) \in {"confirm", "publish"}
    BY DEF Bootstrap!Publishing
  <2> HIDE DEF Bootstrap!Publishing
  <2> QED BY <1>1, <2>1, <2>2, <2>3, FinishKeeps, GotoKeeps, SMT
<1>5. CASE Bootstrap!CheckRun(c)
  <2>1. runs[c].pc = "check" /\ runs[c].pend # Bootstrap!NoPending
    BY <1>2, <1>5 DEF Bootstrap!CheckRun, Bootstrap!At, Journalled
  <2>2. Bootstrap!Goto(c, Bootstrap!Publishing(runs[c])) \/ Bootstrap!Finish(c) \/ Bootstrap!Step(c, Bootstrap!BackingUp(runs[c]))
    BY <1>5 DEF Bootstrap!CheckRun
  <2>3. Bootstrap!Publishing(runs[c]) \in {"confirm", "publish"}
    BY DEF Bootstrap!Publishing
  <2> HIDE DEF Bootstrap!Publishing
  <2>4. CASE Bootstrap!Step(c, Bootstrap!BackingUp(runs[c]))
    <3> DEFINE s == Bootstrap!BackingUp(runs[c])
    <3>1. Knows(s) /\ s.pc = "backUp" /\ s.held = runs[c].held
      BY <1>2, SMT DEF Knows, IsRun, RunFields, Bootstrap!Idle, Bootstrap!BackingUp,
         Bootstrap!Snapshot, Bootstrap!OldItems, Bootstrap!Items,
                       HistoryShape
    <3>2. \A d \in s.held : history'[d].provider = "old"
                                 => <<d, history'[d].version>> \in backups'
      BY <1>1, <1>2, <3>1, SMT DEF Backed
    <3> HIDE DEF s
    <3> QED BY <1>1, <2>4, <3>1, <3>2, GoesOnKeeps, SMT DEF FoundRepaired, s
  <2> QED BY <1>1, <2>1, <2>2, <2>3, <2>4, FinishKeeps, GotoKeeps, SMT
<1> QED BY <1>3, <1>4, <1>5

\* The journal is written only where none is.
LEMMA JournalStep ==
  ASSUME RepairInv, NEW c \in Clients, Bootstrap!WriteJournal(c)
  PROVE  StepKeeps(c)
<1> DEFINE pend == [at |-> "pending", op |-> runs[c].mine.binding.op,
                    source |-> runs[c].source]
<1>1. /\ UNCHANGED <<config, history, backups, status>> /\ runs[c].pc = "journal"
      /\ \/ pending = Bootstrap!NoPending /\ pending' = pend
            /\ Bootstrap!Step(c, [runs[c] EXCEPT !.pend = pend, !.pc = "check"])
         \/ pending' = pending /\ Bootstrap!Finish(c)
         \/ pending = Bootstrap!NoPending /\ pending' = pend /\ Bootstrap!Finish(c)
  BY SMT DEF Bootstrap!WriteJournal, Bootstrap!At, Bootstrap!Others
<1>2. IsJournal(pend) /\ pend # Bootstrap!NoPending
  BY SMT DEF IsJournal, Bootstrap!NoPending
<1>3. Knows(runs[c]) /\ Backed(runs[c])
  BY RunKnows
<1> HIDE DEF pend
<1>4. FilesStep
  BY <1>1, <1>2, SMT DEF RepairInv, Shape, HistoryShape, FilesStep, OnlyRenamed, IsJournal,
     JournalGoesLast, NameComesBack, Renames
<1>5. CASE pending' = pend /\ Bootstrap!Step(c, [runs[c] EXCEPT !.pend = pend, !.pc = "check"])
  <2> DEFINE r == [runs[c] EXCEPT !.pend = pend, !.pc = "check"]
  <2>1. /\ IsRun(r) /\ r.pc = "check" /\ r.pend = pend /\ r.changes = runs[c].changes
        /\ r.held = runs[c].held /\ r.configOnly = runs[c].configOnly
    BY <1>2, <1>3, SMT DEF Knows, IsRun, RunFields, Bootstrap!Idle
  <2>2. OthersStay(c) /\ runs'[c] = r
    BY <1>5, StepMoves DEF RepairInv, Shape
  <2> HIDE DEF r
  <2>3. Bootstrap!OldItems' = Bootstrap!OldItems
    BY <1>1, SMT DEF Bootstrap!OldItems
  <2>4. RunInv(runs[c])'
    BY <1>1, <1>2, <1>3, <1>5, <2>1, <2>2, <2>3, SMT
    DEF RunInv, Backed, Resting, Journalled, Knows, FoundRepaired
  <2> QED BY <1>4, <2>1, <2>2, <2>4 DEF StepKeeps, IsRun, IsJournal
<1> QED BY <1>1, <1>4, <1>5, FinishKeeps

\* The configuration is published beside a journal, or beside a history in repair.
LEMMA PublishStep ==
  ASSUME RepairInv, NEW c \in Clients, Bootstrap!PublishTarget(c)
  PROVE  StepKeeps(c)
<1>1. Knows(runs[c]) /\ Backed(runs[c]) /\ Journalled(runs[c])
  BY RunKnows
<1>2. PICK failed \in BOOLEAN :
        \/ Bootstrap!Step(c, Bootstrap!Ending(runs[c]))
        \/ ~runs[c].configOnly
           /\ Bootstrap!Step(c, [runs[c] EXCEPT !.published = TRUE, !.pc = "confirm",
                                                !.callbackFailed = failed])
        \/ Bootstrap!Step(c, Bootstrap!Ending([runs[c] EXCEPT !.published = TRUE]))
        \/ runs[c].configOnly
           /\ Bootstrap!Step(c, [runs[c] EXCEPT !.published = TRUE, !.pc = "complete"])
  <2> DEFINE r == runs[c]
             done == [r EXCEPT !.published = TRUE]
             twice == [done EXCEPT !.pc = "confirm"]
  <2>1. PICK failed \in BOOLEAN :
          Bootstrap!Step(c, IF config' # "target" THEN Bootstrap!Ending(r)
                            ELSE IF ~r.configOnly
                              THEN [done EXCEPT !.pc = "confirm", !.callbackFailed = failed]
                            ELSE IF failed THEN Bootstrap!Ending(done)
                            ELSE [done EXCEPT !.pc = "complete"])
    BY DEF Bootstrap!PublishTarget
  <2>2. /\ [done EXCEPT !.pc = "confirm", !.callbackFailed = failed]
             = [r EXCEPT !.published = TRUE, !.pc = "confirm", !.callbackFailed = failed]
        /\ [done EXCEPT !.pc = "complete"] = [r EXCEPT !.published = TRUE, !.pc = "complete"]
    BY SMT
  <2> QED BY <2>1, <2>2, Zenon
<1>3. /\ UNCHANGED <<history, backups, pending, status>> /\ runs[c].pc = "publish"
      /\ config' = config \/ config' = "target"
      /\ pending # Bootstrap!NoPending \/ Bootstrap!OldItems = {}
  BY <1>1, SMT DEF Bootstrap!PublishTarget, Bootstrap!At, Bootstrap!Others, Journalled, Knows
<1>4. FilesStep
  BY <1>3, SMT DEF RepairInv, Shape, HistoryShape, FilesStep, OnlyRenamed, IsJournal,
     JournalGoesLast, NameComesBack
<1>5. Bootstrap!OldItems' = Bootstrap!OldItems
  BY <1>3, SMT DEF Bootstrap!OldItems
<1>6. ASSUME NEW r, Bootstrap!Step(c, r), Knows(r), r.pc \in {"confirm", "complete"},
             r.changes = runs[c].changes, r.held = runs[c].held,
             r.pc = "complete" => Bootstrap!OldItems = {}
      PROVE  StepKeeps(c)
  <2>1. /\ r.pc # "backUp" => r.changes \subseteq backups'
        /\ \A d \in r.held : history'[d].provider = "old"
                               => <<d, history'[d].version>> \in backups'
    BY <1>1, <1>3, <1>6, SMT DEF Backed
  <2> QED BY <1>4, <1>5, <1>6, <2>1, GoesOnKeeps, SMT DEF FoundRepaired
<1> DEFINE u == [runs[c] EXCEPT !.published = TRUE, !.pc = "confirm",
                                !.callbackFailed = failed]
           v == [runs[c] EXCEPT !.published = TRUE]
           w == [runs[c] EXCEPT !.published = TRUE, !.pc = "complete"]
<1>7. /\ Knows(u) /\ u.pc = "confirm" /\ u.changes = runs[c].changes /\ u.held = runs[c].held
      /\ Knows(v)
      /\ Knows(w) /\ w.pc = "complete" /\ w.changes = runs[c].changes
      /\ w.held = runs[c].held
  BY <1>1, SMT DEF Knows, IsRun, RunFields, Bootstrap!Idle
<1>8. runs[c].configOnly => Bootstrap!OldItems = {}
  BY <1>1 DEF Knows
<1>9. \/ Bootstrap!Step(c, Bootstrap!Ending(runs[c])) \/ Bootstrap!Step(c, u) \/ Bootstrap!Step(c, Bootstrap!Ending(v))
      \/ runs[c].configOnly /\ Bootstrap!Step(c, w)
  BY <1>2
<1> HIDE DEF u, v, w
<1> QED BY <1>1, <1>4, <1>6, <1>7, <1>8, <1>9, EndingKeeps

\* The history is looked at before it is touched, and when the run is done.
LEMMA LookSteps ==
  ASSUME RepairInv, NEW c \in Clients, Bootstrap!Confirm(c) \/ Bootstrap!Verify(c) \/ Bootstrap!CompleteLock(c)
  PROVE  StepKeeps(c)
<1>1. FilesStep /\ UNCHANGED <<history, backups>>
  BY QuietSteps DEF Bootstrap!Files
<1>2. Knows(runs[c]) /\ Backed(runs[c]) /\ Journalled(runs[c])
  BY RunKnows
<1>3. Bootstrap!OldItems' = Bootstrap!OldItems
  BY <1>1, SMT DEF Bootstrap!OldItems
<1>4. CASE Bootstrap!Confirm(c)
  BY <1>1, <1>4, FinishKeeps, GotoKeeps, SMT DEF Bootstrap!Confirm, Bootstrap!At
<1>5. CASE Bootstrap!Verify(c)
  <2>1. runs[c].pc \in {"verify", "verifyAgain"}
    BY <1>5 DEF Bootstrap!Verify, Bootstrap!At
  <2>2. \/ Bootstrap!Finish(c)
        \/ Bootstrap!OldItems = {} /\ (Bootstrap!Goto(c, "complete") \/ Bootstrap!Goto(c, "clear"))
    BY <1>5 DEF Bootstrap!Verify
  <2> QED BY <1>1, <1>3, <2>1, <2>2, FinishKeeps, GotoKeeps, SMT
<1>6. CASE Bootstrap!CompleteLock(c)
  <2> DEFINE ended == [runs[c] EXCEPT !.mine = [runs[c].mine EXCEPT !.phase = "completed"]]
             r == [ended EXCEPT !.pc = "verifyAgain"]
  <2>1. runs[c].pc = "complete" /\ Bootstrap!OldItems = {}
    BY <1>2, <1>6 DEF Bootstrap!CompleteLock, Bootstrap!At, Journalled, FoundRepaired
  <2>2. Bootstrap!Finish(c) \/ Bootstrap!Step(c, Bootstrap!Ending(ended)) \/ Bootstrap!Step(c, r)
    BY <1>6 DEF Bootstrap!CompleteLock
  <2>3. Knows(ended) /\ Knows(r) /\ r.pc = "verifyAgain" /\ r.changes = runs[c].changes
        /\ r.held = runs[c].held
    BY <1>2, SMT DEF Knows, IsRun, RunFields, Bootstrap!Idle
  <2> HIDE DEF ended, r
  <2>4. CASE Bootstrap!Step(c, r)
    <3>1. /\ r.pc # "backUp" => r.changes \subseteq backups'
          /\ \A d \in r.held : history'[d].provider = "old"
                                 => <<d, history'[d].version>> \in backups'
      BY <1>1, <1>2, <2>1, <2>3, SMT DEF Backed
    <3> QED BY <1>1, <1>3, <2>1, <2>3, <2>4, <3>1, GoesOnKeeps, SMT DEF FoundRepaired
  <2> QED BY <1>1, <2>2, <2>3, <2>4, EndingKeeps, FinishKeeps
<1> QED BY <1>4, <1>5, <1>6

\* A rollout is renamed in the version the run backed up, a database while it is held.
LEMMA RenameBackedUp ==
  ASSUME RepairInv, NEW c \in Clients, Bootstrap!RepairRollouts(c) \/ Bootstrap!RepairDatabases(c),
         NEW i \in Bootstrap!Items, history[i].provider = "old", history'[i].provider = "new"
  PROVE  <<i, history[i].version>> \in backups
<1>1. Knows(runs[c]) /\ Backed(runs[c]) /\ HistoryShape
  BY RunKnows DEF RepairInv, Shape
<1>2. history' # history
  BY SMT
<1>3. CASE Bootstrap!RepairRollouts(c)
  <2>1. PICK ch \in runs[c].changes :
          history[ch[1]].version = ch[2] /\ Bootstrap!Renamed({ch[1]})
    BY <1>2, <1>3 DEF Bootstrap!RepairRollouts
  <2>2. i = ch[1]
    BY <2>1, SMT DEF Bootstrap!Renamed
  <2>3. ch \in Bootstrap!Items \X Nat /\ ch \in backups
    BY <1>1, <1>3, SMT DEF Knows, IsRun, Backed, Bootstrap!RepairRollouts, Bootstrap!At
  <2> QED BY <2>1, <2>2, <2>3, SMT
<1>4. CASE Bootstrap!RepairDatabases(c)
  <2>1. PICK d \in runs[c].held : Bootstrap!Renamed({d})
    BY <1>2, <1>4 DEF Bootstrap!RepairDatabases
  <2>2. i = d
    BY <2>1, SMT DEF Bootstrap!Renamed
  <2> QED BY <1>1, <2>1, <2>2 DEF Backed
<1> QED BY <1>3, <1>4

LEMMA RenamedFiles ==
  ASSUME RepairInv, UNCHANGED <<config, backups, pending, status>>,
         \/ UNCHANGED history
         \/ \E items : Bootstrap!Renamed(items)
  PROVE  FilesStep
<1>1. HistoryShape' /\ OnlyRenamed
  <2>1. CASE UNCHANGED history
    BY <2>1, SMT DEF RepairInv, Shape, HistoryShape, OnlyRenamed
  <2>2. ASSUME NEW items, Bootstrap!Renamed(items)
        PROVE  HistoryShape' /\ OnlyRenamed
    BY <2>2, SMT DEF RepairInv, Shape, HistoryShape, OnlyRenamed, Bootstrap!Renamed
  <2> QED BY <2>1, <2>2
<1> QED BY <1>1, SMT DEF RepairInv, Shape, FilesStep, IsJournal, JournalGoesLast, NameComesBack

LEMMA RepairSteps ==
  ASSUME RepairInv, NEW c \in Clients, Bootstrap!RepairRollouts(c) \/ Bootstrap!RepairDatabases(c)
  PROVE  StepKeeps(c)
<1>1. UNCHANGED <<config, backups, pending, status>>
  BY SMT DEF Bootstrap!RepairRollouts, Bootstrap!RepairDatabases, Bootstrap!Others
<1>2. \/ UNCHANGED history
      \/ \E items : Bootstrap!Renamed(items)
  BY DEF Bootstrap!RepairRollouts, Bootstrap!RepairDatabases
<1>3. FilesStep
  BY <1>1, <1>2, RenamedFiles
<1>4. Knows(runs[c]) /\ Backed(runs[c])
  BY RunKnows
<1>5. ASSUME NEW r, Bootstrap!Step(c, r), Knows(r), r.pc \in {"rollouts", "databases", "verify"},
             r.changes \subseteq runs[c].changes, r.held \subseteq runs[c].held,
             runs[c].pc # "backUp"
      PROVE  StepKeeps(c)
  <2>1. r.changes \subseteq backups'
    BY <1>1, <1>4, <1>5, SMT DEF Backed
  <2>2. ASSUME NEW d \in r.held, history'[d].provider = "old"
        PROVE  <<d, history'[d].version>> \in backups'
    BY <1>1, <1>3, <1>4, <1>5, <2>2, SMT DEF Backed, FilesStep, OnlyRenamed, Knows, IsRun
  <2> QED BY <1>3, <1>5, <2>1, <2>2, GoesOnKeeps, SMT DEF FoundRepaired
<1>6. CASE Bootstrap!RepairRollouts(c)
  <2>1. runs[c].pc = "rollouts"
    BY <1>6 DEF Bootstrap!RepairRollouts, Bootstrap!At
  <2>2. \/ Bootstrap!Finish(c)
        \/ Bootstrap!Goto(c, "databases")
        \/ \E ch \in runs[c].changes : Bootstrap!Step(c, [runs[c] EXCEPT !.changes = @ \ {ch}])
    BY <1>6 DEF Bootstrap!RepairRollouts
  <2>3. CASE Bootstrap!Goto(c, "databases")
    <3> DEFINE r == [runs[c] EXCEPT !.pc = "databases"]
    <3>1. Knows(r) /\ r.pc = "databases" /\ r.changes = runs[c].changes
          /\ r.held = runs[c].held
      BY <1>4, SMT DEF Knows, IsRun, RunFields, Bootstrap!Idle
    <3>2. Bootstrap!Step(c, r)
      BY <2>3 DEF Bootstrap!Goto
    <3> HIDE DEF r
    <3> QED BY <1>5, <2>1, <3>1, <3>2
  <2>4. ASSUME NEW ch \in runs[c].changes, Bootstrap!Step(c, [runs[c] EXCEPT !.changes = @ \ {ch}])
        PROVE  StepKeeps(c)
    <3> DEFINE r == [runs[c] EXCEPT !.changes = @ \ {ch}]
    <3>1. Knows(r) /\ r.pc = "rollouts" /\ r.changes \subseteq runs[c].changes
          /\ r.held = runs[c].held
      BY <1>4, <2>1, SMT DEF Knows, IsRun, RunFields, Bootstrap!Idle
    <3>2. Bootstrap!Step(c, r)
      BY <2>4
    <3> HIDE DEF r
    <3> QED BY <1>5, <2>1, <3>1, <3>2
  <2> QED BY <1>3, <2>2, <2>3, <2>4, FinishKeeps
<1>7. CASE Bootstrap!RepairDatabases(c)
  <2>1. runs[c].pc = "databases"
    BY <1>7 DEF Bootstrap!RepairDatabases, Bootstrap!At
  <2>2. \/ Bootstrap!Finish(c)
        \/ Bootstrap!Goto(c, "verify")
        \/ \E d \in runs[c].held : Bootstrap!Step(c, [runs[c] EXCEPT !.held = @ \ {d}])
    BY <1>7 DEF Bootstrap!RepairDatabases
  <2>3. CASE Bootstrap!Goto(c, "verify")
    <3> DEFINE r == [runs[c] EXCEPT !.pc = "verify"]
    <3>1. Knows(r) /\ r.pc = "verify" /\ r.changes = runs[c].changes
          /\ r.held = runs[c].held
      BY <1>4, SMT DEF Knows, IsRun, RunFields, Bootstrap!Idle
    <3>2. Bootstrap!Step(c, r)
      BY <2>3 DEF Bootstrap!Goto
    <3> HIDE DEF r
    <3> QED BY <1>5, <2>1, <3>1, <3>2
  <2>4. ASSUME NEW d \in runs[c].held, Bootstrap!Step(c, [runs[c] EXCEPT !.held = @ \ {d}])
        PROVE  StepKeeps(c)
    <3> DEFINE r == [runs[c] EXCEPT !.held = @ \ {d}]
    <3>1. Knows(r) /\ r.pc = "databases" /\ r.changes = runs[c].changes
          /\ r.held \subseteq runs[c].held
      BY <1>4, <2>1, SMT DEF Knows, IsRun, RunFields, Bootstrap!Idle
    <3>2. Bootstrap!Step(c, r)
      BY <2>4
    <3> HIDE DEF r
    <3> QED BY <1>5, <2>1, <3>1, <3>2
  <2> QED BY <1>3, <2>2, <2>3, <2>4, FinishKeeps
<1> QED BY <1>6, <1>7

\* The journal is renamed, removed or written again when nothing is left to repair.
LEMMA ClearSteps ==
  ASSUME RepairInv, NEW c \in Clients, Bootstrap!ClearPending(c) \/ Bootstrap!RemovePending(c) \/ Bootstrap!RestorePending(c)
  PROVE  StepKeeps(c)
<1>1. Knows(runs[c]) /\ Backed(runs[c]) /\ Journalled(runs[c]) /\ IsJournal(pending)
  BY RunKnows DEF RepairInv, Shape
<1>2. /\ UNCHANGED <<config, history, backups, status>>
      /\ runs[c].pc \in {"clear", "remove", "restorePending"}
  BY SMT DEF Bootstrap!ClearPending, Bootstrap!RemovePending, Bootstrap!RestorePending,
     Bootstrap!At, Bootstrap!Others
<1>3. Bootstrap!OldItems = {} /\ Bootstrap!OldItems' = {}
  BY <1>1, <1>2, SMT DEF Journalled, FoundRepaired, Bootstrap!OldItems
<1>4. IsJournal(pending)'
  <2>1. CASE UNCHANGED pending
    BY <1>1, <2>1 DEF IsJournal
  <2>2. CASE pending # Bootstrap!NoPending /\ pending' = [pending EXCEPT !.at = "clearing"]
    BY <1>1, <2>2, SMT DEF IsJournal, Bootstrap!NoPending
  <2>3. CASE pending' = Bootstrap!NoPending
    BY <2>3, SMT DEF IsJournal, Bootstrap!NoPending
  <2>4. CASE pending' = [runs[c].pend EXCEPT !.at = "pending"]
    BY <1>1, <2>4, SMT DEF IsJournal, Bootstrap!NoPending, Knows, IsRun
  <2> QED BY <2>1, <2>2, <2>3, <2>4 DEF Bootstrap!ClearPending, Bootstrap!RemovePending,
             Bootstrap!RestorePending
<1>5. FilesStep
  BY <1>2, <1>3, <1>4, SMT DEF RepairInv, Shape, HistoryShape, FilesStep, OnlyRenamed,
     JournalGoesLast, NameComesBack
<1>6. \/ Bootstrap!Finish(c)
      \/ Bootstrap!Step(c, Bootstrap!Ending(runs[c]))
      \/ Bootstrap!Goto(c, "remove")
      \/ Bootstrap!Goto(c, "restorePending")
      \/ Bootstrap!Step(c, Bootstrap!Idle(runs[c].life))
  BY DEF Bootstrap!ClearPending, Bootstrap!RemovePending, Bootstrap!RestorePending
<1> QED BY <1>1, <1>2, <1>3, <1>5, <1>6, FinishKeeps, EndingKeeps, IdleKeeps, GotoKeeps, SMT

LEMMA BootstrapKeeps ==
  ASSUME RepairInv, NEW c \in Clients, Bootstrap!BootstrapStep(c)
  PROVE  RepairInv' /\ FilesStep
<1>1. StepKeeps(c)
  BY LockSteps, TokenStep, PlanSteps, BackUpSteps, BindSteps, JournalStep, PublishStep,
     LookSteps, RepairSteps, ClearSteps DEF Bootstrap!BootstrapStep
<1>2. Renames' /\ Read' /\ HistoryShape' /\ IsJournal(pending)' /\ StatusShape'
  BY <1>1, GlobalsKeep DEF StepKeeps
<1>3. \A k \in Clients : IsRun(runs[k])' /\ RunInv(runs[k])'
  BY <1>1, OthersKeep DEF StepKeeps
<1>4. runs' = [k \in Clients |-> runs'[k]]
  BY <1>1 DEF StepKeeps, OthersStay
<1> QED BY <1>1, <1>2, <1>3, <1>4 DEF RepairInv, Shape, RunsShape, StepKeeps

------------------------
(* The steps of the user, of Codex and of the reading of the status. *)

\* Nobody holds what Codex appends to, and nobody works when a session is started.
LEMMA HistorySteps ==
  ASSUME RepairInv, NEW i \in Bootstrap!Items, Bootstrap!Append(i) \/ Bootstrap!StartSession(i)
  PROVE  RepairInv'
<1>1. /\ UNCHANGED <<config, backups, pending, runs, status>>
      /\ Shape /\ Renames /\ Read /\ \A c \in Clients : RunInv(runs[c])
  BY SMT DEF Bootstrap!Append, Bootstrap!StartSession, Bootstrap!Others, RepairInv
<1>2. HistoryShape'
  BY <1>1, SMT DEF Bootstrap!Append, Bootstrap!StartSession, Shape, HistoryShape
<1>3. Shape'
  BY <1>1, <1>2, SMT DEF Shape, RunsShape, StatusShape, IsRun, IsJournal
<1>4. CASE Bootstrap!Append(i)
  <2>1. Bootstrap!OldItems' = Bootstrap!OldItems
    BY <1>1, <1>4, SMT DEF Bootstrap!OldItems, Bootstrap!Append, Shape, HistoryShape
  <2>2. Renames' /\ Read'
    BY <1>1, <2>1, SMT DEF Renames, Read, Bootstrap!Required
  <2>3. ASSUME NEW c \in Clients
        PROVE  RunInv(runs[c])'
    <3>1. i \notin runs[c].held
      BY <1>4 DEF Bootstrap!Append, Bootstrap!Held
    <3>2. Backed(runs[c])'
      BY <1>1, <1>4, <3>1, SMT DEF Backed, RunInv, Bootstrap!Append, Shape, HistoryShape, RunsShape,
                                   IsRun
    <3> QED BY <1>1, <2>1, <3>2, SMT DEF RunInv, Resting, Journalled, FoundRepaired
  <2> QED BY <1>3, <2>2, <2>3 DEF RepairInv
<1>5. CASE Bootstrap!StartSession(i)
  <2>1. Bootstrap!Required(config) /\ \A c \in Clients : runs[c].pc = "idle"
    BY <1>5 DEF Bootstrap!StartSession, Bootstrap!At
  <2>2. Renames'
    BY <1>1, <2>1, SMT DEF Renames, Bootstrap!Required, Bootstrap!Configs
  <2>3. Read'
    BY <1>1, <2>1, SMT DEF Read, Bootstrap!Required, Shape, StatusShape
  <2>4. ASSUME NEW c \in Clients
        PROVE  RunInv(runs[c])'
    <3>1. runs[c].held = {} /\ ~runs[c].configOnly /\ runs[c].pend = Bootstrap!NoPending
          /\ runs[c].pc = "idle"
      BY <1>1, <2>1, SMT DEF RunInv, Resting
    <3> QED BY <1>1, <3>1, SMT DEF RunInv, Backed, Resting, Journalled, FoundRepaired
  <2> QED BY <1>3, <2>2, <2>3, <2>4 DEF RepairInv
<1> QED BY <1>4, <1>5

LEMMA EditStep ==
  ASSUME RepairInv, NEW new \in {"source", "other"}, Bootstrap!EditConfig(new)
  PROVE  RepairInv'
<1>1. /\ UNCHANGED <<history, backups, pending, runs>> /\ config' = new
      /\ status' = [status EXCEPT !.edited = TRUE]
  BY SMT DEF Bootstrap!EditConfig
<1>2. Bootstrap!OldItems' = Bootstrap!OldItems
  BY <1>1, SMT DEF Bootstrap!OldItems
<1>3. Shape'
  <2>1. HistoryShape' /\ IsJournal(pending)'
    BY <1>1, SMT DEF RepairInv, Shape, HistoryShape, IsJournal
  <2>2. RunsShape'
    BY <1>1, SMT DEF RepairInv, Shape, RunsShape, IsRun, IsJournal
  <2>3. StatusShape'
    BY <1>1, SMT DEF RepairInv, Shape, StatusShape
  <2> QED BY <2>1, <2>2, <2>3 DEF Shape
<1>4. Renames'
  BY <1>1, SMT DEF Renames, Bootstrap!Required, Bootstrap!Configs
<1>5. Read'
  BY <1>1, SMT DEF Read, RepairInv, Shape, StatusShape
<1>6. \A c \in Clients : RunInv(runs[c])'
  BY <1>1, <1>2, SMT DEF RepairInv, RunInv, Backed, Resting, Journalled, FoundRepaired
<1> QED BY <1>3, <1>4, <1>5, <1>6 DEF RepairInv

\* What was read of the journal after the configuration, under both its names, is still so.
LEMMA StatusSteps ==
  ASSUME RepairInv, Bootstrap!BeginStatus \/ Bootstrap!InspectStatus
  PROVE  RepairInv'
<1>1. UNCHANGED <<config, history, backups, pending, runs>>
  BY SMT DEF Bootstrap!BeginStatus, Bootstrap!InspectStatus, Bootstrap!Files
<1>2. Bootstrap!OldItems' = Bootstrap!OldItems
  BY <1>1, SMT DEF Bootstrap!OldItems
<1>3. Renames' /\ (\A c \in Clients : RunInv(runs[c])') /\ HistoryShape' /\ RunsShape'
      /\ IsJournal(pending)'
  BY <1>1, <1>2, SMT DEF RepairInv, Renames, Bootstrap!Required, RunInv, Backed, Resting,
     Journalled,
                         FoundRepaired, Shape, HistoryShape, RunsShape, IsRun, IsJournal
<1>4. CASE Bootstrap!BeginStatus
  <2>1. StatusShape' /\ Read'
    BY <1>4, SMT DEF Bootstrap!BeginStatus, StatusShape, Read
  <2> QED BY <1>3, <2>1 DEF RepairInv, Shape
<1>5. CASE Bootstrap!InspectStatus
  <2>1. StatusShape /\ Read
        /\ Renames /\ IsJournal(pending)
    BY DEF RepairInv, Shape
  <2> DEFINE reading == Bootstrap!Readings[status.next]
             told == status.configured /\ Bootstrap!Good(reading)
  <2>2. /\ status.next \in 1..8
        /\ status' = [status EXCEPT !.next = @ + 1, !.configured = told]
    BY <1>5, SMT DEF Bootstrap!InspectStatus, Bootstrap!Readings
  <2>3. /\ reading \in {"pending", "clearing", "lock", "text"}
        /\ status.next = 4 => reading = "text"
        /\ status.next = 6 => reading = "pending"
        /\ status.next = 7 => reading = "clearing"
    BY <2>2, SMT DEF Bootstrap!Readings
  <2> HIDE DEF reading
  <2>4. /\ Bootstrap!Good(reading) /\ status.next = 4 => config = "target"
        /\ Bootstrap!Good(reading) /\ status.next = 6 => pending.at # "pending"
        /\ Bootstrap!Good(reading) /\ status.next = 7 => pending.at # "clearing"
    <3>1. ASSUME reading = "text", Bootstrap!Good(reading) PROVE config = "target"
      BY <3>1, SMT DEF Bootstrap!Good
    <3>2. ASSUME reading = "pending", Bootstrap!Good(reading) PROVE pending.at # "pending"
      BY <3>2, SMT DEF Bootstrap!Good
    <3>3. ASSUME reading = "clearing", Bootstrap!Good(reading) PROVE pending.at # "clearing"
      BY <3>3, SMT DEF Bootstrap!Good
    <3> QED BY <2>3, <3>1, <3>2, <3>3
  <2>5. told \in BOOLEAN
    BY DEF told
  <2>6. told => status.configured /\ Bootstrap!Good(reading)
    BY DEF told
  <2> HIDE DEF told
  <2>7. StatusShape'
    BY <2>1, <2>2, <2>5, SMT DEF StatusShape
  <2>8. status'.configured => status.configured /\ Bootstrap!Good(reading)
    BY <2>1, <2>2, <2>6, SMT DEF StatusShape
  <2>9. status'.next = status.next + 1 /\ status'.edited = status.edited
    BY <2>1, <2>2, SMT DEF StatusShape
  <2>10. Read'
    BY <1>1, <1>2, <2>1, <2>2, <2>8, <2>9, <2>4, SMT
    DEF Read, Renames, Bootstrap!Required, IsJournal
  <2> QED BY <1>3, <2>7, <2>10 DEF RepairInv, Shape
<1> QED BY <1>4, <1>5

------------------------

LEMMA RepairInit == Bootstrap!Init => RepairInv
<1> SUFFICES ASSUME Bootstrap!Init PROVE RepairInv
  OBVIOUS
<1>1. Shape
  <2>1. HistoryShape /\ StatusShape
    BY SMT DEF Bootstrap!Init, HistoryShape, StatusShape
  <2>2. IsJournal(pending)
    BY SMT DEF Bootstrap!Init, IsJournal, Bootstrap!NoPending
  <2>3. RunsShape
    <3>1. IsRun(Bootstrap!Idle(0))
      BY SMT DEF IsRun, RunFields, Bootstrap!Idle, IsJournal, Bootstrap!NoPending
    <3> HIDE DEF Bootstrap!Idle, IsRun
    <3> QED BY <3>1, SMT DEF Bootstrap!Init, RunsShape
  <2> QED BY <2>1, <2>2, <2>3 DEF Shape
<1>2. Renames
  BY SMT DEF Bootstrap!Init, Renames, Bootstrap!Configs, Bootstrap!Required
<1>3. Read
  BY SMT DEF Bootstrap!Init, Read
<1>4. \A c \in Clients : RunInv(runs[c])
  <2> SUFFICES ASSUME NEW c \in Clients PROVE RunInv(runs[c])
    OBVIOUS
  <2>1. runs[c] = Bootstrap!Idle(0)
    BY SMT DEF Bootstrap!Init
  <2> QED BY <2>1, SMT DEF RunInv, Backed, Resting, Journalled, FoundRepaired, Bootstrap!Idle
<1> QED BY <1>1, <1>2, <1>3, <1>4 DEF RepairInv

LEMMA RepairStep == RepairInv /\ [Bootstrap!Next]_(Bootstrap!bootstrapVars) => RepairInv'
<1> SUFFICES ASSUME RepairInv, [Bootstrap!Next]_(Bootstrap!bootstrapVars)
             PROVE  RepairInv'
  OBVIOUS
<1>1. CASE UNCHANGED Bootstrap!bootstrapVars
  <2>1. UNCHANGED <<config, history, backups, pending, runs, status>>
    BY <1>1 DEF Bootstrap!bootstrapVars
  <2>2. Bootstrap!OldItems' = Bootstrap!OldItems
    BY <2>1, SMT DEF Bootstrap!OldItems
  <2> QED BY <2>1, <2>2, SMT
      DEF RepairInv, Renames, Read, Bootstrap!Required, RunInv, Backed, Resting, Journalled,
          FoundRepaired, Shape, HistoryShape, RunsShape, StatusShape, IsRun, IsJournal
<1>2. ASSUME NEW c \in Clients, Bootstrap!BootstrapStep(c) PROVE RepairInv'
  BY <1>2, BootstrapKeeps
<1>3. ASSUME NEW new \in {"source", "other"}, Bootstrap!EditConfig(new) PROVE RepairInv'
  BY <1>3, EditStep
<1>4. ASSUME NEW i \in Bootstrap!Items, Bootstrap!Append(i) \/ Bootstrap!StartSession(i) PROVE RepairInv'
  BY <1>4, HistorySteps
<1>5. CASE Bootstrap!BeginStatus \/ Bootstrap!InspectStatus
  BY <1>5, StatusSteps
<1> QED BY <1>1, <1>2, <1>3, <1>4, <1>5 DEF Bootstrap!Next

\* Only the two repairing steps give an item its new name.
LEMMA RenamesBackedUp == RepairInv /\ [Bootstrap!Next]_(Bootstrap!bootstrapVars) => Bootstrap!ChangesBackedUp
<1> SUFFICES ASSUME RepairInv, [Bootstrap!Next]_(Bootstrap!bootstrapVars),
                    NEW i \in Bootstrap!Items, history[i].provider = "old",
                    history'[i].provider = "new"
             PROVE  <<i, history[i].version>> \in backups
  BY DEF Bootstrap!ChangesBackedUp
<1>1. history' # history
  BY SMT
<1>2. ASSUME NEW c \in Clients, Bootstrap!BootstrapStep(c)
      PROVE  <<i, history[i].version>> \in backups
  <2>1. Bootstrap!RepairRollouts(c) \/ Bootstrap!RepairDatabases(c)
    BY <1>1, <1>2, Zenon
    DEF Bootstrap!BootstrapStep, Bootstrap!Inspect, Bootstrap!AcquireConfigLock,
       Bootstrap!StealLock, Bootstrap!RestoreLock, Bootstrap!WriteToken, Bootstrap!Plan,
        Bootstrap!Begin, Bootstrap!Discover, Bootstrap!BackUpRollouts, Bootstrap!PrepareDatabase,
       Bootstrap!BindPreparedLock, Bootstrap!WriteJournal,
        Bootstrap!ResumeRun, Bootstrap!CheckRun, Bootstrap!PublishTarget, Bootstrap!Confirm,
       Bootstrap!Verify, Bootstrap!CompleteLock, Bootstrap!ClearPending,
        Bootstrap!RemovePending, Bootstrap!RestorePending, Bootstrap!ReleaseLock, Bootstrap!Die,
       Bootstrap!Files
  <2> QED BY <2>1, RenameBackedUp
<1>3. ASSUME NEW k \in Bootstrap!Items, Bootstrap!Append(k) \/ Bootstrap!StartSession(k)
      PROVE  FALSE
  BY <1>3, SMT DEF Bootstrap!Append, Bootstrap!StartSession, RepairInv, Shape, HistoryShape
<1> QED BY <1>1, <1>2, <1>3 DEF Bootstrap!Next, Bootstrap!EditConfig, Bootstrap!BeginStatus,
           Bootstrap!InspectStatus, Bootstrap!Files,
                                Bootstrap!bootstrapVars

LEMMA ReadyFollows == RepairInv => Bootstrap!ReadyIsRepaired
BY SMT DEF RepairInv, Read, Bootstrap!ReadyIsRepaired, Shape, StatusShape

\* codex-config.mjs, codex-history-repair.mjs and the status of supervisor.mjs: however
\* many bootstraps run, die and fault, and whatever the user and Codex write, the status
\* says "configured" only beside a repaired history, and no name of a provider is
\* overwritten in a version that was not backed up.
LEMMA RepairsAreSafe == Bootstrap!Spec => Bootstrap!RepairIsSafe
<1>1. Bootstrap!Spec => []RepairInv
  BY RepairInit, RepairStep, PTL DEF Bootstrap!Spec
<1>2. Bootstrap!Spec => [][Bootstrap!ChangesBackedUp]_(Bootstrap!bootstrapVars)
  BY <1>1, RenamesBackedUp, PTL DEF Bootstrap!Spec
<1>3. Bootstrap!Spec => []Bootstrap!ReadyIsRepaired
  BY <1>1, ReadyFollows, PTL
<1> QED BY <1>2, <1>3 DEF Bootstrap!RepairIsSafe

------------------------
(* The lock that is left. *)

IsBinding(b) ==
  /\ b = [op |-> b.op, source |-> b.source, pendingRequired |-> b.pendingRequired]
  /\ b.pendingRequired \in BOOLEAN
IsLockRecord(l) == l = [owner |-> l.owner, phase |-> l.phase, binding |-> l.binding]
IsLock(l) == IsLockRecord(l) /\ IsBinding(l.binding)

\* Where a run has read the configuration, where nobody has published since, and where the
\* configuration is the patched one.
Unpublished == {"begin", "discover", "backUp", "prepare", "bind", "journal", "check",
                "resume", "publish"}
Clearing  == {"verifyAgain", "clear", "remove", "restorePending"}
Published == {"rollouts", "databases", "verify", "complete"} \union Clearing

\* The run that goes by the lock: what it knows of the journal p and the configuration f.
GoesBy(r, l, p, f) ==
  LET b == l.binding
  IN /\ r.mine = l /\ IsLock(l)
     /\ r.pc = "read" => (b = Bootstrap!NoBinding <=> r.seen = Bootstrap!NoPending)
     /\ r.pc \in Unpublished => f = r.source
     /\ r.pc \in Published => f = "target"
     /\ b = Bootstrap!NoBinding =>
          /\ p = Bootstrap!NoPending /\ ~r.resumed
          /\ r.pc \in {"read", "begin", "discover", "backUp", "prepare", "bind"}
     /\ b # Bootstrap!NoBinding /\ ~b.pendingRequired =>
          p = Bootstrap!NoPending /\ r.configOnly /\ r.pc \in {"publish", "complete"}
     /\ b.pendingRequired =>
          /\ r.pc # "discover"
          /\ r.pc = "journal" => p = Bootstrap!NoPending /\ b.source = r.source
          /\ r.pc \in {"read", "begin"} => p # Bootstrap!NoPending
          /\ r.pc \in {"check", "resume", "backUp", "prepare", "publish", "confirm",
                       "rollouts", "databases", "verify", "complete"}
               => p # Bootstrap!NoPending /\ b = Bootstrap!BindingOf(r.pend)
          /\ r.pc \in Clearing => b = Bootstrap!BindingOf(r.pend) /\ l.phase = "completed"

\* A run with a lock is the one whose lock is in its place; when it gives it back it may
\* have failed to write what it knows of it.
Keeps(c) ==
  /\ lock.owner = Bootstrap!Owner(c)
  /\ runs[c].pc = "token" => lock = Bootstrap!Unreadable(Bootstrap!Owner(c)) /\ runs[c].seen = pending
  /\ runs[c].pc \notin {"token", "release"} =>
       lock.phase # "unreadable" /\ GoesBy(runs[c], lock, pending, config)

Undisturbed == ~stale /\ bounds.writes = 0 /\ lock.owner # Bootstrap!Nobody

LockInv ==
  Undisturbed =>
    /\ \A c \in Clients : Bootstrap!Holding(runs[c]) => Keeps(c)
    /\ lock.phase # "unreadable" => Bootstrap!StaleLockCanBeRecovered(lock, pending, config)

LEMMA LockSplit ==
  ASSUME NEW c \in Clients, NEW k \in Clients, Keeps(c), Keeps(k)
  PROVE  c = k
BY SMT DEF Keeps, Bootstrap!Owner

\* What a step of a run leaves alone of what the lock is about.
View(r, s) ==
  /\ s.mine = r.mine /\ s.seen = r.seen /\ s.source = r.source /\ s.pend = r.pend
  /\ s.configOnly = r.configOnly /\ s.resumed = r.resumed /\ s.life = r.life

\* A run that only goes on, where what the next place asks for is known.
LEMMA Advance ==
  ASSUME NEW r, NEW s, NEW l, NEW p, NEW f, GoesBy(r, l, p, f), View(r, s),
         \/ r.pc = "begin" /\ s.pc = "discover" /\ p = Bootstrap!NoPending
         \/ r.pc = "discover" /\ s.pc = "backUp"
         \/ r.pc = "check" /\ s.pc \in {"backUp", "publish", "confirm"}
         \/ r.pc = "backUp" /\ s.pc \in {"prepare", "bind"}
         \/ r.pc = "backUp" /\ s.pc = "resume" /\ r.resumed
         \/ r.pc = "prepare" /\ s.pc \in {"prepare", "bind"}
         \/ r.pc = "prepare" /\ s.pc = "resume" /\ r.resumed
         \/ r.pc = "resume" /\ s.pc \in {"publish", "confirm"}
         \/ r.pc = "confirm" /\ s.pc = "rollouts" /\ f = "target"
         \/ r.pc = "rollouts" /\ s.pc \in {"rollouts", "databases"}
         \/ r.pc = "databases" /\ s.pc \in {"databases", "verify"}
         \/ r.pc = "verify" /\ s.pc = "complete"
         \/ r.pc = "verifyAgain" /\ s.pc = "clear"
         \/ r.pc = "clear" /\ s.pc = "restorePending"
  PROVE  GoesBy(s, l, p, f)
<1>1. IsLock(l) /\ s.mine = l
  BY SMT DEF GoesBy, View
<1>2. CASE l.binding = Bootstrap!NoBinding
  BY <1>1, <1>2, SMT DEF GoesBy, View, Unpublished, Published, Clearing, Bootstrap!NoBinding
<1>3. CASE l.binding # Bootstrap!NoBinding /\ l.binding.pendingRequired
  BY <1>1, <1>3, SMT DEF GoesBy, View, Unpublished, Published, Clearing, Bootstrap!NoBinding
<1>4. CASE l.binding # Bootstrap!NoBinding /\ ~l.binding.pendingRequired
  BY <1>1, <1>4, SMT DEF GoesBy, View, Unpublished, Published, Clearing, Bootstrap!NoBinding
<1> QED BY <1>2, <1>3, <1>4

\* What a step has to leave behind: the run with its lock, and a lock that can be taken.
Leaves(c) ==
  lock'.owner # Bootstrap!Nobody =>
    /\ Bootstrap!Holding(runs'[c]) => Keeps(c)'
    /\ lock'.phase # "unreadable" => Bootstrap!StaleLockCanBeRecovered(lock', pending', config')

\* What a step of the run with the lock starts from.
Going(c) ==
  /\ Shape /\ Keeps(c) /\ Bootstrap!Holding(runs[c]) /\ lock.owner # Bootstrap!Nobody
  /\ lock.phase # "unreadable" => Bootstrap!StaleLockCanBeRecovered(lock, pending, config)

LEMMA GoingOn ==
  ASSUME NEW c \in Clients, Going(c), UNCHANGED <<config, pending, lock>>,
         NEW s, runs'[c] = s, runs[c].pc \notin {"token", "release"},
         View(runs[c], s), s.pc \notin {"token", "release"},
         GoesBy(runs[c], lock, pending, config) => GoesBy(s, lock, pending, config)
  PROVE  Leaves(c)
<1>1. Keeps(c)'
  BY SMT DEF Going, Keeps, Bootstrap!Owner, View
<1> QED BY <1>1, SMT DEF Leaves, Going

LEMMA Ends ==
  ASSUME NEW c \in Clients, Going(c), UNCHANGED <<config, pending, lock>>,
         NEW s, runs'[c] = s, ~Bootstrap!Holding(s) \/ (s.pc = "release" /\ s.life = runs[c].life)
  PROVE  Leaves(c)
<1>1. Bootstrap!Holding(s) => Keeps(c)'
  BY SMT DEF Going, Keeps, Bootstrap!Owner
<1> QED BY <1>1, SMT DEF Leaves, Going

LEMMA EndingView ==
  ASSUME NEW r, IsRun(r)
  PROVE  Bootstrap!Ending(r).pc = "release" /\ Bootstrap!Ending(r).life = r.life
BY SMT DEF Bootstrap!Ending, IsRun, RunFields, Bootstrap!Idle

LEMMA FinishLeaves ==
  ASSUME NEW c \in Clients, Going(c), UNCHANGED <<config, pending, lock>>, Bootstrap!Finish(c)
  PROVE  Leaves(c)
<1>1. IsRun(runs[c]) /\ runs'[c] = Bootstrap!Ending(runs[c])
  BY StepMoves DEF Going, Shape, RunsShape, Bootstrap!Finish
<1> QED BY <1>1, EndingView, Ends

LEMMA GotoLeaves ==
  ASSUME NEW c \in Clients, Going(c), UNCHANGED <<config, pending, lock>>,
         NEW pc, Bootstrap!Goto(c, pc), runs[c].pc \notin {"token", "release"},
         pc \notin {"token", "release"},
         \A s : View(runs[c], s) /\ s.pc = pc /\ GoesBy(runs[c], lock, pending, config)
                  => GoesBy(s, lock, pending, config)
  PROVE  Leaves(c)
<1> DEFINE s == [runs[c] EXCEPT !.pc = pc]
<1>1. runs'[c] = s /\ IsRun(runs[c])
  BY StepMoves DEF Bootstrap!Goto, Going, Shape, RunsShape
<1>2. View(runs[c], s) /\ s.pc = pc
  BY <1>1, SMT DEF View, IsRun, RunFields, Bootstrap!Idle
<1> HIDE DEF s
<1> QED BY <1>1, <1>2, GoingOn

LEMMA IdleLeaves ==
  ASSUME NEW c \in Clients, Going(c), UNCHANGED <<config, pending, lock>>,
         NEW life, Bootstrap!Step(c, Bootstrap!Idle(life))
  PROVE  Leaves(c)
<1>1. runs'[c] = Bootstrap!Idle(life)
  BY StepMoves DEF Going, Shape
<1> QED BY <1>1, Ends, SMT DEF Bootstrap!Idle, Bootstrap!Holding

\* The steps that leave the configuration, the journal and the lock as they are.
LookingSteps(c) ==
  \/ Bootstrap!Discover(c) \/ Bootstrap!BackUpRollouts(c) \/ Bootstrap!PrepareDatabase(c) \/ Bootstrap!CheckRun(c) \/ Bootstrap!ResumeRun(c)
  \/ Bootstrap!Confirm(c) \/ Bootstrap!RepairRollouts(c) \/ Bootstrap!RepairDatabases(c) \/ Bootstrap!Verify(c)

LEMMA LookingLeaves ==
  ASSUME NEW c \in Clients, Going(c), LookingSteps(c)
  PROVE  Leaves(c)
<1>1. UNCHANGED <<config, pending, lock>>
  BY Zenon DEF LookingSteps, Bootstrap!Discover, Bootstrap!BackUpRollouts,
     Bootstrap!PrepareDatabase, Bootstrap!CheckRun, Bootstrap!ResumeRun,
               Bootstrap!Confirm, Bootstrap!RepairRollouts, Bootstrap!RepairDatabases,
     Bootstrap!Verify, Bootstrap!Files
<1>2. IsRun(runs[c]) /\ RunsShape
  BY DEF Going, Shape, RunsShape
<1>3. ASSUME Bootstrap!Finish(c) PROVE Leaves(c)
  BY <1>1, <1>3, FinishLeaves
<1>4. ASSUME NEW s, Bootstrap!Step(c, s), View(runs[c], s),
             runs[c].pc \notin {"token", "release"}, s.pc \notin {"token", "release"},
             GoesBy(runs[c], lock, pending, config) => GoesBy(s, lock, pending, config)
      PROVE  Leaves(c)
  BY <1>1, <1>2, <1>4, StepMoves, GoingOn
<1>5. CASE Bootstrap!Discover(c)
  <2>1. runs[c].pc = "discover"
    BY <1>5 DEF Bootstrap!Discover, Bootstrap!At
  <2>2. CASE Bootstrap!Step(c, Bootstrap!BackingUp(runs[c]))
    <3> DEFINE s == Bootstrap!BackingUp(runs[c])
    <3>1. View(runs[c], s) /\ s.pc = "backUp"
      BY <1>2, SMT DEF View, IsRun, RunFields, Bootstrap!Idle, Bootstrap!BackingUp
    <3>2. Bootstrap!Step(c, s)
      BY <2>2
    <3> HIDE DEF s
    <3> QED BY <1>4, <2>1, <3>1, <3>2, Advance
  <2>3. CASE Bootstrap!Step(c, [runs[c] EXCEPT !.pc = "bind", !.configOnly = TRUE])
    <3> DEFINE s == [runs[c] EXCEPT !.pc = "bind", !.configOnly = TRUE]
    <3>1. /\ s.pc = "bind" /\ s.mine = runs[c].mine /\ s.seen = runs[c].seen
          /\ s.source = runs[c].source /\ s.pend = runs[c].pend
          /\ s.resumed = runs[c].resumed /\ s.life = runs[c].life
      BY <1>2, SMT DEF IsRun, RunFields, Bootstrap!Idle
    <3>2. runs'[c] = s
      BY <1>2, <2>3, StepMoves
    <3> HIDE DEF s
    <3>3. Keeps(c)'
      BY <1>1, <2>1, <3>1, <3>2, SMT DEF Going, Keeps, Bootstrap!Owner, GoesBy, Unpublished,
         Published,
                                         Clearing
    <3> QED BY <1>1, <3>3, SMT DEF Leaves, Going
  <2> QED BY <1>3, <1>5, <2>2, <2>3 DEF Bootstrap!Discover
<1>6. CASE Bootstrap!BackUpRollouts(c)
  <2>1. runs[c].pc = "backUp"
    BY <1>6 DEF Bootstrap!BackUpRollouts, Bootstrap!At
  <2>2. CASE Bootstrap!Step(c, Bootstrap!Prepared(runs[c]))
    <3> DEFINE s == Bootstrap!Prepared(runs[c])
    <3>1. View(runs[c], s) /\ (s.pc \in {"prepare", "bind"} \/ (s.pc = "resume" /\ s.resumed))
      BY <1>2, SMT DEF View, IsRun, RunFields, Bootstrap!Idle, Bootstrap!Prepared
    <3>2. Bootstrap!Step(c, s)
      BY <2>2
    <3> HIDE DEF s
    <3> QED BY <1>4, <2>1, <3>1, <3>2, Advance, SMT DEF View
  <2> QED BY <1>3, <1>6, <2>2 DEF Bootstrap!BackUpRollouts
<1>7. CASE Bootstrap!PrepareDatabase(c)
  <2>1. runs[c].pc = "prepare"
    BY <1>7 DEF Bootstrap!PrepareDatabase, Bootstrap!At
  <2>2. ASSUME NEW s, Bootstrap!Step(c, s), View(runs[c], s),
               s.pc \in {"prepare", "bind"} \/ (s.pc = "resume" /\ s.resumed)
        PROVE  Leaves(c)
    BY <1>4, <2>1, <2>2, Advance, SMT DEF View
  <2>3. ASSUME NEW d \in runs[c].todo,
               LET next == Bootstrap!Prepared([runs[c] EXCEPT !.todo = @ \ {d}])
               IN Bootstrap!Step(c, next) \/ Bootstrap!Step(c, [next EXCEPT !.held = @ \union {d}])
        PROVE  Leaves(c)
    <3> DEFINE next == Bootstrap!Prepared([runs[c] EXCEPT !.todo = @ \ {d}])
               s == [next EXCEPT !.held = @ \union {d}]
    <3>1. View(runs[c], next) /\ (next.pc \in {"prepare", "bind"}
                                  \/ (next.pc = "resume" /\ next.resumed))
      BY <1>2, SMT DEF View, IsRun, RunFields, Bootstrap!Idle, Bootstrap!Prepared
    <3>2. View(runs[c], s) /\ (s.pc \in {"prepare", "bind"} \/ (s.pc = "resume" /\ s.resumed))
      BY <1>2, SMT DEF View, IsRun, RunFields, Bootstrap!Idle, Bootstrap!Prepared
    <3>3. Bootstrap!Step(c, next) \/ Bootstrap!Step(c, s)
      BY <2>3
    <3> HIDE DEF next, s
    <3> QED BY <2>2, <3>1, <3>2, <3>3
  <2> QED BY <1>3, <1>7, <2>3 DEF Bootstrap!PrepareDatabase
<1>8. CASE Bootstrap!CheckRun(c)
  <2>1. runs[c].pc = "check"
    BY <1>8 DEF Bootstrap!CheckRun, Bootstrap!At
  <2>2. CASE Bootstrap!Step(c, Bootstrap!BackingUp(runs[c]))
    <3> DEFINE s == Bootstrap!BackingUp(runs[c])
    <3>1. View(runs[c], s) /\ s.pc = "backUp"
      BY <1>2, SMT DEF View, IsRun, RunFields, Bootstrap!Idle, Bootstrap!BackingUp
    <3>2. Bootstrap!Step(c, s)
      BY <2>2
    <3> HIDE DEF s
    <3> QED BY <1>4, <2>1, <3>1, <3>2, Advance
  <2>3. CASE Bootstrap!Goto(c, Bootstrap!Publishing(runs[c]))
    <3>1. Bootstrap!Publishing(runs[c]) \in {"publish", "confirm"}
      BY DEF Bootstrap!Publishing
    <3> QED BY <1>1, <2>1, <2>3, <3>1, GotoLeaves, Advance
  <2> QED BY <1>3, <1>8, <2>2, <2>3 DEF Bootstrap!CheckRun
<1>9. CASE Bootstrap!ResumeRun(c)
  <2>1. runs[c].pc = "resume"
    BY <1>9 DEF Bootstrap!ResumeRun, Bootstrap!At
  <2>2. Bootstrap!Publishing(runs[c]) \in {"publish", "confirm"}
    BY DEF Bootstrap!Publishing
  <2> QED BY <1>1, <1>3, <1>9, <2>1, <2>2, GotoLeaves, Advance DEF Bootstrap!ResumeRun
<1>10. CASE Bootstrap!Confirm(c)
  <2>1. runs[c].pc = "confirm"
    BY <1>10 DEF Bootstrap!Confirm, Bootstrap!At
  <2>2. CASE Bootstrap!Goto(c, "rollouts") /\ config = "target"
    BY <1>1, <2>1, <2>2, GotoLeaves, Advance
  <2> QED BY <1>3, <1>10, <2>2 DEF Bootstrap!Confirm
<1>11. CASE Bootstrap!RepairRollouts(c)
  <2>1. runs[c].pc = "rollouts"
    BY <1>11 DEF Bootstrap!RepairRollouts, Bootstrap!At
  <2>2. ASSUME NEW ch, Bootstrap!Step(c, [runs[c] EXCEPT !.changes = @ \ {ch}])
        PROVE  Leaves(c)
    <3> DEFINE s == [runs[c] EXCEPT !.changes = @ \ {ch}]
    <3>1. View(runs[c], s) /\ s.pc = "rollouts"
      BY <1>2, <2>1, SMT DEF View, IsRun, RunFields, Bootstrap!Idle
    <3>2. Bootstrap!Step(c, s)
      BY <2>2
    <3> HIDE DEF s
    <3> QED BY <1>4, <2>1, <3>1, <3>2, Advance
  <2>3. CASE Bootstrap!Goto(c, "databases")
    BY <1>1, <2>1, <2>3, GotoLeaves, Advance
  <2> QED BY <1>3, <1>11, <2>2, <2>3 DEF Bootstrap!RepairRollouts
<1>12. CASE Bootstrap!RepairDatabases(c)
  <2>1. runs[c].pc = "databases"
    BY <1>12 DEF Bootstrap!RepairDatabases, Bootstrap!At
  <2>2. ASSUME NEW d, Bootstrap!Step(c, [runs[c] EXCEPT !.held = @ \ {d}])
        PROVE  Leaves(c)
    <3> DEFINE s == [runs[c] EXCEPT !.held = @ \ {d}]
    <3>1. View(runs[c], s) /\ s.pc = "databases"
      BY <1>2, <2>1, SMT DEF View, IsRun, RunFields, Bootstrap!Idle
    <3>2. Bootstrap!Step(c, s)
      BY <2>2
    <3> HIDE DEF s
    <3> QED BY <1>4, <2>1, <3>1, <3>2, Advance
  <2>3. CASE Bootstrap!Goto(c, "verify")
    BY <1>1, <2>1, <2>3, GotoLeaves, Advance
  <2> QED BY <1>3, <1>12, <2>2, <2>3 DEF Bootstrap!RepairDatabases
<1>13. CASE Bootstrap!Verify(c)
  <2>1. runs[c].pc \in {"verify", "verifyAgain"}
    BY <1>13 DEF Bootstrap!Verify, Bootstrap!At
  <2>2. CASE runs[c].pc = "verify" /\ Bootstrap!Goto(c, "complete")
    BY <1>1, <2>2, GotoLeaves, Advance
  <2>3. CASE runs[c].pc = "verifyAgain" /\ Bootstrap!Goto(c, "clear")
    BY <1>1, <2>3, GotoLeaves, Advance
  <2> QED BY <1>3, <1>13, <2>1, <2>2, <2>3 DEF Bootstrap!Verify, Bootstrap!At
<1> QED BY <1>5, <1>6, <1>7, <1>8, <1>9, <1>10, <1>11, <1>12, <1>13 DEF LookingSteps

\* The steps of the decision, under the lock.
LEMMA DecidingLeaves ==
  ASSUME NEW c \in Clients, Going(c), config \in Bootstrap!Configs, Bootstrap!Plan(c) \/ Bootstrap!Begin(c)
  PROVE  Leaves(c)
<1>1. UNCHANGED <<config, pending, lock>>
  BY Zenon DEF Bootstrap!Plan, Bootstrap!Begin, Bootstrap!Files
<1>2. IsRun(runs[c]) /\ RunsShape /\ Keeps(c)
  BY DEF Going, Shape, RunsShape
<1>3. ASSUME NEW s, Bootstrap!Step(c, s), s.pc = "release", s.life = runs[c].life
      PROVE  Leaves(c)
  BY <1>1, <1>2, <1>3, StepMoves, Ends
<1>4. ASSUME NEW s, Bootstrap!Step(c, s), s.mine = runs[c].mine, s.life = runs[c].life,
             runs[c].pc \notin {"token", "release"}, s.pc \notin {"token", "release"},
             GoesBy(s, lock, pending, config)
      PROVE  Leaves(c)
  <2>1. runs'[c] = s
    BY <1>2, <1>4, StepMoves
  <2>2. Keeps(c)'
    BY <1>1, <1>2, <1>4, <2>1, SMT DEF Keeps, Bootstrap!Owner
  <2> QED BY <1>1, <2>2, SMT DEF Leaves, Going
<1>5. CASE Bootstrap!Plan(c)
  <2> DEFINE r == [runs[c] EXCEPT !.source = config]
             changed == [r EXCEPT !.pc = "bind", !.configOnly = TRUE]
             decided == [r EXCEPT !.pc = "begin"]
  <2>1. /\ runs[c].pc = "read" /\ GoesBy(runs[c], lock, pending, config)
        /\ \/ Bootstrap!Step(c, Bootstrap!Ending(r))
           \/ Bootstrap!Step(c, changed) /\ runs[c].seen = Bootstrap!NoPending
           \/ Bootstrap!Step(c, decided)
    BY <1>2, <1>5, SMT DEF Bootstrap!Plan, Bootstrap!At, Keeps
  <2>2. Bootstrap!Ending(r).pc = "release" /\ Bootstrap!Ending(r).life = runs[c].life
    BY <1>2, SMT DEF IsRun, RunFields, Bootstrap!Idle, Bootstrap!Ending
  <2>3. /\ changed.pc = "bind" /\ changed.source = config /\ changed.mine = runs[c].mine
        /\ changed.life = runs[c].life /\ changed.resumed = runs[c].resumed
        /\ decided.pc = "begin" /\ decided.source = config /\ decided.mine = runs[c].mine
        /\ decided.life = runs[c].life /\ decided.resumed = runs[c].resumed
    BY <1>2, SMT DEF IsRun, RunFields, Bootstrap!Idle
  <2> HIDE DEF r, changed, decided
  <2>4. runs[c].seen = Bootstrap!NoPending => GoesBy(changed, lock, pending, config)
    BY <2>1, <2>3, SMT DEF GoesBy, Unpublished, Published, Clearing, Bootstrap!NoBinding
  <2>5. GoesBy(decided, lock, pending, config)
    BY <2>1, <2>3, SMT DEF GoesBy, Unpublished, Published, Clearing, Bootstrap!NoBinding
  <2> QED BY <1>3, <1>4, <2>1, <2>2, <2>3, <2>4, <2>5
<1>6. CASE Bootstrap!Begin(c)
  <2> DEFINE r == runs[c]
             resumed == [r EXCEPT !.pend = pending, !.resumed = TRUE, !.pc = "check",
                                  !.published = r.source = "target"]
             fresh == [r EXCEPT !.pc = "discover"]
  <2>1. /\ r.pc = "begin" /\ GoesBy(r, lock, pending, config)
        /\ \/ Bootstrap!Step(c, Bootstrap!Ending(r))
           \/ Bootstrap!Step(c, resumed) /\ pending # Bootstrap!NoPending
           \/ Bootstrap!Step(c, fresh) /\ pending = Bootstrap!NoPending
    BY <1>2, <1>6, SMT DEF Bootstrap!Begin, Bootstrap!At, Keeps
  <2>2. Bootstrap!Ending(r).pc = "release" /\ Bootstrap!Ending(r).life = r.life
    BY <1>2, EndingView
  <2>3. /\ resumed.pc = "check" /\ resumed.source = r.source /\ resumed.mine = r.mine
        /\ resumed.life = r.life /\ resumed.pend = pending
        /\ View(r, fresh) /\ fresh.pc = "discover"
    BY <1>2, SMT DEF IsRun, RunFields, Bootstrap!Idle, View
  <2> HIDE DEF resumed, fresh
  <2>4. ASSUME pending # Bootstrap!NoPending PROVE GoesBy(resumed, lock, pending, config)
    <3>1. lock.phase # "unreadable" /\ Bootstrap!StaleLockCanBeRecovered(lock, pending, config)
      BY <1>2, <2>1, SMT DEF Going, Keeps
    <3>2. lock.binding # Bootstrap!NoBinding /\ lock.binding.pendingRequired
      BY <2>1, <2>4, SMT DEF GoesBy
    <3>3. lock.binding = Bootstrap!BindingOf(pending)
      BY <2>1, <2>4, <3>1, <3>2, SMT
      DEF Bootstrap!StaleLockCanBeRecovered, Bootstrap!SamePending, Bootstrap!BindingOf, GoesBy,
         IsLock, IsLockRecord,
          IsBinding
    <3> QED BY <2>1, <2>3, <2>4, <3>2, <3>3, SMT
        DEF GoesBy, Unpublished, Published, Clearing
  <2>5. pending = Bootstrap!NoPending => GoesBy(fresh, lock, pending, config)
    BY <2>1, <2>3, Advance
  <2>6. fresh.mine = r.mine /\ fresh.life = r.life
    BY <2>3 DEF View
  <2> QED BY <1>3, <1>4, <2>1, <2>2, <2>3, <2>4, <2>5, <2>6
<1> QED BY <1>5, <1>6

\* The lock is given its token, which says what was seen of the journal.
LEMMA TokenLeaves ==
  ASSUME NEW c \in Clients, Going(c), Bootstrap!WriteToken(c),
         pending # Bootstrap!NoPending => config \in {pending.source, "target"}, ~runs[c].resumed
  PROVE  Leaves(c)
<1> DEFINE r == runs[c]
           mine == [owner |-> Bootstrap!Owner(c),
                    phase |-> IF r.seen = Bootstrap!NoPending THEN "acquired" ELSE "prepared",
                    binding |-> IF r.seen = Bootstrap!NoPending THEN Bootstrap!NoBinding ELSE Bootstrap!BindingOf(r.seen)]
           s == [r EXCEPT !.pc = "read", !.mine = mine]
<1>1. /\ UNCHANGED <<config, pending>> /\ r.pc = "token"
      /\ lock = Bootstrap!Unreadable(Bootstrap!Owner(c)) /\ r.seen = pending
  BY SMT DEF Bootstrap!WriteToken, Bootstrap!At, Bootstrap!Files, Going, Keeps
<1>2. IsRun(r) /\ RunsShape /\ lock.owner # Bootstrap!Nobody
  BY DEF Going, Shape, RunsShape
<1>3. \/ lock' = mine /\ runs'[c] = s
      \/ lock' = Bootstrap!NoLock
  BY <1>1, <1>2, SMT DEF Bootstrap!WriteToken
<1>4. CASE lock' = Bootstrap!NoLock
  BY <1>4, SMT DEF Leaves, Bootstrap!NoLock
<1>5. CASE lock' = mine /\ runs'[c] = s
  <2>1. /\ s.pc = "read" /\ s.mine = mine /\ s.life = r.life /\ s.seen = pending
        /\ s.resumed = r.resumed
    BY <1>1, <1>2, SMT DEF IsRun, RunFields, Bootstrap!Idle
  <2>2. IsLock(mine) /\ mine.phase # "unreadable" /\ mine.owner = Bootstrap!Owner(c)
    <3>1. IsBinding(Bootstrap!NoBinding) /\ IsBinding(Bootstrap!BindingOf(r.seen))
      BY SMT DEF IsBinding, Bootstrap!NoBinding, Bootstrap!BindingOf
    <3>2. mine.binding \in {Bootstrap!NoBinding, Bootstrap!BindingOf(r.seen)}
      BY SMT
    <3>3. mine = [owner |-> mine.owner, phase |-> mine.phase, binding |-> mine.binding]
      BY SMT
    <3>4. mine.phase \in {"acquired", "prepared"} /\ mine.owner = Bootstrap!Owner(c)
      BY SMT
    <3> QED BY <3>1, <3>2, <3>3, <3>4, SMT DEF IsLock, IsLockRecord
  <2>3. /\ pending = Bootstrap!NoPending => mine.binding = Bootstrap!NoBinding
        /\ pending # Bootstrap!NoPending => /\ mine.binding = Bootstrap!BindingOf(pending)
                                            /\ mine.phase = "prepared"
    BY <1>1
  <2> HIDE DEF mine, s
  <2>4. Bootstrap!StaleLockCanBeRecovered(mine, pending, config)
    BY <2>3, SMT DEF Bootstrap!StaleLockCanBeRecovered, Bootstrap!SamePending, Bootstrap!BindingOf,
       Bootstrap!NoBinding
  <2>6. GoesBy(s, mine, pending, config)
    BY <2>1, <2>2, <2>3, SMT
    DEF GoesBy, Unpublished, Published, Clearing, Bootstrap!BindingOf, Bootstrap!NoBinding
  <2>7. Keeps(c)'
    BY <1>1, <1>5, <2>1, <2>2, <2>6, SMT DEF Keeps, Bootstrap!Owner
  <2> QED BY <1>1, <1>5, <2>4, <2>7 DEF Leaves
<1> QED BY <1>3, <1>4, <1>5

\* A run that ends with a lock that can be taken, whatever it did.
LEMMA EndsWell ==
  ASSUME NEW c \in Clients, Going(c), NEW s, Bootstrap!Step(c, s), lock'.owner = lock.owner,
         ~Bootstrap!Holding(s) \/ (s.pc = "release" /\ s.life = runs[c].life),
         Bootstrap!StaleLockCanBeRecovered(lock', pending', config')
  PROVE  Leaves(c)
<1>1. runs'[c] = s
  BY StepMoves DEF Going, Shape
<1> QED BY <1>1, SMT DEF Leaves, Keeps, Going, Bootstrap!Owner, Bootstrap!Holding

\* What a run writes into its lock.
LEMMA Rephased ==
  ASSUME NEW l, IsLockRecord(l), NEW phase
  PROVE  [l EXCEPT !.phase = phase]
           = [owner |-> l.owner, phase |-> phase, binding |-> l.binding]
<1>1. \A o, p, a : l = [owner |-> o, phase |-> p, binding |-> a]
        => [l EXCEPT !.phase = phase] = [owner |-> o, phase |-> phase, binding |-> a]
  BY SMT
<1> QED BY <1>1 DEF IsLockRecord

LEMMA Rebound ==
  ASSUME NEW l, IsLockRecord(l), NEW phase, NEW b
  PROVE  [l EXCEPT !.phase = phase, !.binding = b]
           = [owner |-> l.owner, phase |-> phase, binding |-> b]
<1> DEFINE m == [l EXCEPT !.phase = phase]
<1>1. m = [owner |-> l.owner, phase |-> phase, binding |-> l.binding]
  BY Rephased
<1>2. [l EXCEPT !.phase = phase, !.binding = b] = [m EXCEPT !.binding = b]
  BY SMT DEF IsLockRecord
<1> HIDE DEF m
<1>3. \A o, p, a : m = [owner |-> o, phase |-> p, binding |-> a]
        => [m EXCEPT !.binding = b] = [owner |-> o, phase |-> p, binding |-> b]
  BY SMT
<1>4. [m EXCEPT !.binding = b] = [owner |-> l.owner, phase |-> phase, binding |-> b]
  BY <1>1, <1>3
<1> QED BY <1>2, <1>4 DEF m

LEMMA BindingLeaves ==
  ASSUME NEW c \in Clients, Going(c), Bootstrap!BindPreparedLock(c), config \in Bootstrap!Configs
  PROVE  Leaves(c)
<1> DEFINE r == runs[c]
           binding == [op |-> r.op, source |-> r.source, pendingRequired |-> ~r.configOnly]
           mine == [r.mine EXCEPT !.phase = "prepared", !.binding = binding]
           s == [r EXCEPT !.mine = mine, !.pc = IF r.configOnly THEN "publish" ELSE "journal"]
<1>1. UNCHANGED <<config, pending>> /\ r.pc = "bind"
  BY SMT DEF Bootstrap!BindPreparedLock, Bootstrap!At, Bootstrap!Files
<1>2. IsRun(r) /\ RunsShape /\ lock.phase # "unreadable" /\ GoesBy(r, lock, pending, config)
  BY <1>1, SMT DEF Going, Shape, RunsShape, Keeps
<1>3. Bootstrap!Ending(r).pc = "release" /\ Bootstrap!Ending(r).life = r.life
  BY <1>2, EndingView
<1>4. CASE lock' = lock /\ Bootstrap!Finish(c)
  BY <1>1, <1>4, FinishLeaves
<1>5. ASSUME r.mine.binding = Bootstrap!NoBinding, lock' = mine, Bootstrap!Step(c, s) \/ Bootstrap!Finish(c)
      PROVE  Leaves(c)
  <2>1. /\ pending = Bootstrap!NoPending /\ config = r.source /\ ~r.resumed /\ IsLock(r.mine)
        /\ r.mine = lock
    BY <1>1, <1>2, <1>5, SMT DEF GoesBy, Unpublished
  <2>2. /\ mine.owner = r.mine.owner /\ mine.phase = "prepared" /\ mine.binding = binding
        /\ mine = [owner |-> mine.owner, phase |-> mine.phase, binding |-> mine.binding]
    <3> HIDE DEF binding
    <3>1. IsLockRecord(r.mine)
      BY <2>1 DEF IsLock
    <3>2. mine = [owner |-> r.mine.owner, phase |-> "prepared", binding |-> binding]
      <4> DEFINE l == r.mine
      <4>1. mine = [l EXCEPT !.phase = "prepared", !.binding = binding]
        OBVIOUS
      <4> HIDE DEF l
      <4>2. IsLockRecord(l)
        BY <3>1 DEF l
      <4>3. [l EXCEPT !.phase = "prepared", !.binding = binding]
              = [owner |-> l.owner, phase |-> "prepared", binding |-> binding]
        BY <4>2, Rebound
      <4> QED BY <4>1, <4>3 DEF l
    <3> HIDE DEF mine
    <3> QED BY <3>2, SMT
  <2>3. /\ binding.source = config /\ binding.pendingRequired = ~r.configOnly
        /\ binding # Bootstrap!NoBinding /\ IsBinding(binding)
    <3>1. IsBinding(binding) /\ binding.source = config
      BY <1>2, <2>1, SMT DEF IsBinding, IsRun
    <3> QED BY <3>1, SMT DEF Bootstrap!Configs, Bootstrap!NoBinding
  <2>4. /\ s.pc = IF r.configOnly THEN "publish" ELSE "journal"
        /\ s.mine = mine /\ s.life = r.life /\ s.source = r.source
        /\ s.configOnly = r.configOnly
    BY <1>2, SMT DEF IsRun, RunFields, Bootstrap!Idle
  <2> HIDE DEF mine, s, binding
  <2>5. IsLock(mine)
    BY <2>2, <2>3, SMT DEF IsLock, IsLockRecord
  <2>6. Bootstrap!StaleLockCanBeRecovered(mine, pending, config)
    BY <2>1, <2>2, <2>3, SMT DEF Bootstrap!StaleLockCanBeRecovered
  <2>7. CASE Bootstrap!Finish(c)
    BY <1>1, <1>3, <1>5, <2>1, <2>2, <2>6, <2>7, EndsWell DEF Bootstrap!Finish
  <2>8. CASE Bootstrap!Step(c, s)
    <3>1. runs'[c] = s
      BY <1>2, <2>8, StepMoves
    <3>2. GoesBy(s, mine, pending, config)
      <4>1. CASE r.configOnly /\ ~binding.pendingRequired
        BY <2>1, <2>2, <2>3, <2>4, <2>5, <4>1, SMT
        DEF GoesBy, Unpublished, Published, Clearing
      <4>2. CASE ~r.configOnly /\ binding.pendingRequired
        BY <2>1, <2>2, <2>3, <2>4, <2>5, <4>2, SMT
        DEF GoesBy, Unpublished, Published, Clearing
      <4>3. (r.configOnly /\ ~binding.pendingRequired)
              \/ (~r.configOnly /\ binding.pendingRequired)
        BY <1>2, <2>3, Zenon DEF IsRun
      <4> QED BY <4>1, <4>2, <4>3
    <3>3. Keeps(c)'
      BY <1>1, <1>5, <2>1, <2>2, <2>4, <3>1, <3>2, SMT DEF Keeps, Bootstrap!Owner, Going
    <3> QED BY <1>1, <1>5, <2>6, <3>3 DEF Leaves
  <2> QED BY <1>5, <2>7, <2>8
<1> QED BY <1>4, <1>5 DEF Bootstrap!BindPreparedLock

\* The journal that the lock is bound to is written.
LEMMA JournalLeaves ==
  ASSUME NEW c \in Clients, Going(c), Bootstrap!WriteJournal(c)
  PROVE  Leaves(c)
<1> DEFINE r == runs[c]
           pend == [at |-> "pending", op |-> r.mine.binding.op, source |-> r.source]
           s == [r EXCEPT !.pend = pend, !.pc = "check"]
<1>1. UNCHANGED <<config, lock>> /\ r.pc = "journal"
  BY SMT DEF Bootstrap!WriteJournal, Bootstrap!At
<1>2. IsRun(r) /\ RunsShape /\ lock.phase # "unreadable" /\ GoesBy(r, lock, pending, config)
      /\ Bootstrap!StaleLockCanBeRecovered(lock, pending, config)
  BY <1>1, SMT DEF Going, Shape, RunsShape, Keeps
<1>3. Bootstrap!Ending(r).pc = "release" /\ Bootstrap!Ending(r).life = r.life
  BY <1>2, EndingView
<1>4. CASE pending' = pending /\ Bootstrap!Finish(c)
  BY <1>1, <1>4, FinishLeaves
<1>5. ASSUME pending' = pend, Bootstrap!Step(c, s) \/ Bootstrap!Finish(c)
      PROVE  Leaves(c)
  <2>1. /\ lock.binding.pendingRequired /\ lock.binding.source = r.source
        /\ r.mine = lock /\ config = r.source /\ IsLock(lock) /\ pending = Bootstrap!NoPending
    BY <1>1, <1>2, SMT DEF GoesBy, IsLock, IsBinding, Unpublished
  <2>2. pend # Bootstrap!NoPending /\ pend.op = lock.binding.op /\ pend.source = r.source
    BY <2>1, SMT DEF Bootstrap!NoPending
  <2>3. lock.binding = Bootstrap!BindingOf(pend) /\ lock.binding # Bootstrap!NoBinding
    BY <2>1, <2>2, SMT DEF Bootstrap!BindingOf, IsLock, IsBinding, Bootstrap!NoBinding
  <2>4. s.pc = "check" /\ s.mine = r.mine /\ s.life = r.life /\ s.source = r.source
        /\ s.pend = pend
    BY <1>2, SMT DEF IsRun, RunFields, Bootstrap!Idle
  <2> HIDE DEF pend, s
  <2>6. Bootstrap!StaleLockCanBeRecovered(lock, pend, config)
    BY <1>2, <2>1, <2>2, <2>3, SMT DEF Bootstrap!StaleLockCanBeRecovered, Bootstrap!SamePending
  <2>7. CASE Bootstrap!Finish(c)
    BY <1>1, <1>3, <1>5, <2>6, <2>7, EndsWell DEF Bootstrap!Finish
  <2>8. CASE Bootstrap!Step(c, s)
    <3>1. runs'[c] = s
      BY <1>2, <2>8, StepMoves
    <3>2. GoesBy(s, lock, pend, config)
      BY <2>1, <2>2, <2>3, <2>4, SMT DEF GoesBy, Unpublished, Published, Clearing
    <3>3. Keeps(c)'
      BY <1>1, <1>2, <1>5, <2>4, <3>1, <3>2, SMT DEF Keeps, Bootstrap!Owner, Going
    <3> QED BY <1>1, <1>5, <2>6, <3>3 DEF Leaves
  <2> QED BY <1>5, <2>7, <2>8
<1> QED BY <1>4, <1>5 DEF Bootstrap!WriteJournal

\* The configuration is published: the lock speaks for the old one and the new.
LEMMA PublishLeaves ==
  ASSUME NEW c \in Clients, Going(c), Bootstrap!PublishTarget(c)
  PROVE  Leaves(c)
<1> DEFINE r == runs[c]
           done == [r EXCEPT !.published = TRUE]
           confirming(failed) == [done EXCEPT !.pc = "confirm", !.callbackFailed = failed]
           completing == [done EXCEPT !.pc = "complete"]
<1>1. /\ UNCHANGED <<pending, lock>> /\ r.pc = "publish"
      /\ config' = "target" \/ config' = config
  BY SMT DEF Bootstrap!PublishTarget, Bootstrap!At
<1>2. IsRun(r) /\ RunsShape /\ lock.phase # "unreadable" /\ GoesBy(r, lock, pending, config)
      /\ Bootstrap!StaleLockCanBeRecovered(lock, pending, config)
  BY <1>1, SMT DEF Going, Shape, RunsShape, Keeps
<1>3. /\ Bootstrap!Ending(r).pc = "release" /\ Bootstrap!Ending(r).life = r.life
      /\ Bootstrap!Ending(done).pc = "release" /\ Bootstrap!Ending(done).life = r.life
  BY <1>2, SMT DEF Bootstrap!Ending, IsRun, RunFields, Bootstrap!Idle
<1>4. \/ Bootstrap!Step(c, Bootstrap!Ending(r))
      \/ Bootstrap!Step(c, Bootstrap!Ending(done))
      \/ config' = "target" /\ ~r.configOnly /\ \E failed : Bootstrap!Step(c, confirming(failed))
      \/ config' = "target" /\ r.configOnly /\ Bootstrap!Step(c, completing)
  BY Zenon DEF Bootstrap!PublishTarget
<1>5. /\ \A failed : View(r, confirming(failed)) /\ confirming(failed).pc = "confirm"
      /\ View(r, completing) /\ completing.pc = "complete"
  BY <1>2, SMT DEF View, IsRun, RunFields, Bootstrap!Idle
<1> HIDE DEF done, confirming, completing
<1>6. Bootstrap!StaleLockCanBeRecovered(lock, pending, config')
  <2>1. lock.binding # Bootstrap!NoBinding /\ (pending = Bootstrap!NoPending => ~lock.binding.pendingRequired)
    BY <1>1, <1>2, SMT DEF GoesBy
  <2> QED BY <1>1, <1>2, <2>1, SMT DEF Bootstrap!StaleLockCanBeRecovered
<1>7. CASE Bootstrap!Step(c, Bootstrap!Ending(r))
  BY <1>1, <1>3, <1>6, <1>7, EndsWell
<1>8. CASE Bootstrap!Step(c, Bootstrap!Ending(done))
  BY <1>1, <1>3, <1>6, <1>8, EndsWell
<1>9. ASSUME NEW s, Bootstrap!Step(c, s), View(r, s), config' = "target",
             \/ s.pc = "confirm" /\ ~r.configOnly
             \/ s.pc = "complete" /\ r.configOnly
      PROVE  Leaves(c)
  <2>1. runs'[c] = s
    BY <1>2, <1>9, StepMoves
  <2>2. GoesBy(s, lock, pending, config')
    BY <1>1, <1>2, <1>9, SMT DEF GoesBy, View, Unpublished, Published, Clearing
  <2>3. Keeps(c)'
    BY <1>1, <1>2, <1>9, <2>1, <2>2, SMT DEF Keeps, Bootstrap!Owner, Going, View
  <2> QED BY <1>1, <1>6, <2>3 DEF Leaves
<1> QED BY <1>4, <1>5, <1>7, <1>8, <1>9

LEMMA CompleteLeaves ==
  ASSUME NEW c \in Clients, Going(c), Bootstrap!CompleteLock(c)
  PROVE  Leaves(c)
<1> DEFINE r == runs[c]
           mine == [r.mine EXCEPT !.phase = "completed"]
           ended == [r EXCEPT !.mine = mine]
           s == [ended EXCEPT !.pc = "verifyAgain"]
<1>1. UNCHANGED <<config, pending>> /\ r.pc = "complete"
  BY SMT DEF Bootstrap!CompleteLock, Bootstrap!At, Bootstrap!Files
<1>2. IsRun(r) /\ RunsShape /\ lock.phase # "unreadable" /\ GoesBy(r, lock, pending, config)
      /\ Bootstrap!StaleLockCanBeRecovered(lock, pending, config)
  BY <1>1, SMT DEF Going, Shape, RunsShape, Keeps
<1>3. /\ Bootstrap!Ending(r).pc = "release" /\ Bootstrap!Ending(r).life = r.life
      /\ Bootstrap!Ending(ended).pc = "release" /\ Bootstrap!Ending(ended).life = r.life
  BY <1>2, SMT DEF Bootstrap!Ending, IsRun, RunFields, Bootstrap!Idle
<1>4. CASE lock' = lock /\ Bootstrap!Finish(c)
  BY <1>1, <1>4, FinishLeaves
<1>5. ASSUME Bootstrap!Bound(r), lock' = mine,
             \/ ~r.configOnly /\ Bootstrap!Step(c, s)
             \/ Bootstrap!Step(c, Bootstrap!Ending(ended))
             \/ Bootstrap!Finish(c)
      PROVE  Leaves(c)
  <2>1. r.mine = lock /\ IsLock(lock) /\ config = "target" /\ lock.binding # Bootstrap!NoBinding
    BY <1>1, <1>2, SMT DEF GoesBy, Published
  <2>2. /\ mine.owner = lock.owner /\ mine.phase = "completed" /\ mine.binding = lock.binding
        /\ IsLock(mine)
    <3> DEFINE l == lock
    <3>1. mine = [l EXCEPT !.phase = "completed"]
      BY <2>1
    <3> HIDE DEF l
    <3>2. IsLockRecord(l)
      BY <2>1 DEF l, IsLock
    <3>3. mine = [owner |-> l.owner, phase |-> "completed", binding |-> l.binding]
      BY <3>1, <3>2, Rephased
    <3> HIDE DEF mine
    <3> QED BY <2>1, <3>3, SMT DEF IsLock, IsLockRecord, l
  <2>3. /\ s.pc = "verifyAgain" /\ s.mine = mine /\ s.life = r.life /\ s.pend = r.pend
    BY <1>2, SMT DEF IsRun, RunFields, Bootstrap!Idle
  <2> HIDE DEF mine, ended, s
  <2>4. Bootstrap!StaleLockCanBeRecovered(mine, pending, config)
    <3>1. lock.binding.pendingRequired \/ pending = Bootstrap!NoPending
      BY <1>2, <2>1, SMT DEF GoesBy
    <3>2. pending # Bootstrap!NoPending => lock.binding.pendingRequired /\ Bootstrap!SamePending(pending, lock.binding)
      BY <1>2, <2>1, SMT DEF Bootstrap!StaleLockCanBeRecovered
    <3> QED BY <2>1, <2>2, <3>1, <3>2, SMT DEF Bootstrap!StaleLockCanBeRecovered
  <2>5. CASE Bootstrap!Finish(c)
    BY <1>1, <1>3, <1>5, <2>2, <2>4, <2>5, EndsWell DEF Bootstrap!Finish
  <2>6. CASE Bootstrap!Step(c, Bootstrap!Ending(ended))
    BY <1>1, <1>3, <1>5, <2>2, <2>4, <2>6, EndsWell
  <2>7. CASE ~r.configOnly /\ Bootstrap!Step(c, s)
    <3>1. runs'[c] = s
      BY <1>2, <2>7, StepMoves
    <3>2. lock.binding = Bootstrap!BindingOf(r.pend) /\ lock.binding.pendingRequired
      BY <1>5, <2>1, <2>7, SMT DEF Bootstrap!Bound, Bootstrap!BindingOf
    <3>3. GoesBy(s, mine, pending, config)
      BY <2>1, <2>2, <2>3, <3>2, SMT DEF GoesBy, Unpublished, Published, Clearing
    <3>4. Keeps(c)'
      BY <1>1, <1>5, <2>2, <2>3, <3>1, <3>3, SMT DEF Keeps, Bootstrap!Owner, Going
    <3> QED BY <1>1, <1>5, <2>4, <3>4 DEF Leaves
  <2> QED BY <1>5, <2>5, <2>6, <2>7
<1> QED BY <1>4, <1>5 DEF Bootstrap!CompleteLock

\* A journal that is cleared is the one of the lock, under whatever name.
LEMMA ClearingLeaves ==
  ASSUME NEW c \in Clients, Going(c),
         Bootstrap!ClearPending(c) \/ Bootstrap!RemovePending(c) \/ Bootstrap!RestorePending(c)
  PROVE  Leaves(c)
<1> DEFINE r == runs[c]
<1>1. UNCHANGED <<config, lock>> /\ r.pc \in {"clear", "remove", "restorePending"}
  BY SMT DEF Bootstrap!ClearPending, Bootstrap!RemovePending, Bootstrap!RestorePending, Bootstrap!At
<1>2. IsRun(r) /\ RunsShape /\ lock.phase # "unreadable" /\ GoesBy(r, lock, pending, config)
      /\ Bootstrap!StaleLockCanBeRecovered(lock, pending, config) /\ IsJournal(pending)
  BY <1>1, SMT DEF Going, Shape, RunsShape, Keeps
<1>3. /\ lock.binding = Bootstrap!BindingOf(r.pend) /\ lock.binding.pendingRequired
      /\ lock.binding # Bootstrap!NoBinding /\ lock.phase = "completed" /\ config = "target"
      /\ r.mine = lock /\ IsLock(lock)
  BY <1>1, <1>2, SMT DEF GoesBy, Clearing, Published, Bootstrap!BindingOf, Bootstrap!NoBinding,
     IsLock, IsBinding
<1>4. pending # Bootstrap!NoPending => Bootstrap!SamePending(pending, lock.binding)
  BY <1>2, <1>3, SMT DEF Bootstrap!StaleLockCanBeRecovered
<1>5. \/ pending' = pending
      \/ pending' = [pending EXCEPT !.at = "clearing"] /\ pending # Bootstrap!NoPending
      \/ pending' = Bootstrap!NoPending
      \/ pending' = [r.pend EXCEPT !.at = "pending"]
  BY DEF Bootstrap!ClearPending, Bootstrap!RemovePending, Bootstrap!RestorePending
<1>6. pending' = Bootstrap!NoPending \/ Bootstrap!SamePending(pending', lock.binding)
  <2>1. CASE pending' = [pending EXCEPT !.at = "clearing"] /\ pending # Bootstrap!NoPending
    BY <1>2, <1>4, <2>1, SMT DEF Bootstrap!SamePending, IsJournal, Bootstrap!NoPending
  <2>2. CASE pending' = [r.pend EXCEPT !.at = "pending"]
    BY <1>2, <1>3, <2>2, SMT DEF Bootstrap!SamePending, IsJournal, Bootstrap!NoPending, IsRun,
       Bootstrap!BindingOf
  <2> QED BY <1>4, <1>5, <2>1, <2>2
<1>7. Bootstrap!StaleLockCanBeRecovered(lock, pending', config')
  BY <1>1, <1>3, <1>6, SMT DEF Bootstrap!StaleLockCanBeRecovered
<1>8. \/ Bootstrap!Step(c, Bootstrap!Ending(r))
      \/ Bootstrap!Step(c, Bootstrap!Idle(r.life))
      \/ Bootstrap!Goto(c, "remove")
      \/ Bootstrap!Goto(c, "restorePending")
  BY DEF Bootstrap!ClearPending, Bootstrap!RemovePending, Bootstrap!RestorePending, Bootstrap!Finish
<1>9. CASE Bootstrap!Step(c, Bootstrap!Ending(r))
  BY <1>1, <1>2, <1>7, <1>9, EndingView, EndsWell
<1>10. CASE Bootstrap!Step(c, Bootstrap!Idle(r.life))
  <2>1. ~Bootstrap!Holding(Bootstrap!Idle(r.life))
    BY SMT DEF Bootstrap!Holding, Bootstrap!Idle
  <2> QED BY <1>1, <1>7, <1>10, <2>1, EndsWell
<1>11. ASSUME NEW pc \in {"remove", "restorePending"}, Bootstrap!Goto(c, pc)
       PROVE  Leaves(c)
  <2> DEFINE s == [r EXCEPT !.pc = pc]
  <2>1. runs'[c] = s
    BY <1>2, <1>11, StepMoves DEF Bootstrap!Goto
  <2>2. View(r, s) /\ s.pc = pc
    BY <1>2, SMT DEF View, IsRun, RunFields, Bootstrap!Idle
  <2> HIDE DEF s
  <2>3. GoesBy(s, lock, pending', config)
    BY <1>3, <1>11, <2>2, SMT DEF GoesBy, View, Unpublished, Published, Clearing
  <2>4. Keeps(c)'
    BY <1>1, <1>2, <1>11, <2>1, <2>2, <2>3, SMT DEF Keeps, Bootstrap!Owner, Going, View
  <2> QED BY <1>1, <1>7, <2>4 DEF Leaves
<1> QED BY <1>8, <1>9, <1>10, <1>11

\* The lock is given back, or left where it is.
LEMMA ReleaseLeaves ==
  ASSUME NEW c \in Clients, Going(c), Bootstrap!ReleaseLock(c) \/ Bootstrap!Die(c)
  PROVE  Leaves(c)
<1>1. UNCHANGED <<config, pending>> /\ RunsShape
  BY SMT DEF Bootstrap!ReleaseLock, Bootstrap!Die, Bootstrap!Files, Going, Shape
<1>2. lock'.owner = Bootstrap!Nobody \/ lock' = lock
  BY SMT DEF Bootstrap!ReleaseLock, Bootstrap!Die, Bootstrap!NoLock, Bootstrap!Blocked,
     Bootstrap!Unreadable
<1>3. ~Bootstrap!Holding(runs'[c])
  <2>1. CASE Bootstrap!Step(c, [runs[c] EXCEPT !.pc = "restore", !.claim = lock])
    <3> DEFINE s == [runs[c] EXCEPT !.pc = "restore", !.claim = lock]
    <3>1. s.pc = "restore"
      BY <1>1, SMT DEF RunsShape, IsRun, RunFields, Bootstrap!Idle
    <3>2. runs'[c] = s
      BY <1>1, <2>1, StepMoves
    <3> HIDE DEF s
    <3> QED BY <3>1, <3>2 DEF Bootstrap!Holding
  <2>2. ASSUME NEW life, Bootstrap!Step(c, Bootstrap!Idle(life)) PROVE ~Bootstrap!Holding(runs'[c])
    BY <1>1, <2>2, StepMoves, SMT DEF Bootstrap!Holding, Bootstrap!Idle
  <2> QED BY <2>1, <2>2 DEF Bootstrap!ReleaseLock, Bootstrap!Die
<1> QED BY <1>1, <1>2, <1>3, SMT DEF Leaves, Going

------------------------
(* What every run keeps of the configuration and the journal. *)

\* A run that touches the history or clears the journal has one.
Late == {"confirm", "rollouts", "databases", "verify"} \union Clearing
HasPend(r) ==
  /\ r.pc \in Late => r.pend # Bootstrap!NoPending
  /\ r.pc = "complete" => r.configOnly \/ r.pend # Bootstrap!NoPending

RunFacts(r, f, writes) ==
  /\ IsLockRecord(r.mine)
  /\ r.pc \in {"lock", "steal", "token"} => ~r.resumed
  /\ HasPend(r)
  /\ writes = 0 =>
       /\ r.pend # Bootstrap!NoPending => f \in {r.pend.source, "target"}
       /\ r.pc \in Unpublished => f \in {r.source, "target"}

Knowing(c) == RunFacts(runs[c], config, bounds.writes)

JournalFacts == bounds.writes = 0 /\ pending # Bootstrap!NoPending => config \in {pending.source, "target"}

BoundsShape ==
  /\ DOMAIN bounds = {"runs", "writes", "faults", "deaths", "checks"}
  /\ bounds.writes \in Nat

LeftLockInv ==
  /\ RepairInv /\ BoundsShape /\ JournalFacts /\ LockInv
  /\ \A c \in Clients : Knowing(c)

\* The other runs only learn the token of a lock they have claimed.
LEMMA Bystanders ==
  ASSUME RunsShape, NEW c \in Clients, Bootstrap!BootstrapStep(c), NEW k \in Clients, k # c
  PROVE  View(runs[k], runs'[k]) /\ runs'[k].pc = runs[k].pc
<1>1. IsRun(runs[k])
  BY DEF RunsShape
<1>2. ASSUME NEW r, Bootstrap!Step(c, r) PROVE View(runs[k], runs'[k]) /\ runs'[k].pc = runs[k].pc
  BY <1>2, SMT DEF RunsShape, Bootstrap!Step, View
<1>3. CASE Bootstrap!WriteToken(c)
  <2>1. ASSUME NEW m, runs'[k] = [runs[k] EXCEPT !.claim = m]
        PROVE  View(runs[k], runs'[k]) /\ runs'[k].pc = runs[k].pc
    BY <1>1, <2>1, SMT DEF View, IsRun, RunFields, Bootstrap!Idle
  <2>2. ASSUME runs'[k] = runs[k]
        PROVE  View(runs[k], runs'[k]) /\ runs'[k].pc = runs[k].pc
    BY <2>2 DEF View
  <2> QED BY <1>2, <1>3, <2>1, <2>2, Zenon DEF Bootstrap!WriteToken
<1>4. CASE \E r : Bootstrap!Step(c, r)
  BY <1>2, <1>4
<1>5. ~Bootstrap!WriteToken(c) => \E r : Bootstrap!Step(c, r)
  BY Zenon DEF Bootstrap!BootstrapStep, Bootstrap!Inspect, Bootstrap!AcquireConfigLock,
     Bootstrap!StealLock, Bootstrap!RestoreLock, Bootstrap!Plan, Bootstrap!Begin,
     Bootstrap!Discover, Bootstrap!BackUpRollouts, Bootstrap!PrepareDatabase,
     Bootstrap!BindPreparedLock, Bootstrap!WriteJournal, Bootstrap!ResumeRun,
     Bootstrap!CheckRun, Bootstrap!PublishTarget, Bootstrap!Confirm, Bootstrap!RepairRollouts,
     Bootstrap!RepairDatabases, Bootstrap!Verify, Bootstrap!CompleteLock,
     Bootstrap!ClearPending, Bootstrap!RemovePending, Bootstrap!RestorePending,
     Bootstrap!ReleaseLock, Bootstrap!Die, Bootstrap!Goto, Bootstrap!Finish
<1> QED BY <1>3, <1>4, <1>5

LEMMA UseOne ==
  ASSUME BoundsShape, NEW max,
         Bootstrap!Use("runs", max) \/ Bootstrap!Use("faults", max) \/ Bootstrap!Use("deaths", max) \/ Bootstrap!Use("checks", max)
  PROVE  BoundsShape' /\ bounds'.writes = bounds.writes
<1>1. /\ BoundsShape
      /\ \/ bounds' = [bounds EXCEPT !["runs"] = @ + 1]
         \/ bounds' = [bounds EXCEPT !["faults"] = @ + 1]
         \/ bounds' = [bounds EXCEPT !["deaths"] = @ + 1]
         \/ bounds' = [bounds EXCEPT !["checks"] = @ + 1]
  BY DEF Bootstrap!Use
<1> QED BY <1>1, SMT DEF BoundsShape

LEMMA UseWrite ==
  ASSUME BoundsShape, Bootstrap!Use("writes", MaxWrites)
  PROVE  BoundsShape' /\ bounds'.writes # 0
<1>1. BoundsShape /\ bounds' = [bounds EXCEPT !["writes"] = @ + 1]
  BY DEF Bootstrap!Use
<1> QED BY <1>1, SMT DEF BoundsShape

LEMMA StepBounds ==
  ASSUME BoundsShape, NEW c \in Clients, Bootstrap!BootstrapStep(c)
  PROVE  BoundsShape' /\ bounds'.writes = bounds.writes
<1>1. CASE UNCHANGED bounds
  BY <1>1 DEF BoundsShape
<1>2. CASE Bootstrap!Fault \/ Bootstrap!Use("runs", MaxRuns) \/ Bootstrap!Use("deaths", MaxDeaths)
  BY <1>2, UseOne DEF Bootstrap!Fault
<1>3. UNCHANGED bounds \/ Bootstrap!Fault \/ Bootstrap!Use("runs", MaxRuns) \/ Bootstrap!Use("deaths", MaxDeaths)
  BY Zenon DEF Bootstrap!BootstrapStep, Bootstrap!Inspect, Bootstrap!AcquireConfigLock,
     Bootstrap!StealLock, Bootstrap!RestoreLock, Bootstrap!Plan, Bootstrap!Begin,
     Bootstrap!Discover, Bootstrap!BackUpRollouts, Bootstrap!PrepareDatabase,
     Bootstrap!BindPreparedLock, Bootstrap!WriteJournal, Bootstrap!ResumeRun,
     Bootstrap!CheckRun, Bootstrap!PublishTarget, Bootstrap!Confirm, Bootstrap!RepairRollouts,
     Bootstrap!RepairDatabases, Bootstrap!Verify, Bootstrap!CompleteLock,
     Bootstrap!ClearPending, Bootstrap!RemovePending, Bootstrap!RestorePending,
     Bootstrap!ReleaseLock, Bootstrap!Die, Bootstrap!WriteToken, Bootstrap!NoFault,
     Bootstrap!PublishConfig, Bootstrap!WriteFileAtomically
<1> QED BY <1>1, <1>2, <1>3

\* Where a run goes on with what it knew.
Carries(r, s) ==
  /\ s.mine = r.mine /\ s.pend = r.pend /\ s.source = r.source
  /\ s.pc \notin {"lock", "steal", "token"}
  /\ s.pc \in Unpublished => r.pc \in Unpublished
  /\ HasPend(s)

\* A step leaves the configuration as it is or publishes the patched one.
Publishes ==
  /\ config' \in {config, "target"}
  /\ bounds'.writes = bounds.writes

LEMMA CarriedFacts ==
  ASSUME NEW r, NEW s, RunFacts(r, config, bounds.writes), Carries(r, s), Publishes
  PROVE  RunFacts(s, config', bounds'.writes)
BY SMT DEF RunFacts, Carries, Publishes

LEMMA FreshFacts ==
  ASSUME NEW s, IsLockRecord(s.mine), ~s.resumed, s.pend = Bootstrap!NoPending, s.pc \notin Unpublished,
         HasPend(s)
  PROVE  RunFacts(s, config', bounds'.writes)
BY SMT DEF RunFacts

LEMMA IdleFacts ==
  ASSUME NEW life
  PROVE  RunFacts(Bootstrap!Idle(life), config', bounds'.writes)
<1>1. IsLockRecord(Bootstrap!NoLock)
  BY SMT DEF IsLockRecord, Bootstrap!NoLock
<1>3. HasPend(Bootstrap!Idle(life))
  BY SMT DEF HasPend, Late, Clearing, Bootstrap!Idle
<1>2. /\ Bootstrap!Idle(life).mine = Bootstrap!NoLock /\ Bootstrap!Idle(life).pc = "idle" /\ ~Bootstrap!Idle(life).resumed
      /\ Bootstrap!Idle(life).pend = Bootstrap!NoPending
  BY DEF Bootstrap!Idle
<1> HIDE DEF Bootstrap!Idle
<1> QED BY <1>1, <1>2, <1>3, FreshFacts, SMT DEF Unpublished

\* What the changes of a run do to it.
LEMMA Carried ==
  ASSUME NEW r, IsRun(r)
  PROVE  /\ Carries(r, Bootstrap!Ending(r))
         /\ \A pc : /\ pc \notin {"lock", "steal", "token"}
                    /\ pc \in Unpublished => r.pc \in Unpublished
                    /\ pc \in Late \union {"complete"} => r.pend # Bootstrap!NoPending
                    => Carries(r, [r EXCEPT !.pc = pc])
         /\ r.pc \in Unpublished => Carries(r, Bootstrap!BackingUp(r)) /\ Carries(r, Bootstrap!Prepared(r))
<1>1. Carries(r, Bootstrap!Ending(r))
  BY SMT DEF Carries, Bootstrap!Ending, IsRun, RunFields, Bootstrap!Idle, Unpublished, HasPend,
     Late, Clearing
<1>2. ASSUME NEW pc, pc \notin {"lock", "steal", "token"},
             pc \in Unpublished => r.pc \in Unpublished,
             pc \in Late \union {"complete"} => r.pend # Bootstrap!NoPending
      PROVE  Carries(r, [r EXCEPT !.pc = pc])
  BY <1>2, SMT DEF Carries, IsRun, RunFields, Bootstrap!Idle, HasPend
<1>3. ASSUME r.pc \in Unpublished
      PROVE  Carries(r, Bootstrap!BackingUp(r)) /\ Carries(r, Bootstrap!Prepared(r))
  BY <1>3, SMT DEF Carries, Bootstrap!BackingUp, Bootstrap!Prepared, IsRun, RunFields,
     Bootstrap!Idle,
                   HasPend, Late, Clearing
<1> QED BY <1>1, <1>2, <1>3

LEMMA CarryingSteps ==
  ASSUME RepairInv, NEW c \in Clients, LookingSteps(c), Knowing(c), Publishes
  PROVE  Knowing(c)'
<1> DEFINE r == runs[c]
<1>1. IsRun(r) /\ RunsShape /\ Journalled(r) /\ HasPend(r)
  BY DEF RepairInv, Shape, RunsShape, RunInv, Knowing, RunFacts
<1>2. ASSUME NEW s, Bootstrap!Step(c, s), Carries(r, s) PROVE Knowing(c)'
  <2>1. runs'[c] = s
    BY <1>1, <1>2, StepMoves
  <2> QED BY <1>2, <2>1, CarriedFacts DEF Knowing
<1>3. ASSUME NEW pc, Bootstrap!Goto(c, pc), pc \notin {"lock", "steal", "token"},
             pc \in Unpublished => r.pc \in Unpublished,
             pc \in Late \union {"complete"} => r.pend # Bootstrap!NoPending
      PROVE  Knowing(c)'
  BY <1>1, <1>2, <1>3, Carried DEF Bootstrap!Goto
<1>4. ASSUME Bootstrap!Finish(c) PROVE Knowing(c)'
  BY <1>1, <1>2, <1>4, Carried DEF Bootstrap!Finish
<1>5. CASE Bootstrap!Discover(c)
  <2>1. r.pc \in Unpublished
    BY <1>5, SMT DEF Bootstrap!Discover, Bootstrap!At, Unpublished
  <2>2. CASE Bootstrap!Step(c, [r EXCEPT !.pc = "bind", !.configOnly = TRUE])
    <3> DEFINE s == [r EXCEPT !.pc = "bind", !.configOnly = TRUE]
    <3>1. Carries(r, s)
      BY <1>1, <2>1, SMT DEF Carries, IsRun, RunFields, Bootstrap!Idle, HasPend, Late, Clearing
    <3> HIDE DEF s
    <3> QED BY <1>2, <2>2, <3>1 DEF s
  <2>3. CASE Bootstrap!Step(c, Bootstrap!BackingUp(r))
    BY <1>1, <1>2, <2>1, <2>3, Carried
  <2> QED BY <1>4, <1>5, <2>2, <2>3 DEF Bootstrap!Discover
<1>6. CASE Bootstrap!BackUpRollouts(c)
  <2>1. r.pc \in Unpublished
    BY <1>6, SMT DEF Bootstrap!BackUpRollouts, Bootstrap!At, Unpublished
  <2>2. CASE Bootstrap!Step(c, Bootstrap!Prepared(r))
    BY <1>1, <1>2, <2>1, <2>2, Carried
  <2> QED BY <1>4, <1>6, <2>2 DEF Bootstrap!BackUpRollouts
<1>7. CASE Bootstrap!PrepareDatabase(c)
  <2>1. r.pc \in Unpublished
    BY <1>7, SMT DEF Bootstrap!PrepareDatabase, Bootstrap!At, Unpublished
  <2>2. ASSUME NEW d \in r.todo,
               LET next == Bootstrap!Prepared([r EXCEPT !.todo = @ \ {d}])
               IN Bootstrap!Step(c, next) \/ Bootstrap!Step(c, [next EXCEPT !.held = @ \union {d}])
        PROVE  Knowing(c)'
    <3> DEFINE next == Bootstrap!Prepared([r EXCEPT !.todo = @ \ {d}])
               s == [next EXCEPT !.held = @ \union {d}]
    <3>1. Carries(r, next) /\ Carries(r, s)
      BY <1>1, <2>1, SMT DEF Carries, Bootstrap!Prepared, IsRun, RunFields, Bootstrap!Idle,
                               HasPend, Late, Clearing
    <3>2. Bootstrap!Step(c, next) \/ Bootstrap!Step(c, s)
      BY <2>2
    <3> HIDE DEF next, s
    <3> QED BY <1>2, <3>1, <3>2
  <2> QED BY <1>4, <1>7, <2>2 DEF Bootstrap!PrepareDatabase
<1>8. CASE Bootstrap!CheckRun(c) \/ Bootstrap!ResumeRun(c)
  <2>1. r.pc \in Unpublished /\ r.pend # Bootstrap!NoPending
    BY <1>1, <1>8, SMT DEF Bootstrap!CheckRun, Bootstrap!ResumeRun, Bootstrap!At, Unpublished,
       Journalled
  <2>2. Bootstrap!Publishing(r) \in {"publish", "confirm"}
    BY DEF Bootstrap!Publishing
  <2>3. CASE Bootstrap!Step(c, Bootstrap!BackingUp(r))
    BY <1>1, <1>2, <2>1, <2>3, Carried
  <2>4. CASE Bootstrap!Goto(c, Bootstrap!Publishing(r))
    BY <1>3, <2>1, <2>2, <2>4
  <2> QED BY <1>4, <1>8, <2>3, <2>4 DEF Bootstrap!CheckRun, Bootstrap!ResumeRun
<1>9. CASE Bootstrap!Confirm(c) \/ Bootstrap!Verify(c)
  <2>1. \/ Bootstrap!Finish(c)
        \/ \E pc \in {"rollouts", "complete", "clear"} : Bootstrap!Goto(c, pc)
    BY <1>9 DEF Bootstrap!Confirm, Bootstrap!Verify
  <2>3. r.pend # Bootstrap!NoPending
    BY <1>1, <1>9, SMT DEF Bootstrap!Confirm, Bootstrap!Verify, Bootstrap!At, HasPend, Late,
       Clearing
  <2>2. ASSUME NEW pc \in {"rollouts", "complete", "clear"}, Bootstrap!Goto(c, pc)
        PROVE  Knowing(c)'
    <3>1. pc \notin {"lock", "steal", "token"} /\ pc \notin Unpublished
      BY <2>2, SMT DEF Unpublished
    <3> QED BY <1>3, <2>2, <2>3, <3>1
  <2> QED BY <1>4, <2>1, <2>2
<1>10. CASE Bootstrap!RepairRollouts(c) \/ Bootstrap!RepairDatabases(c)
  <2>1. r.pc \in {"rollouts", "databases"} /\ r.pend # Bootstrap!NoPending
    BY <1>1, <1>10, SMT DEF Bootstrap!RepairRollouts, Bootstrap!RepairDatabases, Bootstrap!At,
       HasPend, Late
  <2>2. \/ Bootstrap!Finish(c)
        \/ \E pc \in {"databases", "verify"} : Bootstrap!Goto(c, pc)
        \/ \E ch : Bootstrap!Step(c, [r EXCEPT !.changes = @ \ {ch}])
        \/ \E d : Bootstrap!Step(c, [r EXCEPT !.held = @ \ {d}])
    BY <1>10 DEF Bootstrap!RepairRollouts, Bootstrap!RepairDatabases
  <2>3. ASSUME NEW pc \in {"databases", "verify"}, Bootstrap!Goto(c, pc)
        PROVE  Knowing(c)'
    <3>1. pc \notin {"lock", "steal", "token"} /\ pc \notin Unpublished
      BY <2>3, SMT DEF Unpublished
    <3> QED BY <1>3, <2>1, <2>3, <3>1
  <2>4. ASSUME NEW x, Bootstrap!Step(c, [r EXCEPT !.changes = @ \ {x}])
        PROVE  Knowing(c)'
    <3> DEFINE s == [r EXCEPT !.changes = @ \ {x}]
    <3>1. Carries(r, s)
      BY <1>1, <2>1, SMT DEF Carries, IsRun, RunFields, Bootstrap!Idle, HasPend, Late, Clearing
    <3> HIDE DEF s
    <3> QED BY <1>2, <2>4, <3>1 DEF s
  <2>5. ASSUME NEW x, Bootstrap!Step(c, [r EXCEPT !.held = @ \ {x}])
        PROVE  Knowing(c)'
    <3> DEFINE s == [r EXCEPT !.held = @ \ {x}]
    <3>1. Carries(r, s)
      BY <1>1, <2>1, SMT DEF Carries, IsRun, RunFields, Bootstrap!Idle, HasPend, Late, Clearing
    <3> HIDE DEF s
    <3> QED BY <1>2, <2>5, <3>1 DEF s
  <2> QED BY <1>4, <2>2, <2>3, <2>4, <2>5
<1> QED BY <1>5, <1>6, <1>7, <1>8, <1>9, <1>10 DEF LookingSteps

LEMMA KnowingMoves ==
  ASSUME Shape, NEW c \in Clients, NEW s, Bootstrap!Step(c, s), RunFacts(s, config', bounds'.writes)
  PROVE  Knowing(c)'
BY StepMoves DEF Shape, Knowing

LEMMA LockingSteps ==
  ASSUME Shape, NEW c \in Clients, Knowing(c), Publishes,
         \/ Bootstrap!Inspect(c) \/ Bootstrap!AcquireConfigLock(c) \/ Bootstrap!StealLock(c) \/ Bootstrap!RestoreLock(c)
         \/ Bootstrap!ReleaseLock(c) \/ Bootstrap!Die(c)
  PROVE  Knowing(c)'
<1> DEFINE r == runs[c]
<1>1. IsRun(r) /\ RunsShape
  BY DEF Shape, RunsShape
<1>2. ASSUME NEW life, Bootstrap!Step(c, Bootstrap!Idle(life)) PROVE Knowing(c)'
  BY <1>2, IdleFacts, KnowingMoves
<1>3. ASSUME NEW s, Bootstrap!Step(c, s), s.mine = r.mine, s.pend = r.pend, ~s.resumed,
             s.pc \notin Unpublished, HasPend(s)
      PROVE  Knowing(c)'
  <2>1. RunFacts(s, config', bounds'.writes)
    BY <1>3, SMT DEF Knowing, RunFacts, Publishes
  <2> QED BY <1>3, <2>1, KnowingMoves
<1>4. CASE Bootstrap!Inspect(c)
  <2> DEFINE s == [Bootstrap!Idle(r.life) EXCEPT !.pc = "lock", !.op = bounds.runs + 1, !.seen = pending]
  <2>1. s.mine = Bootstrap!NoLock /\ s.pend = Bootstrap!NoPending /\ ~s.resumed /\ s.pc = "lock"
    BY SMT DEF Bootstrap!Idle
  <2>2. Bootstrap!Step(c, s)
    BY <1>4 DEF Bootstrap!Inspect
  <2> HIDE DEF s
  <2>3. IsLockRecord(s.mine) /\ s.pc \notin Unpublished /\ HasPend(s)
    BY <2>1, SMT DEF IsLockRecord, Bootstrap!NoLock, Unpublished, HasPend, Late, Clearing
  <2>4. RunFacts(s, config', bounds'.writes)
    BY <2>1, <2>3, FreshFacts
  <2> QED BY <2>2, <2>4, KnowingMoves
<1>5. CASE Bootstrap!AcquireConfigLock(c)
  <2> DEFINE taking == [r EXCEPT !.pc = "token"]
             stealing == [r EXCEPT !.pc = "steal", !.claim = lock]
  <2>1. ~r.resumed
    BY <1>5, SMT DEF Bootstrap!AcquireConfigLock, Bootstrap!At, Knowing, RunFacts
  <2>2. /\ taking.mine = r.mine /\ taking.pend = r.pend /\ taking.resumed = r.resumed
        /\ taking.pc = "token"
        /\ stealing.mine = r.mine /\ stealing.pend = r.pend /\ stealing.resumed = r.resumed
        /\ stealing.pc = "steal"
    BY <1>1, SMT DEF IsRun, RunFields, Bootstrap!Idle
  <2>3. \/ Bootstrap!Step(c, taking)
        \/ Bootstrap!Step(c, stealing)
        \/ Bootstrap!Step(c, Bootstrap!Idle(r.life))
    BY <1>5 DEF Bootstrap!AcquireConfigLock, Bootstrap!Goto
  <2> HIDE DEF taking, stealing
  <2>4. /\ taking.pc \notin Unpublished /\ stealing.pc \notin Unpublished
        /\ HasPend(taking) /\ HasPend(stealing)
    BY <2>2, SMT DEF Unpublished, HasPend, Late, Clearing
  <2> QED BY <1>2, <1>3, <2>1, <2>2, <2>3, <2>4
<1>6. CASE Bootstrap!StealLock(c)
  <2> DEFINE again == [r EXCEPT !.pc = "lock"]
             restoring == [r EXCEPT !.pc = "restore", !.claim = lock]
  <2>1. ~r.resumed
    BY <1>6, SMT DEF Bootstrap!StealLock, Bootstrap!At, Knowing, RunFacts
  <2>2. /\ again.mine = r.mine /\ again.pend = r.pend /\ again.resumed = r.resumed
        /\ again.pc = "lock"
        /\ restoring.mine = r.mine /\ restoring.pend = r.pend /\ restoring.resumed = r.resumed
        /\ restoring.pc = "restore"
    BY <1>1, SMT DEF IsRun, RunFields, Bootstrap!Idle
  <2>3. \/ Bootstrap!Step(c, again)
        \/ Bootstrap!Step(c, restoring)
        \/ Bootstrap!Step(c, Bootstrap!Idle(r.life))
    BY <1>6 DEF Bootstrap!StealLock, Bootstrap!Goto
  <2> HIDE DEF again, restoring
  <2>4. /\ again.pc \notin Unpublished /\ restoring.pc \notin Unpublished
        /\ HasPend(again) /\ HasPend(restoring)
    BY <2>2, SMT DEF Unpublished, HasPend, Late, Clearing
  <2> QED BY <1>2, <1>3, <2>1, <2>2, <2>3, <2>4
<1>7. CASE Bootstrap!ReleaseLock(c)
  <2> DEFINE restoring == [r EXCEPT !.pc = "restore", !.claim = lock]
  <2>1. Carries(r, restoring)
    BY <1>1, SMT DEF IsRun, RunFields, Bootstrap!Idle, Carries, Unpublished, HasPend, Late, Clearing
  <2>2. RunFacts(restoring, config', bounds'.writes)
    BY <2>1, CarriedFacts DEF Knowing
  <2>3. Bootstrap!Step(c, restoring) \/ Bootstrap!Step(c, Bootstrap!Idle(r.life))
    BY <1>7 DEF Bootstrap!ReleaseLock
  <2> HIDE DEF restoring
  <2> QED BY <1>2, <2>2, <2>3, KnowingMoves
<1>8. CASE Bootstrap!RestoreLock(c) \/ Bootstrap!Die(c)
  BY <1>2, <1>8 DEF Bootstrap!RestoreLock, Bootstrap!Die
<1> QED BY <1>4, <1>5, <1>6, <1>7, <1>8

LEMMA DecidingSteps ==
  ASSUME Shape, NEW c \in Clients, Knowing(c), Publishes, JournalFacts,
         Bootstrap!Plan(c) \/ Bootstrap!Begin(c) \/ Bootstrap!WriteToken(c)
  PROVE  Knowing(c)'
<1> DEFINE r == runs[c]
<1>1. IsRun(r) /\ RunsShape /\ UNCHANGED <<config, pending>>
  BY SMT DEF Shape, RunsShape, Bootstrap!Plan, Bootstrap!Begin, Bootstrap!WriteToken,
     Bootstrap!Files
<1>2. ASSUME NEW s, runs'[c] = s, s.mine = r.mine,
             s.pend = r.pend \/ s.pend = pending,
             s.source = r.source \/ s.source = config,
             s.pc \notin {"lock", "steal", "token"},
             s.pc \in Unpublished => s.source = config \/ r.pc \in Unpublished,
             s.pc \notin Late \union {"complete"}
      PROVE  Knowing(c)'
  <2>1. RunFacts(s, config', bounds'.writes)
    BY <1>1, <1>2, SMT DEF RunFacts, Knowing, JournalFacts, Publishes, HasPend
  <2> QED BY <1>2, <2>1 DEF Knowing
<1>3. CASE Bootstrap!Plan(c)
  <2> DEFINE new == [r EXCEPT !.source = config]
             ending == Bootstrap!Ending(new)
             changed == [new EXCEPT !.pc = "bind", !.configOnly = TRUE]
             decided == [new EXCEPT !.pc = "begin"]
  <2>1. /\ ending.mine = r.mine /\ ending.pend = r.pend /\ ending.source = config
        /\ ending.pc = "release"
        /\ changed.mine = r.mine /\ changed.pend = r.pend /\ changed.source = config
        /\ changed.pc = "bind"
        /\ decided.mine = r.mine /\ decided.pend = r.pend /\ decided.source = config
        /\ decided.pc = "begin"
    BY <1>1, SMT DEF IsRun, RunFields, Bootstrap!Idle, Bootstrap!Ending
  <2>2. Bootstrap!Step(c, ending) \/ Bootstrap!Step(c, changed) \/ Bootstrap!Step(c, decided)
    BY <1>3 DEF Bootstrap!Plan
  <2> HIDE DEF ending, changed, decided
  <2>3. runs'[c] = ending \/ runs'[c] = changed \/ runs'[c] = decided
    BY <1>1, <2>2, StepMoves
  <2>4. \A pc \in {"release", "bind", "begin"} : pc \notin Late \union {"complete"}
    BY SMT DEF Late, Clearing
  <2> QED BY <1>2, <2>1, <2>3, <2>4
<1>4. CASE Bootstrap!Begin(c)
  <2> DEFINE ending == Bootstrap!Ending(r)
             resumed == [r EXCEPT !.pend = pending, !.resumed = TRUE, !.pc = "check",
                                  !.published = r.source = "target"]
             fresh == [r EXCEPT !.pc = "discover"]
  <2>1. /\ ending.mine = r.mine /\ ending.pend = r.pend /\ ending.source = r.source
        /\ ending.pc = "release"
        /\ resumed.mine = r.mine /\ resumed.pend = pending /\ resumed.source = r.source
        /\ resumed.pc = "check"
        /\ fresh.mine = r.mine /\ fresh.pend = r.pend /\ fresh.source = r.source
        /\ fresh.pc = "discover"
    BY <1>1, SMT DEF IsRun, RunFields, Bootstrap!Idle, Bootstrap!Ending
  <2>2. Bootstrap!Step(c, ending) \/ Bootstrap!Step(c, resumed) \/ Bootstrap!Step(c, fresh)
    BY <1>4 DEF Bootstrap!Begin
  <2> HIDE DEF ending, resumed, fresh
  <2>3. runs'[c] = ending \/ runs'[c] = resumed \/ runs'[c] = fresh
    BY <1>1, <2>2, StepMoves
  <2>4. r.pc \in Unpublished
    BY <1>4, SMT DEF Bootstrap!Begin, Bootstrap!At, Unpublished
  <2>5. \A pc \in {"release", "check", "discover"} : pc \notin Late \union {"complete"}
    BY SMT DEF Late, Clearing
  <2> QED BY <1>2, <2>1, <2>3, <2>4, <2>5
<1>5. CASE Bootstrap!WriteToken(c)
  <2> DEFINE mine == [owner |-> Bootstrap!Owner(c),
                      phase |-> IF r.seen = Bootstrap!NoPending THEN "acquired" ELSE "prepared",
                      binding |-> IF r.seen = Bootstrap!NoPending THEN Bootstrap!NoBinding ELSE Bootstrap!BindingOf(r.seen)]
             s == [r EXCEPT !.pc = "read", !.mine = mine]
  <2>1. s.mine = mine /\ s.pend = r.pend /\ s.pc = "read"
    BY <1>1, SMT DEF IsRun, RunFields, Bootstrap!Idle
  <2>2. IsLockRecord(mine)
    BY SMT DEF IsLockRecord
  <2>3. runs'[c] = s \/ Bootstrap!Step(c, Bootstrap!Idle(r.life))
    BY <1>5 DEF Bootstrap!WriteToken
  <2> HIDE DEF mine, s
  <2>4. RunFacts(s, config', bounds'.writes)
    BY <2>1, <2>2, SMT DEF Knowing, RunFacts, Publishes, Unpublished,
                               HasPend, Late, Clearing
  <2> QED BY <2>3, <2>4, IdleFacts, KnowingMoves DEF Knowing
<1> QED BY <1>3, <1>4, <1>5

LEMMA WritingSteps ==
  ASSUME RepairInv, NEW c \in Clients, Knowing(c), Publishes, JournalFacts,
         \/ Bootstrap!BindPreparedLock(c) \/ Bootstrap!WriteJournal(c) \/ Bootstrap!PublishTarget(c) \/ Bootstrap!CompleteLock(c)
         \/ Bootstrap!ClearPending(c) \/ Bootstrap!RemovePending(c) \/ Bootstrap!RestorePending(c)
  PROVE  Knowing(c)'
<1> DEFINE r == runs[c]
<1>1. /\ Shape /\ IsRun(r) /\ RunsShape /\ IsLockRecord(r.mine) /\ Journalled(r)
      /\ HasPend(r)
  BY DEF RepairInv, Shape, RunsShape, Knowing, RunFacts, RunInv
<1>2. ASSUME NEW s, Bootstrap!Step(c, s), Carries(r, s) PROVE Knowing(c)'
  <2>1. RunFacts(s, config', bounds'.writes)
    BY <1>2, CarriedFacts DEF Knowing
  <2> QED BY <1>1, <1>2, <2>1, KnowingMoves
<1>3. ASSUME NEW pc, Bootstrap!Goto(c, pc), pc \notin {"lock", "steal", "token"},
             pc \in Unpublished => r.pc \in Unpublished,
             pc \in Late \union {"complete"} => r.pend # Bootstrap!NoPending
      PROVE  Knowing(c)'
  BY <1>1, <1>2, <1>3, Carried DEF Bootstrap!Goto
<1>4. ASSUME Bootstrap!Finish(c) PROVE Knowing(c)'
  BY <1>1, <1>2, <1>4, Carried DEF Bootstrap!Finish
<1>5. ASSUME NEW s, Bootstrap!Step(c, s), IsLockRecord(s.mine), s.pend = r.pend, s.source = r.source,
             s.pc \notin {"lock", "steal", "token"},
             s.pc \in Unpublished => r.pc \in Unpublished, HasPend(s)
      PROVE  Knowing(c)'
  <2>1. RunFacts(s, config', bounds'.writes)
    BY <1>5, SMT DEF RunFacts, Knowing, Publishes
  <2> QED BY <1>1, <1>5, <2>1, KnowingMoves
<1>6. CASE Bootstrap!BindPreparedLock(c)
  <2> DEFINE binding == [op |-> r.op, source |-> r.source, pendingRequired |-> ~r.configOnly]
             l == r.mine
             mine == [l EXCEPT !.phase = "prepared", !.binding = binding]
             s == [r EXCEPT !.mine = mine,
                            !.pc = IF r.configOnly THEN "publish" ELSE "journal"]
  <2>1. /\ s.mine = mine /\ s.pend = r.pend /\ s.source = r.source
        /\ s.pc \in {"publish", "journal"}
    BY <1>1, SMT DEF IsRun, RunFields, Bootstrap!Idle
  <2>2. Bootstrap!Step(c, s) \/ Bootstrap!Finish(c)
    BY <1>6 DEF Bootstrap!BindPreparedLock
  <2>3. r.pc \in Unpublished /\ HasPend(s)
    BY <1>6, <2>1, SMT DEF Bootstrap!BindPreparedLock, Bootstrap!At, Unpublished, HasPend, Late,
       Clearing
  <2> HIDE DEF s, binding, l
  <2>6. IsLockRecord(l)
    BY <1>1 DEF l
  <2>4. mine = [owner |-> l.owner, phase |-> "prepared", binding |-> binding]
    BY <2>6, Rebound
  <2> HIDE DEF mine
  <2>5. IsLockRecord(mine)
    BY <2>4, SMT DEF IsLockRecord
  <2> QED BY <1>4, <1>5, <2>1, <2>2, <2>3, <2>5
<1>7. CASE Bootstrap!WriteJournal(c)
  <2> DEFINE pend == [at |-> "pending", op |-> r.mine.binding.op, source |-> r.source]
             s == [r EXCEPT !.pend = pend, !.pc = "check"]
  <2>1. /\ s.mine = r.mine /\ s.pend = pend /\ s.source = r.source /\ s.pc = "check"
        /\ pend.source = r.source
    BY <1>1, SMT DEF IsRun, RunFields, Bootstrap!Idle
  <2>2. Bootstrap!Step(c, s) \/ Bootstrap!Finish(c)
    BY <1>7 DEF Bootstrap!WriteJournal
  <2>3. r.pc \in Unpublished
    BY <1>7, SMT DEF Bootstrap!WriteJournal, Bootstrap!At, Unpublished
  <2> HIDE DEF s, pend
  <2>4. RunFacts(s, config', bounds'.writes)
    BY <2>1, <2>3, SMT DEF RunFacts, Knowing, Publishes, HasPend, Late, Clearing
  <2> QED BY <1>1, <1>4, <2>2, <2>4, KnowingMoves
<1>8. CASE Bootstrap!PublishTarget(c)
  <2> DEFINE done == [r EXCEPT !.published = TRUE]
             confirming(failed) == [done EXCEPT !.pc = "confirm", !.callbackFailed = failed]
             completing == [done EXCEPT !.pc = "complete"]
             ending == Bootstrap!Ending(done)
  <2>3. r.configOnly \/ r.pend # Bootstrap!NoPending
    <3>1. r.pc = "publish"
      BY <1>8 DEF Bootstrap!PublishTarget, Bootstrap!At
    <3> QED BY <1>1, <3>1 DEF Journalled
  <2>1. /\ ~r.configOnly => \A failed : Carries(r, confirming(failed))
        /\ r.configOnly => Carries(r, completing)
        /\ Carries(r, ending)
    BY <1>1, <2>3, SMT DEF Carries, Bootstrap!Ending, IsRun, RunFields, Bootstrap!Idle,
       Unpublished, HasPend, Late,
                           Clearing
  <2>2. \/ Bootstrap!Finish(c)
        \/ Bootstrap!Step(c, ending)
        \/ ~r.configOnly /\ \E failed : Bootstrap!Step(c, confirming(failed))
        \/ r.configOnly /\ Bootstrap!Step(c, completing)
    BY <1>8, Zenon DEF Bootstrap!PublishTarget, Bootstrap!Finish
  <2> HIDE DEF ending, confirming, completing
  <2> QED BY <1>2, <1>4, <2>1, <2>2
<1>9. CASE Bootstrap!CompleteLock(c)
  <2> DEFINE l == r.mine
             mine == [l EXCEPT !.phase = "completed"]
             ended == [r EXCEPT !.mine = mine]
             s == [ended EXCEPT !.pc = "verifyAgain"]
             ending == Bootstrap!Ending(ended)
  <2>1. /\ s.mine = mine /\ s.pend = r.pend /\ s.source = r.source /\ s.pc = "verifyAgain"
        /\ ending.mine = mine /\ ending.pend = r.pend /\ ending.source = r.source
        /\ ending.pc = "release"
    BY <1>1, SMT DEF IsRun, RunFields, Bootstrap!Idle, Bootstrap!Ending
  <2>2. (~r.configOnly /\ Bootstrap!Step(c, s)) \/ Bootstrap!Step(c, ending) \/ Bootstrap!Finish(c)
    BY <1>9, Zenon DEF Bootstrap!CompleteLock
  <2> HIDE DEF s, ending, ended, l
  <2>3. mine = [owner |-> l.owner, phase |-> "completed", binding |-> l.binding]
    BY <1>1, Rephased DEF l
  <2> HIDE DEF mine
  <2>4. IsLockRecord(mine)
    BY <2>3, SMT DEF IsLockRecord
  <2>6. r.configOnly \/ r.pend # Bootstrap!NoPending
    BY <1>1, <1>9, SMT DEF Bootstrap!CompleteLock, Bootstrap!At, HasPend
  <2>5. /\ s.pc \notin Unpublished /\ ending.pc \notin Unpublished
        /\ ~r.configOnly => HasPend(s)
        /\ HasPend(ending)
    BY <2>1, <2>6, SMT DEF Unpublished, HasPend, Late, Clearing
  <2> QED BY <1>4, <1>5, <2>1, <2>2, <2>4, <2>5
<1>10. CASE Bootstrap!ClearPending(c) \/ Bootstrap!RemovePending(c) \/ Bootstrap!RestorePending(c)
  <2>1. \/ Bootstrap!Finish(c)
        \/ Bootstrap!Step(c, Bootstrap!Ending(r))
        \/ Bootstrap!Step(c, Bootstrap!Idle(r.life))
        \/ Bootstrap!Goto(c, "remove")
        \/ Bootstrap!Goto(c, "restorePending")
    BY <1>10 DEF Bootstrap!ClearPending, Bootstrap!RemovePending, Bootstrap!RestorePending
  <2>2. "remove" \notin Unpublished /\ "restorePending" \notin Unpublished
    BY SMT DEF Unpublished
  <2>6. r.pend # Bootstrap!NoPending
    BY <1>1, <1>10, SMT DEF Bootstrap!ClearPending, Bootstrap!RemovePending,
       Bootstrap!RestorePending, Bootstrap!At, HasPend, Late,
                            Clearing
  <2>3. CASE Bootstrap!Step(c, Bootstrap!Idle(r.life))
    BY <1>1, <2>3, IdleFacts, KnowingMoves
  <2>4. CASE Bootstrap!Goto(c, "remove") \/ Bootstrap!Goto(c, "restorePending")
    BY <1>3, <2>2, <2>4, <2>6
  <2>5. CASE Bootstrap!Finish(c) \/ Bootstrap!Step(c, Bootstrap!Ending(r))
    BY <1>4, <2>5 DEF Bootstrap!Finish
  <2> QED BY <2>1, <2>3, <2>4, <2>5
<1> QED BY <1>6, <1>7, <1>8, <1>9, <1>10

LEMMA FactsKeep ==
  ASSUME RepairInv, BoundsShape, JournalFacts, \A k \in Clients : Knowing(k),
         NEW c \in Clients, Bootstrap!BootstrapStep(c)
  PROVE  Publishes /\ JournalFacts' /\ \A k \in Clients : Knowing(k)'
<1>1. Shape /\ RunsShape /\ IsRun(runs[c]) /\ IsJournal(pending)
  BY DEF RepairInv, Shape, RunsShape
<1>2. Publishes
  <2>1. FilesStep
    BY BootstrapKeeps
  <2> QED BY <2>1, StepBounds DEF FilesStep, Publishes
<1>3. Knowing(c)'
  BY <1>1, <1>2, CarryingSteps, LockingSteps, DecidingSteps, WritingSteps
  DEF Bootstrap!BootstrapStep, LookingSteps
<1>4. ASSUME NEW k \in Clients \ {c}
      PROVE  Knowing(k)'
  <2>1. View(runs[k], runs'[k]) /\ runs'[k].pc = runs[k].pc
    BY <1>1, Bystanders
  <2> QED BY <1>2, <2>1, SMT DEF View, Knowing, RunFacts, Publishes, HasPend
<1>5. JournalFacts'
  <2> DEFINE r == runs[c]
  <2>1. \/ pending' = pending
        \/ pending' = Bootstrap!NoPending
        \/ pending' = [pending EXCEPT !.at = "clearing"] /\ pending # Bootstrap!NoPending
        \/ pending' = [r.pend EXCEPT !.at = "pending"] /\ r.pend # Bootstrap!NoPending
        \/ /\ pending' = [at |-> "pending", op |-> r.mine.binding.op, source |-> r.source]
           /\ r.pc = "journal"
    <3>1. CASE Bootstrap!WriteJournal(c)
      BY <3>1, Zenon DEF Bootstrap!WriteJournal, Bootstrap!At
    <3>2. CASE Bootstrap!ClearPending(c) \/ Bootstrap!RemovePending(c)
      BY <3>2 DEF Bootstrap!ClearPending, Bootstrap!RemovePending
    <3>3. CASE Bootstrap!RestorePending(c)
      <4>1. r.pend # Bootstrap!NoPending
        BY <3>3, SMT DEF Bootstrap!RestorePending, Bootstrap!At, Knowing, RunFacts, HasPend, Late,
           Clearing
      <4> QED BY <3>3, <4>1 DEF Bootstrap!RestorePending
    <3>4. CASE ~(Bootstrap!WriteJournal(c) \/ Bootstrap!ClearPending(c) \/ Bootstrap!RemovePending(c) \/ Bootstrap!RestorePending(c))
      BY <3>4, Zenon DEF Bootstrap!BootstrapStep, Bootstrap!Inspect, Bootstrap!AcquireConfigLock,
         Bootstrap!StealLock, Bootstrap!RestoreLock,
         Bootstrap!WriteToken, Bootstrap!Plan, Bootstrap!Begin, Bootstrap!Discover,
         Bootstrap!BackUpRollouts, Bootstrap!PrepareDatabase, Bootstrap!BindPreparedLock,
         Bootstrap!ResumeRun, Bootstrap!CheckRun, Bootstrap!PublishTarget, Bootstrap!Confirm,
         Bootstrap!RepairRollouts, Bootstrap!RepairDatabases,
         Bootstrap!Verify, Bootstrap!CompleteLock, Bootstrap!ReleaseLock, Bootstrap!Die,
         Bootstrap!Files
    <3> QED BY <3>1, <3>2, <3>3, <3>4
  <2>2. CASE pending' = [pending EXCEPT !.at = "clearing"] /\ pending # Bootstrap!NoPending
    BY <1>1, <1>2, <2>2, SMT DEF JournalFacts, Publishes, IsJournal, Bootstrap!NoPending
  <2>3. CASE pending' = [r.pend EXCEPT !.at = "pending"] /\ r.pend # Bootstrap!NoPending
    BY <1>1, <1>2, <2>3, SMT DEF JournalFacts, Publishes, IsJournal, Bootstrap!NoPending, IsRun,
                                 Knowing, RunFacts
  <2>4. CASE /\ pending' = [at |-> "pending", op |-> r.mine.binding.op, source |-> r.source]
             /\ r.pc = "journal"
    BY <1>2, <2>4, SMT DEF JournalFacts, Publishes, Knowing, RunFacts, Unpublished
  <2>5. CASE pending' = pending \/ pending' = Bootstrap!NoPending
    BY <1>2, <2>5, SMT DEF JournalFacts, Publishes
  <2> QED BY <2>1, <2>2, <2>3, <2>4, <2>5
<1> QED BY <1>2, <1>3, <1>4, <1>5

------------------------
(* The lock from one step to the next. *)

\* Only the run that holds the lock, or that takes it, makes it another one.
LEMMA HolderStep ==
  ASSUME LeftLockInv, NEW c \in Clients, Bootstrap!BootstrapStep(c), Bootstrap!Holding(runs[c])
  PROVE  LockInv'
<1> SUFFICES ASSUME Undisturbed'
             PROVE  /\ \A k \in Clients : Bootstrap!Holding(runs'[k]) => Keeps(k)'
                    /\ lock'.phase # "unreadable"
                         => Bootstrap!StaleLockCanBeRecovered(lock', pending', config')
  BY DEF LockInv, Bootstrap!Holding
<1> DEFINE r == runs[c]
<1>1. /\ RepairInv /\ Shape /\ RunsShape /\ IsRun(r) /\ config \in Bootstrap!Configs
      /\ BoundsShape /\ JournalFacts /\ LockInv /\ Knowing(c)
  BY DEF LeftLockInv, RepairInv, Renames, Shape, RunsShape
<1>2. bounds'.writes = bounds.writes
  BY <1>1, StepBounds
<1>3. r.pc \notin {"idle", "lock", "steal", "restore"}
  BY DEF Bootstrap!Holding
<1>4. stale' = stale
  BY <1>3, Zenon DEF Bootstrap!BootstrapStep, Bootstrap!Inspect, Bootstrap!AcquireConfigLock,
     Bootstrap!StealLock, Bootstrap!RestoreLock,
     Bootstrap!WriteToken, Bootstrap!Plan, Bootstrap!Begin, Bootstrap!Discover,
     Bootstrap!BackUpRollouts, Bootstrap!PrepareDatabase, Bootstrap!BindPreparedLock,
     Bootstrap!WriteJournal, Bootstrap!ResumeRun, Bootstrap!CheckRun, Bootstrap!PublishTarget,
     Bootstrap!Confirm, Bootstrap!RepairRollouts,
     Bootstrap!RepairDatabases, Bootstrap!Verify, Bootstrap!CompleteLock, Bootstrap!ClearPending,
     Bootstrap!RemovePending, Bootstrap!RestorePending,
     Bootstrap!ReleaseLock, Bootstrap!Die, Bootstrap!At, Bootstrap!Others
<1>5. lock.owner # Bootstrap!Nobody
  <2>1. \/ lock' = lock
        \/ lock'.owner = Bootstrap!Nobody
        \/ lock = Bootstrap!Unreadable(Bootstrap!Owner(c)) /\ lock'.owner = Bootstrap!Owner(c)
        \/ lock = r.mine /\ lock'.owner = r.mine.owner
    <3>1. CASE Bootstrap!WriteToken(c)
      BY <3>1, SMT DEF Bootstrap!WriteToken, Bootstrap!NoLock
    <3>2. CASE Bootstrap!BindPreparedLock(c) \/ Bootstrap!CompleteLock(c)
      <4> DEFINE l == r.mine
                 binding == [op |-> r.op, source |-> r.source,
                             pendingRequired |-> ~r.configOnly]
                 bound == [l EXCEPT !.phase = "prepared", !.binding = binding]
                 completed == [l EXCEPT !.phase = "completed"]
      <4>1. lock' = lock \/ (lock = l /\ lock' \in {bound, completed})
        BY <3>2, Zenon DEF Bootstrap!BindPreparedLock, Bootstrap!CompleteLock, Bootstrap!Bound
      <4> HIDE DEF l, binding
      <4>2. IsLockRecord(l)
        BY <1>1 DEF l, Knowing, RunFacts
      <4>3. bound = [owner |-> l.owner, phase |-> "prepared", binding |-> binding]
        BY <4>2, Rebound
      <4>4. completed = [owner |-> l.owner, phase |-> "completed", binding |-> l.binding]
        BY <4>2, Rephased
      <4> HIDE DEF bound, completed
      <4>5. bound.owner = l.owner /\ completed.owner = l.owner
        BY <4>3, <4>4
      <4> QED BY <4>1, <4>5 DEF l
    <3>3. CASE Bootstrap!ReleaseLock(c)
      BY <3>3, SMT DEF Bootstrap!ReleaseLock, Bootstrap!NoLock, Bootstrap!Blocked,
         Bootstrap!Unreadable
    <3>4. CASE ~(Bootstrap!WriteToken(c) \/ Bootstrap!BindPreparedLock(c) \/ Bootstrap!CompleteLock(c) \/ Bootstrap!ReleaseLock(c))
      BY <1>3, <3>4, Zenon DEF Bootstrap!BootstrapStep, Bootstrap!Inspect,
         Bootstrap!AcquireConfigLock, Bootstrap!StealLock,
         Bootstrap!RestoreLock, Bootstrap!Plan, Bootstrap!Begin, Bootstrap!Discover,
         Bootstrap!BackUpRollouts, Bootstrap!PrepareDatabase,
         Bootstrap!WriteJournal, Bootstrap!ResumeRun, Bootstrap!CheckRun, Bootstrap!PublishTarget,
         Bootstrap!Confirm, Bootstrap!RepairRollouts,
         Bootstrap!RepairDatabases, Bootstrap!Verify, Bootstrap!ClearPending,
         Bootstrap!RemovePending, Bootstrap!RestorePending, Bootstrap!Die, Bootstrap!At
    <3> QED BY <3>1, <3>2, <3>3, <3>4
  <2>2. Bootstrap!Unreadable(Bootstrap!Owner(c)).owner = Bootstrap!Owner(c)
    BY DEF Bootstrap!Unreadable
  <2> QED BY <2>1, <2>2 DEF Undisturbed
<1>6. Undisturbed
  BY <1>2, <1>4, <1>5 DEF Undisturbed
<1>7. Going(c)
  BY <1>1, <1>5, <1>6 DEF LockInv, Going
<1>8. Leaves(c)
  <2>1. ~r.resumed \/ r.pc # "token"
    BY <1>1 DEF Knowing, RunFacts
  <2>2. pending # Bootstrap!NoPending => config \in {pending.source, "target"}
    BY <1>1, <1>6 DEF JournalFacts, Undisturbed
  <2>3. CASE Bootstrap!WriteToken(c)
    BY <1>7, <2>1, <2>2, <2>3, TokenLeaves DEF Bootstrap!WriteToken, Bootstrap!At
  <2>4. ~(Bootstrap!Inspect(c) \/ Bootstrap!AcquireConfigLock(c) \/ Bootstrap!StealLock(c) \/ Bootstrap!RestoreLock(c))
    BY <1>3, SMT DEF Bootstrap!Inspect, Bootstrap!AcquireConfigLock, Bootstrap!StealLock,
       Bootstrap!RestoreLock, Bootstrap!At
  <2> QED BY <1>1, <1>7, <2>3, <2>4, LookingLeaves, DecidingLeaves, BindingLeaves,
             JournalLeaves, PublishLeaves, CompleteLeaves, ClearingLeaves, ReleaseLeaves
      DEF Bootstrap!BootstrapStep, LookingSteps
<1>9. ASSUME NEW k \in Clients \ {c} PROVE ~Bootstrap!Holding(runs'[k])
  <2>1. Bootstrap!Holding(runs[k]) => Keeps(k)
    BY <1>1, <1>6 DEF LockInv
  <2>2. ~Bootstrap!Holding(runs[k])
    BY <1>7, <2>1, LockSplit DEF Going
  <2>3. runs'[k].pc = runs[k].pc
    BY <1>1, Bystanders
  <2> QED BY <2>2, <2>3 DEF Bootstrap!Holding
<1> QED BY <1>8, <1>9 DEF Leaves, Undisturbed

\* Whoever has no lock leaves journal and configuration alone.  A lock that is put back is
\* no longer undisturbed; one that is taken is so only when nobody else is at work.
LEMMA WaiterStep ==
  ASSUME LeftLockInv, NEW c \in Clients, Bootstrap!BootstrapStep(c), ~Bootstrap!Holding(runs[c])
  PROVE  LockInv'
<1> SUFFICES ASSUME Undisturbed'
             PROVE  /\ \A k \in Clients : Bootstrap!Holding(runs'[k]) => Keeps(k)'
                    /\ lock'.phase # "unreadable"
                         => Bootstrap!StaleLockCanBeRecovered(lock', pending', config')
  BY DEF LockInv, Bootstrap!Holding
<1> DEFINE r == runs[c]
<1>1. /\ Shape /\ RunsShape /\ IsRun(r) /\ BoundsShape /\ LockInv
  BY DEF LeftLockInv, RepairInv, Shape, RunsShape
<1>2. bounds'.writes = bounds.writes
  BY <1>1, StepBounds
<1>3. r.pc \in {"idle", "lock", "steal", "restore"}
  BY DEF Bootstrap!Holding
<1>4. Bootstrap!Inspect(c) \/ Bootstrap!AcquireConfigLock(c) \/ Bootstrap!StealLock(c) \/ Bootstrap!RestoreLock(c) \/ Bootstrap!Die(c)
  <2>1. ~(Bootstrap!WriteToken(c) \/ Bootstrap!Plan(c) \/ Bootstrap!Begin(c) \/ Bootstrap!Discover(c) \/ Bootstrap!BackUpRollouts(c)
          \/ Bootstrap!PrepareDatabase(c) \/ Bootstrap!BindPreparedLock(c) \/ Bootstrap!WriteJournal(c) \/ Bootstrap!ResumeRun(c))
    BY <1>3, SMT DEF Bootstrap!WriteToken, Bootstrap!Plan, Bootstrap!Begin, Bootstrap!Discover,
       Bootstrap!BackUpRollouts, Bootstrap!PrepareDatabase,
       Bootstrap!BindPreparedLock, Bootstrap!WriteJournal, Bootstrap!ResumeRun, Bootstrap!At
  <2>2. ~(Bootstrap!CheckRun(c) \/ Bootstrap!PublishTarget(c) \/ Bootstrap!Confirm(c) \/ Bootstrap!RepairRollouts(c)
          \/ Bootstrap!RepairDatabases(c) \/ Bootstrap!Verify(c) \/ Bootstrap!CompleteLock(c) \/ Bootstrap!ClearPending(c)
          \/ Bootstrap!RemovePending(c) \/ Bootstrap!RestorePending(c) \/ Bootstrap!ReleaseLock(c))
    BY <1>3, Zenon DEF Bootstrap!CheckRun, Bootstrap!PublishTarget, Bootstrap!Confirm,
       Bootstrap!RepairRollouts, Bootstrap!RepairDatabases,
       Bootstrap!Verify, Bootstrap!CompleteLock, Bootstrap!ClearPending, Bootstrap!RemovePending,
       Bootstrap!RestorePending, Bootstrap!ReleaseLock, Bootstrap!At
  <2> QED BY <2>1, <2>2 DEF Bootstrap!BootstrapStep
<1>5. UNCHANGED <<config, pending>>
  BY <1>4 DEF Bootstrap!Inspect, Bootstrap!AcquireConfigLock, Bootstrap!StealLock,
     Bootstrap!RestoreLock, Bootstrap!Die, Bootstrap!Files
<1>6. ASSUME NEW k \in Clients \ {c}
      PROVE  /\ Bootstrap!Holding(runs'[k]) <=> Bootstrap!Holding(runs[k])
             /\ lock' = lock /\ Keeps(k) => Keeps(k)'
  <2>1. View(runs[k], runs'[k]) /\ runs'[k].pc = runs[k].pc
    BY <1>1, Bystanders
  <2> QED BY <1>5, <2>1, SMT DEF View, Bootstrap!Holding, Keeps, Bootstrap!Owner, GoesBy
<1>7. ASSUME lock' = lock, ~stale, ~Bootstrap!Holding(runs'[c])
      PROVE  /\ \A k \in Clients : Bootstrap!Holding(runs'[k]) => Keeps(k)'
             /\ lock'.phase # "unreadable"
                  => Bootstrap!StaleLockCanBeRecovered(lock', pending', config')
  <2>1. Undisturbed
    BY <1>2, <1>7 DEF Undisturbed
  <2> QED BY <1>1, <1>5, <1>6, <1>7, <2>1, Zenon DEF LockInv
<1>8. ASSUME NEW s, Bootstrap!Step(c, s), s.pc \in {"idle", "lock", "steal", "restore"}
      PROVE  ~Bootstrap!Holding(runs'[c])
  BY <1>1, <1>8, StepMoves DEF Bootstrap!Holding
<1>9. CASE Bootstrap!Inspect(c) \/ Bootstrap!Die(c)
  <2>1. lock' = lock /\ ~stale
    BY <1>9 DEF Bootstrap!Inspect, Bootstrap!Die, Bootstrap!Others, Undisturbed
  <2>2. ~Bootstrap!Holding(runs'[c])
    <3>1. \A life : Bootstrap!Idle(life).pc = "idle"
      BY DEF Bootstrap!Idle
    <3> DEFINE s == [Bootstrap!Idle(r.life) EXCEPT !.pc = "lock", !.op = bounds.runs + 1,
                                                   !.seen = pending]
    <3>2. s.pc = "lock"
      BY SMT DEF Bootstrap!Idle
    <3>3. Bootstrap!Step(c, s) \/ \E life : Bootstrap!Step(c, Bootstrap!Idle(life))
      BY <1>9 DEF Bootstrap!Inspect, Bootstrap!Die
    <3> HIDE DEF s
    <3> QED BY <1>8, <3>1, <3>2, <3>3
  <2> QED BY <1>7, <2>1, <2>2
<1>10. CASE Bootstrap!StealLock(c)
  <2>1. ~stale /\ (lock' = lock \/ lock'.owner = Bootstrap!Nobody)
    BY <1>10, SMT DEF Bootstrap!StealLock, Bootstrap!Others, Bootstrap!NoLock, Bootstrap!Blocked,
       Bootstrap!Unreadable, Undisturbed
  <2>2. ~Bootstrap!Holding(runs'[c])
    <3> DEFINE again == [r EXCEPT !.pc = "lock"]
               restoring == [r EXCEPT !.pc = "restore", !.claim = lock]
    <3>1. again.pc = "lock" /\ restoring.pc = "restore" /\ Bootstrap!Idle(r.life).pc = "idle"
      BY <1>1, SMT DEF IsRun, RunFields, Bootstrap!Idle
    <3>2. Bootstrap!Step(c, again) \/ Bootstrap!Step(c, restoring) \/ Bootstrap!Step(c, Bootstrap!Idle(r.life))
      BY <1>10 DEF Bootstrap!StealLock, Bootstrap!Goto
    <3> HIDE DEF again, restoring
    <3> QED BY <1>8, <3>1, <3>2
  <2> QED BY <1>7, <2>1, <2>2 DEF Undisturbed
<1>11. CASE Bootstrap!RestoreLock(c)
  <2>1. lock' = lock /\ ~stale
    BY <1>11 DEF Bootstrap!RestoreLock, Undisturbed
  <2>2. Bootstrap!Idle(r.life).pc = "idle"
    BY DEF Bootstrap!Idle
  <2> QED BY <1>7, <1>8, <1>11, <2>1, <2>2 DEF Bootstrap!RestoreLock
<1>12. CASE Bootstrap!AcquireConfigLock(c) /\ lock # Bootstrap!NoLock
  <2>1. lock' = lock /\ ~stale
    BY <1>12 DEF Bootstrap!AcquireConfigLock, Undisturbed
  <2>2. ~Bootstrap!Holding(runs'[c])
    <3> DEFINE stealing == [r EXCEPT !.pc = "steal", !.claim = lock]
    <3>1. stealing.pc = "steal" /\ Bootstrap!Idle(r.life).pc = "idle"
      BY <1>1, SMT DEF IsRun, RunFields, Bootstrap!Idle
    <3>2. Bootstrap!Step(c, stealing) \/ Bootstrap!Step(c, Bootstrap!Idle(r.life))
      BY <1>12 DEF Bootstrap!AcquireConfigLock
    <3> HIDE DEF stealing
    <3> QED BY <1>8, <3>1, <3>2
  <2> QED BY <1>7, <2>1, <2>2
<1>13. CASE Bootstrap!AcquireConfigLock(c) /\ lock = Bootstrap!NoLock
  <2> DEFINE s == [r EXCEPT !.pc = "token"]
  <2>1. /\ lock' = Bootstrap!Unreadable(Bootstrap!Owner(c)) /\ Bootstrap!Step(c, s)
        /\ stale' = (r.seen # pending \/ \E k \in Clients \ {c} : Bootstrap!Holding(runs[k]))
    BY <1>13 DEF Bootstrap!AcquireConfigLock, Bootstrap!Goto
  <2>2. s.pc = "token" /\ s.seen = r.seen /\ s.life = r.life
    BY <1>1, SMT DEF IsRun, RunFields, Bootstrap!Idle
  <2> HIDE DEF s
  <2>3. runs'[c] = s
    BY <1>1, <2>1, StepMoves
  <2>4. r.seen = pending /\ \A k \in Clients \ {c} : ~Bootstrap!Holding(runs[k])
    BY <2>1 DEF Undisturbed
  <2>5. lock'.owner = Bootstrap!Owner(c) /\ lock'.phase = "unreadable"
    BY <2>1, SMT DEF Bootstrap!Unreadable
  <2>6. Keeps(c)'
    BY <1>5, <2>1, <2>2, <2>3, <2>4, <2>5, SMT DEF Keeps, Bootstrap!Owner
  <2> QED BY <1>6, <2>4, <2>5, <2>6
<1> QED BY <1>4, <1>9, <1>10, <1>11, <1>12, <1>13

LEMMA LockUnchanged ==
  ASSUME UNCHANGED <<config, pending, lock, runs, stale>>
  PROVE  /\ LockInv /\ bounds'.writes = bounds.writes => LockInv'
         /\ bounds'.writes # 0 => LockInv'
<1>1. ASSUME Undisturbed, LockInv, bounds'.writes = bounds.writes
      PROVE  LockInv'
  BY <1>1, SMT DEF LockInv, Keeps, Bootstrap!Owner, GoesBy, Undisturbed, Bootstrap!Holding
<1>2. ASSUME ~Undisturbed' PROVE LockInv'
  BY <1>2 DEF LockInv
<1>3. bounds'.writes = bounds.writes /\ ~Undisturbed => ~Undisturbed'
  BY DEF Undisturbed
<1>4. bounds'.writes # 0 => ~Undisturbed'
  BY DEF Undisturbed
<1> QED BY <1>1, <1>2, <1>3, <1>4

LEMMA LeftLockInit == Bootstrap!Init => LeftLockInv
<1> SUFFICES ASSUME Bootstrap!Init PROVE LeftLockInv
  OBVIOUS
<1>1. BoundsShape /\ JournalFacts /\ LockInv
  <2>1. BoundsShape
    BY SMT DEF Bootstrap!Init, BoundsShape
  <2>2. pending = Bootstrap!NoPending /\ lock.owner = Bootstrap!Nobody
    BY DEF Bootstrap!Init, Bootstrap!NoLock
  <2> QED BY <2>1, <2>2 DEF JournalFacts, LockInv, Undisturbed
<1>2. ASSUME NEW c \in Clients PROVE Knowing(c)
  <2>1. runs[c] = Bootstrap!Idle(0)
    BY SMT DEF Bootstrap!Init
  <2>2. IsLockRecord(Bootstrap!NoLock)
    BY SMT DEF IsLockRecord, Bootstrap!NoLock
  <2>3. /\ runs[c].mine = Bootstrap!NoLock /\ runs[c].pc = "idle" /\ ~runs[c].resumed
        /\ runs[c].pend = Bootstrap!NoPending
    BY <2>1 DEF Bootstrap!Idle
  <2> QED BY <2>2, <2>3, SMT DEF Knowing, RunFacts, HasPend, Late, Clearing, Unpublished
<1> QED BY <1>1, <1>2, RepairInit DEF LeftLockInv

LEMMA LeftLockStep == LeftLockInv /\ [Bootstrap!Next]_(Bootstrap!bootstrapVars) => LeftLockInv'
<1> SUFFICES ASSUME LeftLockInv, [Bootstrap!Next]_(Bootstrap!bootstrapVars)
             PROVE  LeftLockInv'
  OBVIOUS
<1>1. RepairInv'
  BY RepairStep DEF LeftLockInv
<1>2. /\ RepairInv /\ BoundsShape /\ JournalFacts /\ LockInv
      /\ \A c \in Clients : Knowing(c)
  BY DEF LeftLockInv
<1>3. ASSUME NEW c \in Clients, Bootstrap!BootstrapStep(c) PROVE LeftLockInv'
  <2>1. BoundsShape'
    BY <1>2, <1>3, StepBounds
  <2>2. JournalFacts' /\ \A k \in Clients : Knowing(k)'
    BY <1>2, <1>3, FactsKeep
  <2>3. LockInv'
    BY <1>3, HolderStep, WaiterStep
  <2> QED BY <1>1, <2>1, <2>2, <2>3 DEF LeftLockInv
\* The steps of everybody else count as writes, or change none of this.
<1>4. ASSUME BoundsShape', UNCHANGED <<pending, lock, runs, stale>>,
             \/ UNCHANGED config /\ bounds'.writes = bounds.writes
             \/ bounds'.writes # 0
      PROVE  LeftLockInv'
  <2>1. JournalFacts'
    BY <1>2, <1>4 DEF JournalFacts
  <2>2. ASSUME NEW c \in Clients PROVE Knowing(c)'
    BY <1>2, <1>4, SMT DEF Knowing, RunFacts, HasPend
  <2>3. LockInv'
    <3>1. CASE UNCHANGED config /\ bounds'.writes = bounds.writes
      BY <1>2, <1>4, <3>1, LockUnchanged
    <3>2. CASE bounds'.writes # 0
      BY <3>2 DEF LockInv, Undisturbed
    <3> QED BY <1>4, <3>1, <3>2
  <2> QED BY <1>1, <1>4, <2>1, <2>2, <2>3 DEF LeftLockInv
<1>5. ASSUME NEW new \in {"source", "other"}, Bootstrap!EditConfig(new) PROVE LeftLockInv'
  BY <1>2, <1>4, <1>5, UseWrite DEF Bootstrap!EditConfig
<1>6. ASSUME NEW i \in Bootstrap!Items, Bootstrap!Append(i) \/ Bootstrap!StartSession(i) PROVE LeftLockInv'
  BY <1>2, <1>4, <1>6, UseWrite DEF Bootstrap!Append, Bootstrap!StartSession, Bootstrap!Others
<1>7. CASE Bootstrap!BeginStatus
  BY <1>2, <1>4, <1>7, UseOne DEF Bootstrap!BeginStatus, Bootstrap!Files
<1>8. CASE Bootstrap!InspectStatus \/ UNCHANGED Bootstrap!bootstrapVars
  <2>1. UNCHANGED <<config, pending, lock, runs, stale, bounds>>
    BY <1>8 DEF Bootstrap!InspectStatus, Bootstrap!Files, Bootstrap!bootstrapVars
  <2> QED BY <1>2, <1>4, <2>1 DEF BoundsShape
<1> QED BY <1>3, <1>5, <1>6, <1>7, <1>8 DEF Bootstrap!Next

LEMMA LeftLockFollows == LeftLockInv => Bootstrap!LeftLockRecoverable
<1> SUFFICES ASSUME LeftLockInv, lock.phase \notin {"absent", "unreadable"}, Bootstrap!Dead(lock.owner),
                    ~stale, bounds.writes = 0
             PROVE  Bootstrap!StaleLockCanBeRecovered(lock, pending, config)
  BY DEF Bootstrap!LeftLockRecoverable
<1>1. Undisturbed
  BY DEF Undisturbed, Bootstrap!Dead
<1> QED BY <1>1 DEF LeftLockInv, LockInv

\* codex-config.mjs: however many bootstraps run, die and fault, the lock a dead one leaves
\* can be taken away by the next, unless the lock was disturbed or the user wrote.
LEMMA LeftLocksCanBeTaken == Bootstrap!Spec => []Bootstrap!LeftLockRecoverable
<1>1. Bootstrap!Spec => []LeftLockInv
  BY LeftLockInit, LeftLockStep, PTL DEF Bootstrap!Spec
<1> QED BY <1>1, LeftLockFollows, PTL

------------------------
(* The theorems *)

\* A bootstrap that is called ready has the configuration in place and the whole history
\* repaired, and no item is rewritten whose original is not in a backup.
THEOREM BootstrapsAreSafe == Spec => RepairIsSafe
<1>1. Bootstrap!Spec => /\ []Bootstrap!ReadyIsRepaired
                        /\ [][Bootstrap!ChangesBackedUp]_(Bootstrap!bootstrapVars)
  BY RepairsAreSafe DEF Bootstrap!RepairIsSafe
<1>2. [Bootstrap!ChangesBackedUp]_(Bootstrap!bootstrapVars) => [Bootstrap!ChangesBackedUp]_vars
  BY DEF Bootstrap!bootstrapVars, vars, bootstrapVars, Bootstrap!ChangesBackedUp
<1>3. [Next]_vars => ((part = "bootstrap")' <=> (part = "bootstrap"))
  BY PartStays
<1>4. ASSUME part = "bootstrap" => [Bootstrap!ChangesBackedUp]_vars
      PROVE  [part = "bootstrap" => Bootstrap!ChangesBackedUp]_vars
  BY <1>4
<1> QED
  BY <1>1, <1>2, <1>3, <1>4, BootstrapPart, PTL DEF Spec, RepairIsSafe

\* acquireConfigLock of codex-config.mjs: the lock that a dead bootstrap leaves agrees with
\* journal and configuration, so that the next bootstrap takes it away.
THEOREM DeadLocksCanBeTaken == Spec => []LeftLockRecoverable
<1>1. Bootstrap!Spec => []Bootstrap!LeftLockRecoverable
  BY LeftLocksCanBeTaken
<1>2. [Next]_vars => ((part = "bootstrap")' <=> (part = "bootstrap"))
  BY PartStays
<1> QED
  BY <1>1, <1>2, BootstrapPart, PTL DEF Spec, LeftLockRecoverable

LEMMA LegacyPart == Spec /\ part = "legacy" => Legacy!Spec
<1>1. Init /\ part = "legacy" => Legacy!Init
  BY DEF Init
<1>2. [Next]_vars /\ part = "legacy" => [Legacy!Next]_(Legacy!migrationVars)
  BY DEF Next, vars, legacyVars, Legacy!migrationVars
<1>3. [Next]_vars => ((part = "legacy")' <=> (part = "legacy"))
  BY PartStays
<1> QED
  BY <1>1, <1>2, <1>3, PTL DEF Spec, Legacy!Spec

\* resumeInvalidRegistryQuarantine of migration.mjs: whatever dead starts have left of putting
\* an invalid registry aside, the next start resumes it.
THEOREM InterruptedQuarantinesResume == Spec => []QuarantineResumes
<1>1. Legacy!Spec => []Legacy!QuarantineResumes
  BY Legacy!QuarantinesResume
<1>2. [Next]_vars => ((part = "legacy")' <=> (part = "legacy"))
  BY PartStays
<1> QED
  BY <1>1, <1>2, LegacyPart, PTL DEF Spec, QuarantineResumes

\* migrateLegacyConfiguration: the import is all or nothing where no lock stops the next start.  It
\* is not for a file that was replaced by a start that does not know it (migration.mjs:1001), the
\* "forgotten" one: the rollback leaves it scrubbed.
THEOREM ImportsAreAllOrNothing == Spec => []UnlockedIsWhole
<1>1. Legacy!Spec => []Legacy!UnlockedIsWhole
  BY Legacy!ImportsAreWhole
<1>2. [Next]_vars => ((part = "legacy")' <=> (part = "legacy"))
  BY PartStays
<1> QED
  BY <1>1, <1>2, LegacyPart, PTL DEF Spec, UnlockedIsWhole
=============================================================================
