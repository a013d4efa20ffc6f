------------------------- MODULE SupervisorLifecycle -------------------------
(***************************************************************************)
(* Supervisor processes and the commands that start, stop and replace them *)
(* (supervisor.mjs, supervisor-client.mjs, crp.mjs: start, shutdown and    *)
(* update).                                                                *)
(*                                                                         *)
(* A Supervisor takes the management port, then writes supervisor.json     *)
(* over whatever is there, and removes its own file when it closes.  A     *)
(* command finds it through the file and a status request that must answer *)
(* with the same identity, ends it by a request bound to that identity,    *)
(* and clears up after one that died.  Whoever removes the file first      *)
(* renames it to supervisor.json.stale, looks whose it is, and puts back   *)
(* what is not the one it meant, without replacing a newer one.            *)
(*                                                                         *)
(* A file is the Supervisor it names (process number and start time); the  *)
(* system calls of one process interleave with those of the others.        *)
(***************************************************************************)
EXTENDS Naturals

CONSTANTS
  Clients,          \* crp processes of the user
  MaxSupervisors,   \* bound: Supervisor processes
  MaxCommands,      \* bound: commands
  MaxFaults,        \* bound: system calls, requests and starts that fail
  MaxCrashes        \* bound: Supervisors that die

VARIABLES
  supervisors,      \* the Supervisor processes, in the order of their start
  state,            \* supervisor.json: the Supervisor it names
  claim,            \* supervisor.json.stale
  removals,         \* removals of the state file, by Supervisors and commands
  package,          \* the version of CRP that is installed
  commands,         \* what each crp process is doing
  crossed,          \* two removals ran at once, or one was cut off
  mixed,            \* another Supervisor than the one an update knows ran while it installed a version
  spent             \* what of the bounds is used up

lifecycleVars == <<supervisors, state, claim, removals, package, commands, crossed, mixed, spent>>

Supervisors == 1..MaxSupervisors
None == 0

\* Processes are told apart.
ClientsApart == MaxSupervisors \in Nat /\ Clients \cap Supervisors = {}

Unborn == [phase |-> "unborn", version |-> "old", signalled |-> FALSE]
NoRemoval == [at |-> "none", of |-> None]

\* back: where an update goes on after the start or the shutdown it runs.
Idle == [pc |-> "idle", back |-> "idle", probing |-> FALSE, snapshot |-> None, found |-> None,
         bound |-> None, child |-> None, outcome |-> "none"]

Alive(s) == s # None /\ supervisors[s].phase \notin {"unborn", "gone"}

\* Who has the management port, and whether it answers for itself.
Listening(s) == supervisors[s].phase \in {"listening", "ready", "closing"}
Answers(s) == s # None /\ supervisors[s].phase \in {"ready", "closing"}

Use(bound, max) == spent[bound] < max /\ spent' = [spent EXCEPT ![bound] = @ + 1]
Fault == Use("faults", MaxFaults)
NoFault == UNCHANGED spent
Files == <<state, claim>>

Phase(s, phase) == supervisors' = [supervisors EXCEPT ![s].phase = phase]
Command(c, r) == commands' = [commands EXCEPT ![c] = r]
Goto(c, pc) == Command(c, [commands[c] EXCEPT !.pc = pc])
At(c, pc) == commands[c].pc = pc
Removal(p, at) == removals' = [removals EXCEPT ![p].at = at]
Removing(p) == removals[p].at \notin {"none", "removed", "missing", "kept", "failed"}

------------------------
(* Removing the state file of one Supervisor. *)

BeginRemoval(p, of) ==
  /\ removals' = [removals EXCEPT ![p] = [at |-> "look", of |-> of]]
  /\ crossed' = (crossed \/ \E q \in DOMAIN removals : q # p /\ Removing(q))

\* A command first makes sure that the Supervisor is dead; a Supervisor removes its own.
Look(p) ==
  LET of == removals[p].of IN
  /\ removals[p].at = "look"
  /\ IF p # of /\ Alive(of) THEN Removal(p, "kept") /\ UNCHANGED claim
     ELSE IF state = None
       THEN IF p = of
            THEN Removal(p, "missing") /\ claim' = (IF claim = of THEN None ELSE claim)
            ELSE Removal(p, IF claim = None THEN "missing" ELSE "compare") /\ UNCHANGED claim
     ELSE IF state # of THEN Removal(p, "kept") /\ UNCHANGED claim
     ELSE IF claim \notin {None, of} THEN Removal(p, "failed") /\ UNCHANGED claim
     ELSE Removal(p, "rename") /\ claim' = None
  /\ UNCHANGED state

Rename(p) ==
  /\ removals[p].at = "rename"
  /\ IF state = None THEN Removal(p, "failed") /\ UNCHANGED Files
     ELSE Removal(p, "claimed") /\ claim' = state /\ state' = None

\* Mutant of Compare: whatever was renamed is deleted.
MutantCompare(p) ==
  /\ removals[p].at \in {"claimed", "compare"}
  /\ Removal(p, IF claim = None THEN "failed" ELSE "delete")
  /\ UNCHANGED Files

\* Only who renamed the file puts it back, and never over another one.
Compare(p) ==
  LET at == removals[p].at IN
  /\ at \in {"claimed", "compare"}
  /\ \/ claim = removals[p].of /\ Removal(p, "delete") /\ UNCHANGED state
     \/ claim = None /\ Removal(p, "failed") /\ UNCHANGED state
     \/ /\ claim \notin {None, removals[p].of}
        /\ IF at = "claimed" /\ state = None
           THEN Removal(p, "unlink") /\ state' = claim
           ELSE Removal(p, "kept") /\ UNCHANGED state
  /\ UNCHANGED claim

Delete(p) ==
  LET at == removals[p].at IN
  /\ at \in {"delete", "unlink"}
  /\ Removal(p, IF claim = None THEN "failed" ELSE IF at = "delete" THEN "removed" ELSE "kept")
  /\ claim' = None
  /\ UNCHANGED state

RemovalStep(p) ==
  /\ Look(p) \/ Rename(p) \/ Compare(p) \/ Delete(p)
  /\ UNCHANGED <<supervisors, package, commands, crossed, mixed, spent>>

------------------------
(* A Supervisor. *)

\* createSupervisor and the migration may fail; the port may be taken.
Listen(s) ==
  /\ supervisors[s].phase = "starting"
  /\ \/ /\ ~\E t \in Supervisors : Listening(t)
        /\ Phase(s, "listening") /\ NoFault
     \/ (\E t \in Supervisors : Listening(t)) /\ Phase(s, "gone") /\ NoFault
     \/ Fault /\ Phase(s, "gone")
  /\ UNCHANGED <<Files, removals, package, commands, crossed, mixed>>

WriteState(s) ==
  /\ supervisors[s].phase = "listening"
  /\ \/ /\ Phase(s, IF supervisors[s].signalled THEN "closing" ELSE "ready")
        /\ state' = s /\ NoFault
     \/ Fault /\ Phase(s, "gone") /\ UNCHANGED state
  /\ UNCHANGED <<claim, removals, package, commands, crossed, mixed>>

\* The Worker, then the management server, then the stores: a close that fails can be
\* asked for again, over the port as long as it is open, and then by a signal.
Close(s) ==
  /\ supervisors[s].phase \in {"closing", "reclosing"}
  /\ \/ Phase(s, "closed") /\ NoFault
     \/ supervisors[s].phase = "closing" /\ Fault /\ Phase(s, "ready")
     \/ Fault /\ Phase(s, "stuck")
  /\ UNCHANGED <<Files, removals, package, commands, crossed, mixed>>

RemoveOwnedState(s) ==
  /\ supervisors[s].phase = "closed"
  /\ BeginRemoval(s, s)
  /\ Phase(s, "removing")
  /\ UNCHANGED <<Files, package, commands, mixed, spent>>

Exit(s) ==
  /\ supervisors[s].phase = "removing" /\ ~Removing(s)
  /\ Phase(s, IF removals[s].at = "failed" THEN "stuck" ELSE "gone")
  /\ UNCHANGED <<Files, removals, package, commands, crossed, mixed, spent>>

\* The first SIGTERM asks for a close, the second one kills; so does one before there is a handler.
Signalled(s) ==
  LET phase == supervisors[s].phase
      next == IF phase \in {"unborn", "gone"} THEN phase
              ELSE IF phase = "starting" \/ supervisors[s].signalled THEN "gone"
              ELSE IF phase = "ready" THEN "closing"
              ELSE IF phase = "stuck" THEN "reclosing" ELSE phase
  IN [supervisors EXCEPT ![s].phase = next, ![s].signalled = phase # "unborn"]

\* A process that ends leaves the removal it was at.
CutOff(s) ==
  /\ crossed' = (crossed \/ Removing(s))
  /\ removals' = [removals EXCEPT ![s] = NoRemoval]

Signal(s) ==
  /\ supervisors' = Signalled(s)
  /\ IF Signalled(s)[s].phase = "gone" THEN CutOff(s) ELSE UNCHANGED <<removals, crossed>>

NoSignal == UNCHANGED <<supervisors, removals, crossed>>

Crash(s) ==
  /\ Alive(s)
  /\ Use("crashes", MaxCrashes)
  /\ Phase(s, "gone") /\ CutOff(s)
  /\ UNCHANGED <<Files, package, commands, mixed>>

------------------------
(* Commands: finding a Supervisor, and starting one. *)

CommandOnly == UNCHANGED <<supervisors, Files, removals, package, crossed, mixed>>

\* The end of a start or a shutdown, of the user or as a part of an update.
Ended(c, outcome) ==
  LET r == commands[c] IN
  Command(c, IF r.back = "idle" THEN Idle ELSE [r EXCEPT !.pc = r.back, !.outcome = outcome])

\* discoverSupervisor: the file first, then its port, where the one it names must answer.
Discover(c, pc, next) ==
  LET r == commands[c] IN
  /\ At(c, pc)
  /\ \/ /\ ~r.probing /\ NoFault
        /\ Command(c, IF Alive(state) THEN [r EXCEPT !.probing = TRUE, !.found = state]
                      ELSE [r EXCEPT !.pc = next, !.found = None])
     \/ /\ r.probing
        /\ \E found \in {r.found, None} :
             /\ found = r.found => Answers(found)
             /\ IF found = None /\ Answers(r.found) THEN Fault ELSE NoFault
             /\ Command(c, [r EXCEPT !.probing = FALSE, !.pc = next, !.found = found])
  /\ CommandOnly

\* A removal that was cut off leaves its claim: a start clears it up.
Clear(c) ==
  /\ At(c, "clear")
  /\ IF commands[c].found # None THEN Ended(c, "ok") /\ UNCHANGED <<removals, crossed>>
     ELSE IF claim = None THEN Goto(c, "spawn") /\ UNCHANGED <<removals, crossed>>
     ELSE IF state # None THEN Ended(c, "failed") /\ UNCHANGED <<removals, crossed>>
     ELSE BeginRemoval(c, claim) /\ Goto(c, "cleared")
  /\ UNCHANGED <<supervisors, Files, package, mixed, spent>>

\* The removal that a command waits for: nothing left to remove is as good.
RemovalEnds(c, pc, done) ==
  /\ At(c, pc) /\ ~Removing(c)
  /\ IF removals[c].at \in {"removed", "missing"} THEN done ELSE Ended(c, "failed")
  /\ removals' = [removals EXCEPT ![c] = NoRemoval]
  /\ UNCHANGED <<supervisors, Files, package, crossed, mixed, spent>>

Cleared(c) == RemovalEnds(c, "cleared", Goto(c, "spawn"))

Spawn(c) ==
  /\ At(c, "spawn")
  /\ \E s \in Supervisors :
       /\ supervisors[s].phase = "unborn"
       /\ \A t \in 1..(s - 1) : supervisors[t].phase # "unborn"
       /\ supervisors' = [supervisors EXCEPT ![s].phase = "starting", ![s].version = package]
       /\ Command(c, [commands[c] EXCEPT !.pc = "poll", !.child = s])
  /\ UNCHANGED <<Files, removals, package, crossed, mixed, spent>>

\* observeStartupFailure: the child says that it fails, or ends without a word.
StartupFailed(child) == ~Alive(child)

\* Found, whoever started it; or the child failed; or the time is up and the child is stopped.
Polled(c) ==
  LET r == commands[c] IN
  /\ At(c, "polled")
  /\ \/ r.found # None /\ Ended(c, "ok") /\ NoFault /\ NoSignal
     \/ /\ r.found = None /\ ~StartupFailed(r.child)
        /\ Goto(c, "poll") /\ NoFault /\ NoSignal
     \/ StartupFailed(r.child) /\ Ended(c, "failed") /\ NoFault /\ NoSignal
     \/ r.found = None /\ Fault /\ Signal(r.child) /\ Ended(c, "failed")
  /\ UNCHANGED <<Files, package, mixed>>

------------------------
(* shutdown. *)

Snapshot(c) ==
  /\ At(c, "snapshot")
  /\ Command(c, [commands[c] EXCEPT !.pc = "meet", !.snapshot = state])
  /\ NoFault /\ CommandOnly

\* Nobody answers: what a dead Supervisor left is removed.
ClearStale(c) ==
  LET r == commands[c]
      snapshot == IF state = None /\ r.snapshot = None THEN claim ELSE r.snapshot
      left == IF state = None THEN claim ELSE state
  IN
  /\ At(c, "met") /\ r.found = None /\ r.bound = None
  /\ IF snapshot = None \/ left = None THEN Ended(c, "ok") /\ UNCHANGED <<removals, crossed>>
     ELSE IF Alive(left) THEN Ended(c, "failed") /\ UNCHANGED <<removals, crossed>>
     ELSE BeginRemoval(c, snapshot) /\ Goto(c, "removing")
  /\ UNCHANGED <<supervisors, Files, package, mixed, spent>>

\* It must still be the one of the file, and the one that an update means.
Meet(c) ==
  LET r == commands[c]
      changed == r.bound \notin {None, r.found} \/ r.snapshot = None \/ state # r.found
  IN
  /\ At(c, "met") /\ (r.found # None \/ r.bound # None)
  /\ IF changed THEN Ended(c, "changed") ELSE Goto(c, "ask")
  /\ NoFault /\ CommandOnly

\* POST /supervisor/shutdown; the answer, or the whole request, may get lost.
Ask(c) ==
  LET r == commands[c]
      answering == {s \in Supervisors : Answers(s)}
      accepted == [supervisors EXCEPT ![r.found].phase = "closing"]
  IN
  /\ At(c, "ask")
  /\ \/ /\ r.found \in answering
        /\ supervisors' = accepted
        /\ \/ Goto(c, "wait") /\ NoFault
           \/ Goto(c, "force") /\ Fault
     \/ answering = {} /\ Goto(c, "force") /\ NoFault /\ UNCHANGED supervisors
     \/ Fault /\ Goto(c, "force") /\ UNCHANGED supervisors
     \/ /\ answering \notin {{}, {r.found}}
        /\ Ended(c, "changed") /\ NoFault /\ UNCHANGED supervisors
  /\ UNCHANGED <<Files, removals, package, crossed, mixed>>

ForceStop(c) ==
  LET found == commands[c].found IN
  /\ At(c, "force")
  /\ IF state # found THEN Ended(c, "changed") /\ NoSignal
     ELSE IF ~Alive(found) THEN Ended(c, "failed") /\ NoSignal
     ELSE Goto(c, "wait") /\ Signal(found)
  /\ UNCHANGED <<Files, package, mixed, spent>>

Wait(c) ==
  LET r == commands[c] IN
  /\ At(c, "wait")
  /\ \/ Alive(r.found) /\ Fault /\ Ended(c, "failed") /\ UNCHANGED <<removals, crossed>>
     \/ /\ ~Alive(r.found) /\ state = None
        /\ Ended(c, "ok") /\ NoFault /\ UNCHANGED <<removals, crossed>>
     \/ /\ ~Alive(r.found) /\ state # None
        /\ BeginRemoval(c, r.snapshot) /\ Goto(c, "removing") /\ NoFault
  /\ UNCHANGED <<supervisors, Files, package, mixed>>

Removed(c) == RemovalEnds(c, "removing", Ended(c, "ok"))

------------------------
(* update. *)

Starting(r, back) == [r EXCEPT !.pc = "find", !.back = back, !.child = None]
Stopping(r, bound, back) == [r EXCEPT !.pc = "snapshot", !.bound = bound, !.back = back]

\* npm install --global; a Supervisor that is there runs the version before.
Install(c, version, known, r) ==
  /\ package' = version
  /\ mixed' = (mixed \/ \E s \in Supervisors : s # known /\ Alive(s))
  /\ Command(c, r)
  /\ NoFault
  /\ UNCHANGED <<supervisors, Files, removals, crossed>>

InstallFails(c) == Fault /\ Command(c, Idle) /\ CommandOnly

InstallUpdate(c) ==
  LET r == commands[c] IN
  /\ At(c, "install")
  /\ InstallFails(c)
     \/ Install(c, "new", r.found, IF r.found = None THEN Idle ELSE Stopping(r, r.found, "stopped"))

\* assertUpdateRuntimeGone
Gone(s) ==
  /\ None \in {state, claim} /\ {state, claim} \subseteq {None, s}
  /\ ~Alive(s)
  /\ ~\E t \in Supervisors : Listening(t)

\* Mutant of Stopped: a shutdown that failed is as good as one that did not.
MutantStopped(c, pc, look, found, next) ==
  /\ At(c, pc)
  /\ Command(c, IF commands[c].outcome = "changed" THEN Idle ELSE next)
  /\ NoFault /\ CommandOnly

\* stopRuntimeForUpdate: a shutdown that failed is as good when nothing is left of the runtime.
Stopped(c, pc, look, found, next) ==
  LET r == commands[c] IN
  /\ \/ At(c, pc) /\ r.outcome = "ok" /\ Command(c, next)
     \/ At(c, pc) /\ r.outcome = "changed" /\ Command(c, Idle)
     \/ At(c, pc) /\ r.outcome = "failed" /\ Goto(c, look)
     \/ /\ At(c, found)
        /\ Command(c, IF r.found = None /\ Gone(r.bound) THEN next ELSE Idle)
  /\ NoFault /\ CommandOnly

StoppedForUpdate(c) ==
  Stopped(c, "stopped", "look", "looked", Starting(commands[c], "restored"))
StoppedForRollback(c) ==
  Stopped(c, "halted", "relook", "relooked", [commands[c] EXCEPT !.pc = "rollback"])

\* What the installed CLI reports of its start, or else what is found: its version and its Worker.
Restored(c) ==
  LET r == commands[c] IN
  /\ \/ At(c, "restored") /\ Goto(c, IF r.outcome = "ok" THEN "updated" ELSE "observe")
     \/ /\ At(c, "observed") /\ r.found # None /\ supervisors[r.found].version = "new"
        /\ Goto(c, "updated") \/ Command(c, Stopping(r, r.found, "halted"))
     \/ /\ At(c, "observed") /\ r.found # None /\ supervisors[r.found].version # "new"
        /\ Command(c, Idle)
     \/ /\ At(c, "observed") /\ r.found = None
        /\ Command(c, IF Gone(r.bound) THEN [r EXCEPT !.pc = "rollback"] ELSE Idle)
  /\ NoFault /\ CommandOnly

Rollback(c) ==
  /\ At(c, "rollback")
  /\ InstallFails(c) \/ Install(c, "old", None, Starting(commands[c], "reverted"))

RolledBack(c) ==
  LET r == commands[c] IN
  /\ \/ At(c, "reverted") /\ Goto(c, IF r.outcome = "ok" THEN "rolledBack" ELSE "reobserve")
     \/ /\ At(c, "reobserved")
        /\ \/ r.found # None /\ supervisors[r.found].version = "old" /\ Goto(c, "rolledBack")
           \/ Command(c, Idle)
  /\ NoFault /\ CommandOnly

Reported(c) ==
  /\ commands[c].pc \in {"updated", "rolledBack"}
  /\ Command(c, Idle)
  /\ NoFault /\ CommandOnly

------------------------

\* start, shutdown, and one update.
Begin(c) ==
  /\ At(c, "idle")
  /\ \/ Goto(c, "find") /\ Use("commands", MaxCommands)
     \/ Goto(c, "snapshot") /\ Use("commands", MaxCommands)
     \/ Goto(c, "before") /\ Use("updates", 1)
  /\ CommandOnly

Init ==
  /\ supervisors = [s \in Supervisors |-> Unborn]
  /\ state = None /\ claim = None
  /\ removals = [p \in Supervisors \union Clients |-> NoRemoval]
  /\ package = "old" /\ crossed = FALSE /\ mixed = FALSE
  /\ commands = [c \in Clients |-> Idle]
  /\ spent = [commands |-> 0, updates |-> 0, faults |-> 0, crashes |-> 0]

DiscoverStep(c) ==
  \/ Discover(c, "find", "clear")      \/ Discover(c, "poll", "polled")
  \/ Discover(c, "meet", "met")        \/ Discover(c, "before", "install")
  \/ Discover(c, "look", "looked")     \/ Discover(c, "relook", "relooked")
  \/ Discover(c, "observe", "observed") \/ Discover(c, "reobserve", "reobserved")

StartStep(c) == Clear(c) \/ Cleared(c) \/ Spawn(c) \/ Polled(c)
ShutdownStep(c) ==
  Snapshot(c) \/ ClearStale(c) \/ Meet(c) \/ Ask(c) \/ ForceStop(c) \/ Wait(c) \/ Removed(c)
UpdateStep(c) ==
  \/ InstallUpdate(c) \/ StoppedForUpdate(c) \/ Restored(c) \/ StoppedForRollback(c)
  \/ Rollback(c) \/ RolledBack(c) \/ Reported(c)

SupervisorStep(s) ==
  Listen(s) \/ WriteState(s) \/ Close(s) \/ RemoveOwnedState(s) \/ Exit(s) \/ Crash(s)

Next ==
  \/ \E s \in Supervisors : SupervisorStep(s)
  \/ \E p \in DOMAIN removals : RemovalStep(p)
  \/ \E c \in Clients :
       Begin(c) \/ DiscoverStep(c) \/ StartStep(c) \/ ShutdownStep(c) \/ UpdateStep(c)

Spec == Init /\ [][Next]_lifecycleVars

------------------------
(* Properties. *)

\* However starts, shutdowns and the last steps of older Supervisors overlap, a Supervisor that
\* serves stays the one that supervisor.json names; for the moment in which a removal that
\* renamed the file of another one looks at it, supervisor.json.stale does.  Not when two
\* removals ran at once, or one was cut off after it renamed the file.
RunningIsNamed ==
  \A s \in Supervisors :
    supervisors[s].phase = "ready" /\ ~crossed
      => \/ state = s
         \/ claim = s /\ \E p \in DOMAIN removals : removals[p].at \in {"claimed", "unlink"}

\* README.md: what an update reports is true of the Supervisor it leaves: the new version after
\* a success, the old one after a rollback, unless somebody else started one while a version was installed.
UpdateKeepsItsWord ==
  \A c \in Clients :
    commands[c].pc \in {"updated", "rolledBack"} /\ ~mixed
      => supervisors[commands[c].found].version = (IF commands[c].pc = "updated" THEN "new" ELSE "old")
=============================================================================
