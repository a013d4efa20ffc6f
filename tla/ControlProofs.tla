--------------------------- MODULE ControlProofs ---------------------------
(***************************************************************************)
(* Theorems about the control of the program, in the composition that TLC  *)
(* runs: a behaviour of MCControl that is one of the commands and the      *)
(* Supervisors, of the account monitor, or of the web UI has the theorems  *)
(* of that component.  Three inductive invariants are stated here:         *)
(* LifecycleInv, of the state file and of what an update knows, MonitorInv *)
(* of the account monitor and its children, ConsoleInv of every tab and    *)
(* the requests it has on their way.                                       *)
(***************************************************************************)
EXTENDS MCControl, Naturals, Sequences, TLAPS

\* The part is chosen at the start.
LEMMA PartStays == ASSUME NEW name PROVE [Next]_vars => ((part = name)' <=> (part = name))
BY DEF Next, vars

LEMMA LifecyclePart == Spec /\ part = "lifecycle" => Lifecycle!Spec
<1>1. Init /\ part = "lifecycle" => Lifecycle!Init
  BY DEF Init
<1>2. [Next]_vars /\ part = "lifecycle" => [Lifecycle!Next]_(Lifecycle!lifecycleVars)
  BY DEF Next, vars, lifecycleVars, Lifecycle!lifecycleVars
<1>3. [Next]_vars => ((part = "lifecycle")' <=> (part = "lifecycle"))
  BY PartStays
<1> QED
  BY <1>1, <1>2, <1>3, PTL DEF Spec, Lifecycle!Spec

LEMMA MonitorPart == Spec /\ part = "monitor" => Monitor!Spec
<1>1. Init /\ part = "monitor" => Monitor!Init
  BY DEF Init
<1>2. [Next]_vars /\ part = "monitor" => [Monitor!Next]_(Monitor!monitorVars)
  BY DEF Next, vars, monitorVars, Monitor!monitorVars
<1>3. [Next]_vars => ((part = "monitor")' <=> (part = "monitor"))
  BY PartStays
<1> QED
  BY <1>1, <1>2, <1>3, PTL DEF Spec, Monitor!Spec

LEMMA UiPart == Spec /\ part = "ui" => Ui!Spec
<1>1. Init /\ part = "ui" => Ui!Init
  BY DEF Init
<1>2. [Next]_vars /\ part = "ui" => [Ui!Next]_(Ui!consoleVars)
  BY DEF Next, vars, uiVars, Ui!consoleVars
<1>3. [Next]_vars => ((part = "ui")' <=> (part = "ui"))
  BY PartStays
<1> QED
  BY <1>1, <1>2, <1>3, PTL DEF Spec, Ui!Spec

------------------------
(* The Supervisors and the commands, for any number of them and any bounds *)

LEMMA ClientsAreApart == MaxSupervisors \in Nat /\ Clients \cap Lifecycle!Supervisors = {}
BY ClientsAssumption DEF Lifecycle!ClientsApart

Phases == {"unborn", "starting", "listening", "ready", "closing", "reclosing", "stuck",
           "closed", "removing", "gone"}
RemovalAts == {"none", "look", "rename", "claimed", "compare", "delete", "unlink",
               "removed", "missing", "kept", "failed"}
Loop == {"find", "clear", "cleared", "spawn", "poll", "polled", "snapshot", "meet", "met",
         "ask", "force", "wait", "removing"}
Installing == {"before", "install"}
StoppingAt == {"stopped", "look", "looked"}
StartedAt == {"restored", "observe", "observed", "updated"}
HaltingAt == {"halted", "relook", "relooked", "rollback"}
RevertedAt == {"reverted", "reobserve", "reobserved", "rolledBack"}
Pcs == {"idle"} \union Loop \union Installing \union StoppingAt \union StartedAt
         \union HaltingAt \union RevertedAt

Processes == Lifecycle!Supervisors \union Clients
SupervisorSet == [phase : Phases, version : {"old", "new"}, signalled : BOOLEAN]

\* What may be named: no Supervisor before its start.
Known == {s \in Lifecycle!Supervisors : supervisors[s].phase # "unborn"} \union {Lifecycle!None}
RemovalSet(ids) == [at : RemovalAts, of : ids]
Outcomes == {"none", "ok", "failed", "changed"}
CommandSet(ids) ==
  [pc : Pcs, back : {"idle", "stopped", "restored", "halted", "reverted"}, probing : BOOLEAN,
   snapshot : ids, found : ids, bound : ids, child : ids, outcome : Outcomes]
SpentSet == [commands : Nat, updates : Nat, faults : Nat, crashes : Nat]

LifecycleTypeInv ==
  /\ supervisors \in [Lifecycle!Supervisors -> SupervisorSet]
  /\ state \in Known /\ claim \in Known
  /\ removals \in [Processes -> RemovalSet(Known)]
  /\ package \in {"old", "new"}
  /\ commands \in [Clients -> CommandSet(Known)]
  /\ spent \in SpentSet

NoRemovalAts == {"none", "removed", "missing", "kept", "failed"}

\* Serving, to the commands that look for a Supervisor.
Serving(s) == supervisors[s].phase \in {"ready", "closing"}
\* A removal past its look.
Past(p) == removals[p].at \in {"rename", "claimed", "compare", "delete"}

\* One Supervisor has the port, one removal runs, of one's own file or that of a dead one.
OneListens == \A s, t \in Lifecycle!Supervisors : Lifecycle!Listening(s) /\ Lifecycle!Listening(t) => s = t
OneRemoves == ~crossed => \A p, q \in Processes : Lifecycle!Removing(p) /\ Lifecycle!Removing(q) => p = q
OwnRemoval == \A s \in Lifecycle!Supervisors : Lifecycle!Removing(s) => supervisors[s].phase = "removing" /\ removals[s].of = s
DeadOrOwn == \A p \in Processes : Past(p) => ~Lifecycle!Alive(removals[p].of) \/ removals[p].of = p
CommandRemoves == \A c \in Clients : removals[c].at # "none" => commands[c].pc \in {"cleared", "removing"}

\* The one that serves is named, or a removal has its name in hand.
Named ==
  ~crossed => \A s \in Lifecycle!Supervisors : Serving(s) =>
    \/ state = s
    \/ claim = s /\ state = Lifecycle!None /\ \E p \in Processes : removals[p].at = "claimed"

NamedInv == OneListens /\ OneRemoves /\ OwnRemoval /\ DeadOrOwn /\ CommandRemoves /\ Named

\* What a command is at, for an update.
StartAt == {"find", "clear", "cleared", "spawn", "poll", "polled"}
StopAt == {"snapshot", "meet", "met", "ask", "force", "wait", "removing"}
DiscoverAt == {"find", "poll", "meet", "before", "look", "relook", "observe", "reobserve"}

Stage(r) ==
  IF r.pc \in Installing THEN "install"
  ELSE IF r.pc \in StoppingAt \/ (r.pc \in StopAt /\ r.back = "stopped") THEN "stop"
  ELSE IF r.pc \in StartedAt \/ (r.pc \in StartAt /\ r.back = "restored") THEN "start"
  ELSE IF r.pc \in HaltingAt \/ (r.pc \in StopAt /\ r.back = "halted") THEN "halt"
  ELSE IF r.pc \in RevertedAt \/ (r.pc \in StartAt /\ r.back = "reverted") THEN "revert"
  ELSE "none"

Looked(r) == r.found # Lifecycle!None /\ (r.pc \in {"find", "observe", "reobserve"} => r.probing)

Shaped(r) ==
  /\ r.pc \in Installing \union {"idle"} => r.back = "idle"
  /\ r.pc \in StartAt => r.back \in {"idle", "restored", "reverted"}
  /\ r.pc \in StopAt => r.back \in {"idle", "stopped", "halted"}
  /\ r.probing => r.pc \in DiscoverAt
  /\ r.pc \in {"ask", "force", "wait", "removing"} /\ r.bound # Lifecycle!None => r.bound = r.found
  /\ r.pc \in {"restored", "reverted"} /\ r.outcome = "ok" => r.found # Lifecycle!None
  /\ r.pc \in {"updated", "rolledBack"} => r.found # Lifecycle!None
  /\ r.pc \in {"poll", "polled"} => r.child # Lifecycle!None

\* A shutdown that went well has ended the Supervisor that it was for.
Ends(r) ==
  r.pc = "removing" \/ (r.pc \in {"stopped", "halted"} /\ r.outcome = "ok") => ~Lifecycle!Alive(r.bound)

OneUpdate ==
  /\ \A c \in Clients : Stage(commands[c]) # "none" => spent.updates = 1
  /\ \A c, d \in Clients : Stage(commands[c]) # "none" /\ Stage(commands[d]) # "none" => c = d

AllRun(release) == \A s \in Lifecycle!Supervisors : Lifecycle!Alive(s) => supervisors[s].version = release

Versions(r) ==
  /\ Stage(r) = "stop" =>
       /\ package = "new" /\ r.bound # Lifecycle!None
       /\ \A s \in Lifecycle!Supervisors : Lifecycle!Alive(s) => s = r.bound \/ supervisors[s].version = "new"
  /\ Stage(r) = "start" =>
       /\ package = "new" /\ AllRun("new")
       /\ Looked(r) => supervisors[r.found].version = "new"
  /\ Stage(r) = "revert" =>
       /\ package = "old" /\ AllRun("old")
       /\ Looked(r) => supervisors[r.found].version = "old"

UpdateInv ==
  /\ \A c \in Clients : Shaped(commands[c]) /\ Ends(commands[c])
  /\ OneUpdate
  /\ ~mixed => \A c \in Clients : Versions(commands[c])

LifecycleInv == LifecycleTypeInv /\ NamedInv /\ UpdateInv

LEMMA TypeInit == Lifecycle!Init => LifecycleTypeInv
  BY DEF Lifecycle!Init, LifecycleTypeInv, Lifecycle!Unborn, Lifecycle!NoRemoval, Lifecycle!Idle,
     Known, Processes, Phases, RemovalAts,
     Pcs, SupervisorSet, RemovalSet, CommandSet, SpentSet, Outcomes

LEMMA UseType ==
  ASSUME NEW bound \in {"commands", "updates", "faults", "crashes"}, NEW max, LifecycleTypeInv, Lifecycle!Use(bound, max)
  PROVE  /\ spent' \in SpentSet
         /\ spent'.updates = IF bound = "updates" THEN spent.updates + 1 ELSE spent.updates
         /\ bound = "updates" => spent.updates < max
  BY DEF Lifecycle!Use, LifecycleTypeInv, SpentSet

LEMMA FaultType ==
  ASSUME LifecycleTypeInv, Lifecycle!Fault \/ Lifecycle!NoFault
  PROVE  spent' \in SpentSet /\ spent'.updates = spent.updates
  BY UseType DEF Lifecycle!Fault, Lifecycle!NoFault, LifecycleTypeInv

LEMMA PhaseType ==
  ASSUME LifecycleTypeInv, NEW s \in Lifecycle!Supervisors, NEW phase \in Phases, Lifecycle!Phase(s, phase)
  PROVE  /\ supervisors' \in [Lifecycle!Supervisors -> SupervisorSet]
         /\ supervisors'[s].phase = phase
         /\ \A t \in Lifecycle!Supervisors : t # s => supervisors'[t] = supervisors[t]
         /\ \A t \in Lifecycle!Supervisors : supervisors'[t].version = supervisors[t].version
  BY DEF Lifecycle!Phase, LifecycleTypeInv, SupervisorSet

LEMMA SignalledType ==
  ASSUME LifecycleTypeInv, NEW s \in Lifecycle!Supervisors, NEW next, next = Lifecycle!Signalled(s)
  PROVE  /\ next \in [Lifecycle!Supervisors -> SupervisorSet]
         /\ \A t \in Lifecycle!Supervisors : t # s => next[t] = supervisors[t]
         /\ \A t \in Lifecycle!Supervisors : next[t].version = supervisors[t].version
         /\ next[s].phase = "unborn" <=> supervisors[s].phase = "unborn"
         /\ \/ next[s].phase \in {supervisors[s].phase, "gone"}
            \/ next[s].phase = "closing" /\ supervisors[s].phase = "ready"
            \/ next[s].phase = "reclosing" /\ supervisors[s].phase = "stuck"
         /\ supervisors[s].phase = "gone" => next[s].phase = "gone"
<1> DEFINE phase == supervisors[s].phase
           to == IF phase \in {"unborn", "gone"} THEN phase
                 ELSE IF phase = "starting" \/ supervisors[s].signalled THEN "gone"
                 ELSE IF phase = "ready" THEN "closing"
                 ELSE IF phase = "stuck" THEN "reclosing" ELSE phase
<1>1. supervisors[s] \in SupervisorSet
  BY DEF LifecycleTypeInv
<1> DEFINE sent == phase # "unborn"
           record == [supervisors[s] EXCEPT !.phase = to, !.signalled = sent]
<1>2. phase \in Phases /\ supervisors[s].signalled \in BOOLEAN /\ sent \in BOOLEAN
  BY <1>1 DEF SupervisorSet
<1>3. \/ phase \in {"unborn", "gone"} /\ to = phase
      \/ phase \notin {"unborn", "gone"} /\ to = "gone"
      \/ phase = "ready" /\ to = "closing"
      \/ phase = "stuck" /\ to = "reclosing"
      \/ phase \notin {"unborn", "gone"} /\ to = phase
  OBVIOUS
<1>7. next = [supervisors EXCEPT ![s].phase = to, ![s].signalled = sent]
  BY DEF Lifecycle!Signalled
<1> HIDE DEF to, sent
<1>4. to \in Phases
  BY <1>2, <1>3 DEF Phases
<1>8. /\ record \in SupervisorSet
      /\ record.phase = to /\ record.version = supervisors[s].version
  BY <1>1, <1>2, <1>4 DEF SupervisorSet
<1>9. next = [supervisors EXCEPT ![s] = record]
  BY <1>1, <1>7 DEF LifecycleTypeInv
<1> HIDE DEF record
<1>11. supervisors \in [Lifecycle!Supervisors -> SupervisorSet]
  BY DEF LifecycleTypeInv
<1>10. /\ next \in [Lifecycle!Supervisors -> SupervisorSet]
       /\ next[s] = record
       /\ \A t \in Lifecycle!Supervisors : t # s => next[t] = supervisors[t]
  BY <1>8, <1>9, <1>11
<1> QED BY <1>3, <1>8, <1>10

\* Nobody is unborn again.
LEMMA KnownGrows ==
  ASSUME LifecycleTypeInv, \A s \in Lifecycle!Supervisors : supervisors[s].phase # "unborn" => supervisors'[s].phase # "unborn"
  PROVE  Known \subseteq Known'
  BY DEF Known

LEMMA TypesGrow ==
  ASSUME LifecycleTypeInv, Known \subseteq Known'
  PROVE  /\ state \in Known' /\ claim \in Known'
         /\ removals \in [Processes -> RemovalSet(Known')]
         /\ commands \in [Clients -> CommandSet(Known')]
  BY DEF LifecycleTypeInv, RemovalSet, CommandSet

LEMMA CommandType ==
  ASSUME LifecycleTypeInv, Known \subseteq Known', NEW c \in Clients, NEW r \in CommandSet(Known'), Lifecycle!Command(c, r)
  PROVE  /\ commands' \in [Clients -> CommandSet(Known')] /\ commands'[c] = r
         /\ \A d \in Clients : d # c => commands'[d] = commands[d]
  BY TypesGrow DEF Lifecycle!Command, LifecycleTypeInv

LEMMA RemovalType ==
  ASSUME LifecycleTypeInv, NEW p \in Processes, NEW at \in RemovalAts, Lifecycle!Removal(p, at)
  PROVE  /\ removals' \in [Processes -> RemovalSet(Known)]
         /\ removals'[p] = [at |-> at, of |-> removals[p].of]
         /\ \A q \in Processes : q # p => removals'[q] = removals[q]
  BY DEF Lifecycle!Removal, LifecycleTypeInv, RemovalSet

LEMMA BeginRemovalType ==
  ASSUME LifecycleTypeInv, Known \subseteq Known', NEW p \in Processes, NEW of \in Known', Lifecycle!BeginRemoval(p, of)
  PROVE  /\ removals' \in [Processes -> RemovalSet(Known')]
         /\ removals'[p] = [at |-> "look", of |-> of]
         /\ \A q \in Processes : q # p => removals'[q] = removals[q]
  BY TypesGrow DEF Lifecycle!BeginRemoval, LifecycleTypeInv, RemovalSet, RemovalAts

LEMMA NoRemovalType ==
  ASSUME LifecycleTypeInv, Known \subseteq Known', NEW p \in Processes, removals' = [removals EXCEPT ![p] = Lifecycle!NoRemoval]
  PROVE  /\ removals' \in [Processes -> RemovalSet(Known')]
         /\ removals'[p] = Lifecycle!NoRemoval
         /\ \A q \in Processes : q # p => removals'[q] = removals[q]
  BY TypesGrow DEF LifecycleTypeInv, RemovalSet, RemovalAts, Lifecycle!NoRemoval, Known

\* Time passes for the Supervisors: none is unborn again, none comes back, and a new one
\* runs the version that is installed.
Aged ==
  /\ supervisors' \in [Lifecycle!Supervisors -> SupervisorSet]
  /\ \A s \in Lifecycle!Supervisors :
       /\ supervisors[s].phase # "unborn" =>
            supervisors'[s].phase # "unborn" /\ supervisors'[s].version = supervisors[s].version
       /\ supervisors[s].phase = "gone" => supervisors'[s].phase = "gone"
       /\ supervisors[s].phase = "unborn" /\ supervisors'[s].phase # "unborn"
            => supervisors'[s].version = package

LEMMA AgedKnown == ASSUME LifecycleTypeInv, Aged PROVE Known \subseteq Known'
  BY KnownGrows DEF Aged

LEMMA AgedSame == ASSUME LifecycleTypeInv, supervisors' = supervisors PROVE Aged /\ Known' = Known
  BY DEF Aged, LifecycleTypeInv, Known

LEMMA AgedPhase ==
  ASSUME LifecycleTypeInv, NEW s \in Lifecycle!Supervisors, NEW phase \in Phases, Lifecycle!Phase(s, phase),
         supervisors[s].phase \notin {"unborn", "gone"}, phase # "unborn"
  PROVE  Aged
BY PhaseType DEF Aged

LEMMA AgedSignalled ==
  ASSUME LifecycleTypeInv, NEW s \in Lifecycle!Supervisors, supervisors' = Lifecycle!Signalled(s)
  PROVE  Aged
<1>1. /\ supervisors' \in [Lifecycle!Supervisors -> SupervisorSet]
      /\ \A t \in Lifecycle!Supervisors : t # s => supervisors'[t] = supervisors[t]
      /\ \A t \in Lifecycle!Supervisors : supervisors'[t].version = supervisors[t].version
      /\ supervisors'[s].phase = "unborn" <=> supervisors[s].phase = "unborn"
      /\ supervisors[s].phase = "gone" => supervisors'[s].phase = "gone"
  BY SignalledType
<1> QED BY <1>1 DEF Aged

------------------------
(* Steps of the commands: one of them moves. *)

Moves(c) ==
  /\ commands' \in [Clients -> CommandSet(Known')]
  /\ \A d \in Clients : d # c => commands'[d] = commands[d]

LEMMA MovesCommand ==
  ASSUME LifecycleTypeInv, Aged, NEW c \in Clients, NEW r \in CommandSet(Known'), Lifecycle!Command(c, r)
  PROVE  Moves(c) /\ commands'[c] = r
BY CommandType, AgedKnown DEF Moves

LEMMA CommandKnown ==
  ASSUME LifecycleTypeInv, Aged, NEW c \in Clients
  PROVE  /\ commands[c] \in CommandSet(Known) /\ commands[c] \in CommandSet(Known')
         /\ state \in Known' /\ Lifecycle!None \in Known' /\ Lifecycle!Idle \in CommandSet(Known')
<1>1. Known \subseteq Known'
  BY AgedKnown
<1>2. Lifecycle!None \in Known'
  BY DEF Known
<1> QED BY <1>1, <1>2 DEF LifecycleTypeInv, CommandSet, Lifecycle!Idle, Pcs, Outcomes

LEMMA MovesGoto ==
  ASSUME LifecycleTypeInv, Aged, NEW c \in Clients, NEW pc \in Pcs, Lifecycle!Goto(c, pc)
  PROVE  /\ Moves(c) /\ commands'[c].pc = pc
         /\ commands'[c].back = commands[c].back /\ commands'[c].probing = commands[c].probing
         /\ commands'[c].snapshot = commands[c].snapshot /\ commands'[c].found = commands[c].found
         /\ commands'[c].bound = commands[c].bound /\ commands'[c].outcome = commands[c].outcome
         /\ commands'[c].child = commands[c].child
<1> DEFINE r == [commands[c] EXCEPT !.pc = pc]
<1>1. commands[c] \in CommandSet(Known')
  BY CommandKnown
<1>2. /\ r \in CommandSet(Known') /\ r.pc = pc
      /\ r.back = commands[c].back /\ r.probing = commands[c].probing
      /\ r.snapshot = commands[c].snapshot /\ r.found = commands[c].found
      /\ r.bound = commands[c].bound /\ r.outcome = commands[c].outcome /\ r.child = commands[c].child
  BY <1>1 DEF CommandSet
<1>3. Lifecycle!Command(c, r)
  BY DEF Lifecycle!Goto
<1> HIDE DEF r
<1> QED BY <1>2, <1>3, MovesCommand

LEMMA MovesIdle ==
  ASSUME LifecycleTypeInv, Aged, NEW c \in Clients, Lifecycle!Command(c, Lifecycle!Idle)
  PROVE  Moves(c) /\ commands'[c] = Lifecycle!Idle
BY CommandKnown, MovesCommand

LEMMA MovesEnded ==
  ASSUME LifecycleTypeInv, Aged, NEW c \in Clients, NEW outcome \in Outcomes, Lifecycle!Ended(c, outcome)
  PROVE  /\ Moves(c)
         /\ commands[c].back = "idle" => commands'[c] = Lifecycle!Idle
         /\ commands[c].back # "idle" =>
              /\ commands'[c].pc = commands[c].back /\ commands'[c].outcome = outcome
              /\ commands'[c].back = commands[c].back /\ commands'[c].probing = commands[c].probing
              /\ commands'[c].found = commands[c].found /\ commands'[c].bound = commands[c].bound
<1> DEFINE r == [commands[c] EXCEPT !.pc = commands[c].back, !.outcome = outcome]
<1>1. commands[c] \in CommandSet(Known')
  BY CommandKnown
<1>2. commands[c].back \in Pcs
  BY <1>1 DEF CommandSet, Pcs, StoppingAt, StartedAt, HaltingAt, RevertedAt
<1>3. /\ r \in CommandSet(Known') /\ r.pc = commands[c].back /\ r.outcome = outcome
      /\ r.back = commands[c].back /\ r.probing = commands[c].probing
      /\ r.found = commands[c].found /\ r.bound = commands[c].bound
  BY <1>1, <1>2 DEF CommandSet
<1>4. Lifecycle!Command(c, IF commands[c].back = "idle" THEN Lifecycle!Idle ELSE r)
  BY DEF Lifecycle!Ended
<1> HIDE DEF r
<1>5. CASE commands[c].back = "idle"
  BY <1>4, <1>5, MovesIdle
<1>6. CASE commands[c].back # "idle"
  BY <1>3, <1>4, <1>6, MovesCommand
<1> QED BY <1>5, <1>6

------------------------
(* What a step keeps of the updates. *)

\* Nothing of a command changes but its way: it stays with its part of the update or ends it.
Follows(c) ==
  \/ Stage(commands'[c]) = "none"
  \/ /\ Stage(commands'[c]) = Stage(commands[c])
     /\ commands'[c].bound = commands[c].bound
     /\ Looked(commands'[c]) =>
          \/ Looked(commands[c]) /\ commands'[c].found = commands[c].found
          \/ Lifecycle!Alive(commands'[c].found)

LEMMA DeadStays ==
  ASSUME LifecycleTypeInv, Aged, NEW s \in Known
  PROVE  /\ ~Lifecycle!Alive(s) => ~Lifecycle!Alive(s)'
         /\ s # Lifecycle!None => supervisors'[s].version = supervisors[s].version
BY DEF Known, Aged, Lifecycle!Alive

\* Who lives runs a version that ran before, or the one that is installed.
LEMMA RunStays ==
  ASSUME LifecycleTypeInv, Aged, package' = package, NEW release, package = release, NEW bound,
         \A s \in Lifecycle!Supervisors : Lifecycle!Alive(s) => s = bound \/ supervisors[s].version = release
  PROVE  \A s \in Lifecycle!Supervisors : Lifecycle!Alive(s)' => s = bound \/ supervisors'[s].version = release
BY DEF Aged, Lifecycle!Alive

LEMMA VersionsStay ==
  ASSUME LifecycleTypeInv, Aged, package' = package, NEW r \in CommandSet(Known), NEW next,
         Versions(r),
         \/ Stage(next) = "none"
         \/ /\ Stage(next) = Stage(r) /\ next.bound = r.bound
            /\ Looked(next) => (Looked(r) /\ next.found = r.found) \/ (Lifecycle!Alive(next.found) /\ next.found \in Lifecycle!Supervisors)
  PROVE  Versions(next)'
<1>1. CASE Stage(next) \notin {"stop", "start", "revert"}
  BY <1>1 DEF Versions
<1>2. CASE Stage(next) = "stop"
  <2>1. /\ Stage(r) = "stop" /\ next.bound = r.bound /\ package = "new" /\ r.bound # Lifecycle!None
        /\ \A s \in Lifecycle!Supervisors : Lifecycle!Alive(s) => s = r.bound \/ supervisors[s].version = "new"
    BY <1>2 DEF Versions
  <2>2. \A s \in Lifecycle!Supervisors : Lifecycle!Alive(s)' => s = r.bound \/ supervisors'[s].version = "new"
    BY <2>1, RunStays
  <2> QED BY <1>2, <2>1, <2>2 DEF Versions
<1>3. ASSUME NEW stage \in {"start", "revert"}, NEW release, Stage(next) = stage,
             package = release, AllRun(release), Looked(r) => supervisors[r.found].version = release
      PROVE  AllRun(release)' /\ (Looked(next) => supervisors'[next.found].version = release)
  <2>1. \A s \in Lifecycle!Supervisors : Lifecycle!Alive(s) => s = Lifecycle!None \/ supervisors[s].version = release
    BY <1>3 DEF AllRun
  <2>2. \A s \in Lifecycle!Supervisors : Lifecycle!Alive(s)' => s = Lifecycle!None \/ supervisors'[s].version = release
    BY <1>3, <2>1, RunStays
  <2>3. AllRun(release)'
    BY <2>2 DEF AllRun, Lifecycle!Alive
  <2>4. ASSUME Looked(next) PROVE supervisors'[next.found].version = release
    <3>1. CASE Looked(r) /\ next.found = r.found
      <4>1. r.found \in Known /\ r.found # Lifecycle!None
        BY <3>1 DEF CommandSet, Looked
      <4> QED BY <1>3, <3>1, <4>1, DeadStays
    <3>2. CASE Lifecycle!Alive(next.found) /\ next.found \in Lifecycle!Supervisors
      <4>1. supervisors[next.found].version = release
        BY <1>3, <3>2 DEF AllRun
      <4>2. next.found \in Known /\ next.found # Lifecycle!None
        BY <3>2 DEF Known, Lifecycle!Alive
      <4> QED BY <4>1, <4>2, DeadStays
    <3> QED BY <1>3, <2>4, <3>1, <3>2
  <2> QED BY <2>3, <2>4
<1>4. CASE Stage(next) = "start"
  <2>1. Stage(r) = "start" /\ package = "new" /\ AllRun("new") /\ (Looked(r) => supervisors[r.found].version = "new")
    BY <1>4 DEF Versions
  <2>2. AllRun("new")' /\ (Looked(next) => supervisors'[next.found].version = "new")
    BY <1>3, <1>4, <2>1
  <2> QED BY <1>4, <2>1, <2>2 DEF Versions
<1>5. CASE Stage(next) = "revert"
  <2>1. Stage(r) = "revert" /\ package = "old" /\ AllRun("old") /\ (Looked(r) => supervisors[r.found].version = "old")
    BY <1>5 DEF Versions
  <2>2. AllRun("old")' /\ (Looked(next) => supervisors'[next.found].version = "old")
    BY <1>3, <1>5, <2>1
  <2> QED BY <1>5, <2>1, <2>2 DEF Versions
<1> QED BY <1>1, <1>2, <1>4, <1>5

LEMMA EndsStays ==
  ASSUME LifecycleTypeInv, Aged, NEW r \in CommandSet(Known), Ends(r)
  PROVE  Ends(r)'
BY DeadStays DEF Ends, CommandSet

\* A step of the Supervisors or of a removal.
LEMMA UpdateStays ==
  ASSUME LifecycleTypeInv, UpdateInv, Aged, UNCHANGED <<commands, package, mixed>>, spent'.updates = spent.updates
  PROVE  UpdateInv'
<1>1. \A c \in Clients : commands[c] \in CommandSet(Known)
  BY DEF LifecycleTypeInv
<1>2. \A c \in Clients : Shaped(commands'[c]) /\ Ends(commands[c])'
  <2>1. ASSUME NEW c \in Clients, NEW r, r = commands[c] PROVE Ends(r)'
    BY <1>1, <2>1, EndsStays DEF UpdateInv
  <2>2. \A c \in Clients : Ends(commands[c])'
    BY <2>1 DEF Ends
  <2> QED BY <2>2 DEF UpdateInv
<1>3. OneUpdate'
  BY DEF UpdateInv, OneUpdate
<1>4. ASSUME ~mixed', NEW c \in Clients PROVE Versions(commands[c])'
  <2>1. Versions(commands[c])
    BY <1>4 DEF UpdateInv
  <2>2. ASSUME NEW r, r = commands[c] PROVE Versions(r)'
    BY <1>1, <2>1, <2>2, VersionsStay
  <2> QED BY <2>2 DEF Versions
<1> QED BY <1>2, <1>3, <1>4 DEF UpdateInv

\* A step of a command that does not install anything.
LEMMA UpdateFollows ==
  ASSUME LifecycleTypeInv, UpdateInv, Aged, NEW c \in Clients, Moves(c), Follows(c),
         UNCHANGED <<package, mixed>>, spent'.updates = spent.updates,
         Shaped(commands'[c]), Ends(commands[c])'
  PROVE  UpdateInv'
<1>1. \A d \in Clients : commands[d] \in CommandSet(Known)
  BY DEF LifecycleTypeInv
<1>2. \A d \in Clients : Shaped(commands'[d]) /\ Ends(commands[d])'
  <2>1. ASSUME NEW d \in Clients, d # c PROVE Shaped(commands'[d]) /\ Ends(commands[d])'
    <3>1. commands'[d] = commands[d]
      BY <2>1 DEF Moves
    <3>2. ASSUME NEW r, r = commands[d] PROVE Ends(r)'
      BY <1>1, <3>2, EndsStays DEF UpdateInv
    <3>3. Ends(commands[d])'
      BY <3>1, <3>2 DEF Ends
    <3> QED BY <3>1, <3>3 DEF UpdateInv
  <2> QED BY <2>1
<1>3. OneUpdate'
  <2>1. \A d \in Clients : Stage(commands'[d]) # "none" => Stage(commands[d]) # "none"
    BY DEF Moves, Follows
  <2> QED BY <2>1 DEF UpdateInv, OneUpdate
<1>4. ASSUME ~mixed', NEW d \in Clients PROVE Versions(commands[d])'
  <2>1. Versions(commands[d])
    BY <1>4 DEF UpdateInv
  <2>2. \/ Stage(commands'[d]) = "none"
        \/ /\ Stage(commands'[d]) = Stage(commands[d]) /\ commands'[d].bound = commands[d].bound
           /\ Looked(commands'[d]) =>
                \/ Looked(commands[d]) /\ commands'[d].found = commands[d].found
                \/ Lifecycle!Alive(commands'[d].found) /\ commands'[d].found \in Lifecycle!Supervisors
    <3>1. CASE d = c
      <4>1. commands'[c].found \in Lifecycle!Supervisors \union {Lifecycle!None}
        BY DEF Moves, CommandSet, Known
      <4> QED BY <3>1, <4>1 DEF Follows, Lifecycle!Alive
    <3>2. CASE d # c
      BY <3>2 DEF Moves
    <3> QED BY <3>1, <3>2
  <2>4. ASSUME NEW r, r = commands'[d] PROVE Versions(r)'
    BY <1>1, <2>1, <2>2, <2>4, VersionsStay
  <2> QED BY <2>4 DEF Versions
<1> QED BY <1>2, <1>3, <1>4 DEF UpdateInv

------------------------
(* What a step keeps of the names. *)

LEMMA NoneApart == Lifecycle!None \notin Lifecycle!Supervisors /\ Clients \cap Lifecycle!Supervisors = {}
  BY ClientsAreApart DEF Lifecycle!Supervisors, Lifecycle!None

\* Who serves listens and lives, and is at no removal of its own.
LEMMA ServingIs ==
  ASSUME LifecycleTypeInv, NamedInv, NEW s \in Lifecycle!Supervisors, Serving(s)
  PROVE  /\ Lifecycle!Listening(s) /\ Lifecycle!Alive(s) /\ ~Lifecycle!Removing(s)
         /\ ~crossed /\ (\E p \in Processes : Lifecycle!Removing(p) /\ removals[p].at # "claimed") => state = s
<1>1. Lifecycle!Listening(s) /\ Lifecycle!Alive(s) /\ ~Lifecycle!Removing(s)
  BY NoneApart DEF Serving, Lifecycle!Listening, Lifecycle!Alive, NamedInv, OwnRemoval
<1>2. ASSUME ~crossed, NEW p \in Processes, Lifecycle!Removing(p), removals[p].at # "claimed" PROVE state = s
  <2>1. \A q \in Processes : removals[q].at = "claimed" => Lifecycle!Removing(q)
    BY DEF Lifecycle!Removing
  <2> QED BY <1>2, <2>1 DEF NamedInv, OneRemoves, Named
<1> QED BY <1>1, <1>2

\* Commands go on, their removals and the files as they are.
LEMMA NamedStays ==
  ASSUME LifecycleTypeInv, NamedInv, UNCHANGED <<supervisors, Lifecycle!Files, removals, crossed>>,
         \A c \in Clients : removals[c].at # "none" => commands'[c].pc \in {"cleared", "removing"}
  PROVE  NamedInv'
<1>1. /\ \A s : Lifecycle!Listening(s)' <=> Lifecycle!Listening(s)
      /\ \A s : Lifecycle!Alive(s)' <=> Lifecycle!Alive(s)
      /\ \A s : Serving(s)' <=> Serving(s)
      /\ \A p : Lifecycle!Removing(p)' <=> Lifecycle!Removing(p)
      /\ \A p : Past(p)' <=> Past(p)
  BY DEF Lifecycle!Listening, Lifecycle!Alive, Serving, Lifecycle!Removing, Past
<1> QED
  BY <1>1 DEF NamedInv, OneListens, OneRemoves, OwnRemoval, DeadOrOwn, CommandRemoves, Named,
     Lifecycle!Files

\* A removal goes on or ends, of its own; only who has renamed the file holds a name.
LEMMA RemovalNames ==
  ASSUME LifecycleTypeInv, NamedInv, NEW p \in Processes, NEW at \in RemovalAts, Lifecycle!Removing(p), at # "none", Lifecycle!Removal(p, at),
         UNCHANGED <<supervisors, commands, crossed>>,
         at \in {"rename", "claimed", "compare", "delete"} => ~Lifecycle!Alive(removals[p].of) \/ removals[p].of = p,
         Named'
  PROVE  NamedInv'
<1>1. /\ removals'[p] = [at |-> at, of |-> removals[p].of]
      /\ \A q \in Processes : q # p => removals'[q] = removals[q]
  BY RemovalType
<1>2. \A q \in Processes : Lifecycle!Removing(q)' => Lifecycle!Removing(q)
  BY <1>1 DEF Lifecycle!Removing
<1>3. OneListens' /\ OneRemoves'
  BY <1>2 DEF NamedInv, OneListens, OneRemoves, Lifecycle!Listening
<1>4. OwnRemoval'
  <2>1. \A s \in Lifecycle!Supervisors : s \in Processes /\ removals'[s].of = removals[s].of
    BY <1>1 DEF Processes
  <2> QED BY <1>2, <2>1 DEF NamedInv, OwnRemoval
<1>5. DeadOrOwn'
  BY <1>1 DEF NamedInv, DeadOrOwn, Past, Lifecycle!Alive
<1>6. CommandRemoves'
  <2>1. removals[p].at # "none"
    BY DEF Lifecycle!Removing
  <2> QED BY <1>1, <2>1 DEF NamedInv, CommandRemoves, Processes
<1> QED BY <1>3, <1>4, <1>5, <1>6 DEF NamedInv

LEMMA LookNames ==
  ASSUME LifecycleTypeInv, NamedInv, NEW p \in Processes, Lifecycle!Look(p), UNCHANGED <<supervisors, commands, crossed>>
  PROVE  NamedInv' /\ state' \in Known /\ claim' \in Known /\ removals' \in [Processes -> RemovalSet(Known)]
<1>1. removals[p].at = "look" /\ Lifecycle!Removing(p) /\ state' = state /\ claim' \in {claim, Lifecycle!None} /\ Lifecycle!None \in Known
  BY DEF Lifecycle!Look, Lifecycle!Removing, Known
<1>2. PICK at \in {"kept", "missing", "compare", "failed", "rename"} :
        /\ Lifecycle!Removal(p, at)
        /\ at \in {"rename", "compare"} => ~Lifecycle!Alive(removals[p].of) \/ removals[p].of = p
  BY DEF Lifecycle!Look
<1>3. Named'
  <2>1. ASSUME ~crossed, NEW s \in Lifecycle!Supervisors, Serving(s) PROVE state' = s
    BY <1>1, <2>1, ServingIs
  <2> QED BY <2>1 DEF Named, Serving
<1>4. NamedInv'
  BY <1>1, <1>2, <1>3, RemovalNames DEF RemovalAts
<1> QED BY <1>1, <1>2, <1>4, RemovalType DEF LifecycleTypeInv, RemovalAts

LEMMA RenameNames ==
  ASSUME LifecycleTypeInv, NamedInv, NEW p \in Processes, Lifecycle!Rename(p), UNCHANGED <<supervisors, commands, crossed>>
  PROVE  NamedInv' /\ state' \in Known /\ claim' \in Known /\ removals' \in [Processes -> RemovalSet(Known)]
<1>1. removals[p].at = "rename" /\ Lifecycle!Removing(p) /\ Lifecycle!None \in Known
      /\ (~Lifecycle!Alive(removals[p].of) \/ removals[p].of = p)
  BY DEF Lifecycle!Rename, Lifecycle!Removing, Known, NamedInv, DeadOrOwn, Past
<1>2. ASSUME NEW at \in {"failed", "claimed"}, Lifecycle!Removal(p, at), Named'
      PROVE  NamedInv' /\ removals' \in [Processes -> RemovalSet(Known)]
  BY <1>1, <1>2, RemovalNames, RemovalType DEF RemovalAts
<1>3. ASSUME ~crossed, NEW s \in Lifecycle!Supervisors, Serving(s) PROVE state = s
  BY <1>1, <1>3, ServingIs
<1>4. CASE state = Lifecycle!None
  <2>1. Lifecycle!Removal(p, "failed") /\ state' = state /\ claim' = claim
    BY <1>4 DEF Lifecycle!Rename, Lifecycle!Files
  <2>2. Named'
    BY <1>3, <2>1 DEF Named, Serving
  <2> QED BY <1>2, <2>1, <2>2 DEF LifecycleTypeInv
<1>5. CASE state # Lifecycle!None
  <2>1. Lifecycle!Removal(p, "claimed") /\ claim' = state /\ state' = Lifecycle!None
    BY <1>5 DEF Lifecycle!Rename
  <2>2. removals'[p].at = "claimed"
    <3>1. "claimed" \in RemovalAts
      BY DEF RemovalAts
    <3>2. removals'[p] = [at |-> "claimed", of |-> removals[p].of]
      BY <2>1, <3>1, RemovalType
    <3> QED BY <3>2
  <2>3. Named'
    BY <1>3, <2>1, <2>2 DEF Named, Serving
  <2> QED BY <1>1, <1>2, <2>1, <2>3 DEF LifecycleTypeInv
<1> QED BY <1>4, <1>5

LEMMA CompareNames ==
  ASSUME LifecycleTypeInv, NamedInv, NEW p \in Processes, Lifecycle!Compare(p), UNCHANGED <<supervisors, commands, crossed>>
  PROVE  NamedInv' /\ state' \in Known /\ claim' \in Known /\ removals' \in [Processes -> RemovalSet(Known)]
<1>1. removals[p].at \in {"claimed", "compare"} /\ Lifecycle!Removing(p) /\ claim' = claim
      /\ (~Lifecycle!Alive(removals[p].of) \/ removals[p].of = p)
  BY DEF Lifecycle!Compare, Lifecycle!Removing, NamedInv, DeadOrOwn, Past
<1>2. ASSUME NEW at \in {"failed", "delete", "unlink", "kept"}, Lifecycle!Removal(p, at), Named'
      PROVE  NamedInv' /\ removals' \in [Processes -> RemovalSet(Known)]
  BY <1>1, <1>2, RemovalNames, RemovalType DEF RemovalAts
\* The name in hand is that of no Supervisor that this removal is for.
<1>3. ASSUME ~crossed, NEW s \in Lifecycle!Supervisors, Serving(s)
      PROVE  \/ state = s
             \/ claim = s /\ state = Lifecycle!None /\ removals[p].at = "claimed" /\ removals[p].of # s
  <2>1. CASE state # s
    <3>1. /\ claim = s /\ state = Lifecycle!None
          /\ removals[p].at = "claimed"
      BY <1>1, <1>3, <2>1, ServingIs DEF NamedInv, Named
    <3>2. Lifecycle!Alive(s) /\ ~Lifecycle!Removing(s)
      BY <1>3, ServingIs
    <3> QED BY <1>1, <3>1, <3>2
  <2> QED BY <2>1
<1>4. CASE claim = removals[p].of /\ Lifecycle!Removal(p, "delete") /\ UNCHANGED state
  <2>1. Named'
    BY <1>1, <1>3, <1>4 DEF Named, Serving
  <2> QED BY <1>1, <1>2, <1>4, <2>1 DEF LifecycleTypeInv
<1>5. CASE claim = Lifecycle!None /\ Lifecycle!Removal(p, "failed") /\ UNCHANGED state
  <2>1. Named'
    BY <1>1, <1>3, <1>5, NoneApart DEF Named, Serving
  <2> QED BY <1>1, <1>2, <1>5, <2>1 DEF LifecycleTypeInv
<1>6. CASE removals[p].at = "claimed" /\ state = Lifecycle!None /\ Lifecycle!Removal(p, "unlink") /\ state' = claim
  <2>1. Named'
    BY <1>1, <1>3, <1>6, NoneApart DEF Named, Serving
  <2> QED BY <1>1, <1>2, <1>6, <2>1 DEF LifecycleTypeInv
<1>7. CASE ~(removals[p].at = "claimed" /\ state = Lifecycle!None) /\ Lifecycle!Removal(p, "kept") /\ UNCHANGED state
  <2>1. Named'
    BY <1>1, <1>3, <1>7 DEF Named, Serving
  <2> QED BY <1>1, <1>2, <1>7, <2>1 DEF LifecycleTypeInv
<1> QED BY <1>4, <1>5, <1>6, <1>7 DEF Lifecycle!Compare

LEMMA DeleteNames ==
  ASSUME LifecycleTypeInv, NamedInv, NEW p \in Processes, Lifecycle!Delete(p), UNCHANGED <<supervisors, commands, crossed>>
  PROVE  NamedInv' /\ state' \in Known /\ claim' \in Known /\ removals' \in [Processes -> RemovalSet(Known)]
<1>1. removals[p].at \in {"delete", "unlink"} /\ Lifecycle!Removing(p) /\ state' = state /\ claim' = Lifecycle!None /\ Lifecycle!None \in Known
  BY DEF Lifecycle!Delete, Lifecycle!Removing, Known
<1>2. PICK at \in {"failed", "removed", "kept"} : Lifecycle!Removal(p, at)
  BY DEF Lifecycle!Delete
<1>3. Named'
  <2>1. ASSUME ~crossed, NEW s \in Lifecycle!Supervisors, Serving(s) PROVE state' = s
    BY <1>1, <2>1, ServingIs
  <2> QED BY <2>1 DEF Named, Serving
<1>4. NamedInv'
  BY <1>1, <1>2, <1>3, RemovalNames DEF RemovalAts
<1> QED BY <1>1, <1>2, <1>4, RemovalType DEF LifecycleTypeInv, RemovalAts

LEMMA RemovalStepHolds ==
  ASSUME LifecycleInv, NEW p \in Processes, Lifecycle!RemovalStep(p)
  PROVE  LifecycleInv'
<1> USE DEF LifecycleInv
<1>1. /\ UNCHANGED <<supervisors, commands, crossed, package, mixed, spent>>
      /\ Lifecycle!Look(p) \/ Lifecycle!Rename(p) \/ Lifecycle!Compare(p) \/ Lifecycle!Delete(p)
  BY DEF Lifecycle!RemovalStep
<1>2. NamedInv' /\ state' \in Known /\ claim' \in Known /\ removals' \in [Processes -> RemovalSet(Known)]
  BY <1>1, LookNames, RenameNames, CompareNames, DeleteNames
<1>3. Known' = Known /\ Aged
  BY <1>1, AgedSame
<1>4. LifecycleTypeInv'
  BY <1>1, <1>2, <1>3 DEF LifecycleTypeInv
<1>5. UpdateInv'
  BY <1>1, <1>3, UpdateStays
<1> QED BY <1>2, <1>4, <1>5

------------------------
(* Supervisors. *)

\* A Supervisor that comes closer to its end, and with it the removal it was at.
LEMMA Declines ==
  ASSUME LifecycleTypeInv, NamedInv, Aged, NEW s \in Lifecycle!Supervisors, UNCHANGED Lifecycle!Files,
         \A t \in Lifecycle!Supervisors : t # s => supervisors'[t] = supervisors[t],
         Serving(s)' => Serving(s), Lifecycle!Listening(s)' => Lifecycle!Listening(s),
         \/ UNCHANGED <<removals, crossed>> /\ (Lifecycle!Removing(s) => supervisors'[s].phase = "removing")
         \/ Lifecycle!CutOff(s),
         CommandRemoves'
  PROVE  NamedInv' /\ removals' \in [Processes -> RemovalSet(Known')]
<1>1. s \in Processes /\ state' = state /\ claim' = claim
  BY DEF Processes, Lifecycle!Files
<1>2. \/ UNCHANGED <<removals, crossed>> /\ (Lifecycle!Removing(s) => supervisors'[s].phase = "removing")
      \/ /\ crossed' = (crossed \/ Lifecycle!Removing(s)) /\ removals'[s] = Lifecycle!NoRemoval
         /\ \A p \in Processes : p # s => removals'[p] = removals[p]
  BY <1>1, NoRemovalType, AgedKnown DEF Lifecycle!CutOff
<1>3. removals' \in [Processes -> RemovalSet(Known')]
  BY <1>1, NoRemovalType, TypesGrow, AgedKnown DEF Lifecycle!CutOff
<1>4. /\ crossed => crossed'
      /\ \A p \in Processes :
           \/ removals'[p] = removals[p]
           \/ p = s /\ removals'[p] = Lifecycle!NoRemoval /\ (crossed' <=> crossed \/ Lifecycle!Removing(s))
  <2>1. CASE UNCHANGED <<removals, crossed>>
    BY <2>1
  <2>2. CASE /\ crossed' = (crossed \/ Lifecycle!Removing(s)) /\ removals'[s] = Lifecycle!NoRemoval
             /\ \A p \in Processes : p # s => removals'[p] = removals[p]
    BY <2>2
  <2> QED BY <1>2, <2>1, <2>2
<1>5. ~Lifecycle!Removing(s)' \/ supervisors'[s].phase = "removing"
  BY <1>2 DEF Lifecycle!Removing, Lifecycle!NoRemoval
<1>6. \A p \in Processes : (Lifecycle!Removing(p)' => Lifecycle!Removing(p) /\ removals'[p] = removals[p]) /\ (Past(p)' => Past(p) /\ removals'[p] = removals[p])
  BY <1>4 DEF Lifecycle!Removing, Past, Lifecycle!NoRemoval
<1>7. OneListens'
  BY DEF NamedInv, OneListens, Lifecycle!Listening
<1>8. OneRemoves'
  BY <1>4, <1>6 DEF NamedInv, OneRemoves
<1>9. OwnRemoval'
  BY <1>5, <1>6 DEF NamedInv, OwnRemoval, Processes
<1>10. DeadOrOwn'
  <2>1. \A p \in Processes : removals[p].of \in Known
    BY DEF LifecycleTypeInv, RemovalSet
  <2> QED BY <1>6, <2>1, DeadStays DEF NamedInv, DeadOrOwn
<1>11. Named'
  <2>1. ASSUME ~crossed', NEW t \in Lifecycle!Supervisors, Serving(t)'
        PROVE  \/ state' = t
               \/ claim' = t /\ state' = Lifecycle!None /\ \E p \in Processes : removals'[p].at = "claimed"
    <3>1. ~crossed /\ Serving(t)
      BY <1>4, <2>1 DEF Serving
    <3>2. CASE state = t
      BY <1>1, <3>2
    <3>3. CASE state # t
      <4>1. /\ claim = t /\ state = Lifecycle!None
            /\ \E p \in Processes : removals[p].at = "claimed"
        BY <3>1, <3>3 DEF NamedInv, Named
      <4>2. PICK p \in Processes : removals[p].at = "claimed"
        BY <4>1
      <4>3. Lifecycle!Removing(p)
        BY <4>2 DEF Lifecycle!Removing
      <4>4. removals'[p] = removals[p]
        BY <1>4, <2>1, <4>3
      <4> QED BY <1>1, <4>1, <4>2, <4>4
    <3> QED BY <3>2, <3>3
  <2> QED BY <2>1 DEF Named
<1> QED BY <1>3, <1>7, <1>8, <1>9, <1>10, <1>11 DEF NamedInv

LEMMA SignalNames ==
  ASSUME LifecycleTypeInv, NamedInv, NEW s \in Lifecycle!Supervisors, Lifecycle!Signal(s), UNCHANGED Lifecycle!Files, CommandRemoves'
  PROVE  NamedInv' /\ Aged /\ removals' \in [Processes -> RemovalSet(Known')]
<1>1. supervisors' = Lifecycle!Signalled(s)
  BY DEF Lifecycle!Signal
<1>2. /\ \A t \in Lifecycle!Supervisors : t # s => supervisors'[t] = supervisors[t]
      /\ \/ supervisors'[s].phase \in {supervisors[s].phase, "gone"}
         \/ supervisors'[s].phase = "closing" /\ supervisors[s].phase = "ready"
         \/ supervisors'[s].phase = "reclosing" /\ supervisors[s].phase = "stuck"
  BY <1>1, SignalledType
<1>3. Aged
  BY <1>1, AgedSignalled
<1>4. (Serving(s)' => Serving(s)) /\ (Lifecycle!Listening(s)' => Lifecycle!Listening(s))
  BY <1>2 DEF Serving, Lifecycle!Listening
<1>5. \/ UNCHANGED <<removals, crossed>> /\ (Lifecycle!Removing(s) => supervisors'[s].phase = "removing")
      \/ Lifecycle!CutOff(s)
  BY <1>1, <1>2 DEF Lifecycle!Signal, NamedInv, OwnRemoval
<1> QED BY <1>2, <1>3, <1>4, <1>5, Declines

\* What a step of a Supervisor leaves alone.
LEMMA SupervisorHolds ==
  ASSUME LifecycleInv, Aged, state' \in Known', claim' = claim, removals' \in [Processes -> RemovalSet(Known')],
         UNCHANGED <<commands, package, mixed>>, spent' \in SpentSet, spent'.updates = spent.updates,
         NamedInv'
  PROVE  LifecycleInv'
<1>1. Known \subseteq Known' /\ supervisors' \in [Lifecycle!Supervisors -> SupervisorSet]
  BY AgedKnown DEF LifecycleInv, Aged
<1>2. commands' \in [Clients -> CommandSet(Known')] /\ claim' \in Known'
  BY <1>1, TypesGrow DEF LifecycleInv
<1>3. LifecycleTypeInv'
  BY <1>1, <1>2 DEF LifecycleInv, LifecycleTypeInv
<1> QED BY <1>3, UpdateStays DEF LifecycleInv

LEMMA SameCommandsRemove ==
  ASSUME NamedInv, commands' = commands, \A c \in Clients : removals'[c] = removals[c]
  PROVE  CommandRemoves'
BY DEF NamedInv, CommandRemoves

\* A Supervisor goes from one phase to another, and its removal is as it was.
LEMMA PhaseHolds ==
  ASSUME LifecycleInv, NEW s \in Lifecycle!Supervisors, NEW phase \in Phases \ {"unborn"}, Lifecycle!Phase(s, phase),
         supervisors[s].phase \notin {"unborn", "gone"},
         phase \in {"ready", "closing"} => Serving(s),
         phase \in {"listening", "ready", "closing"} => Lifecycle!Listening(s),
         ~Lifecycle!Removing(s), Lifecycle!Fault \/ Lifecycle!NoFault,
         UNCHANGED <<Lifecycle!Files, removals, crossed, commands, package, mixed>>
  PROVE  LifecycleInv'
<1>1. Aged /\ supervisors'[s].phase = phase /\ \A t \in Lifecycle!Supervisors : t # s => supervisors'[t] = supervisors[t]
  BY AgedPhase, PhaseType DEF LifecycleInv
<1>2. (Serving(s)' => Serving(s)) /\ (Lifecycle!Listening(s)' => Lifecycle!Listening(s))
  BY <1>1 DEF Serving, Lifecycle!Listening
<1>3. CommandRemoves'
  BY SameCommandsRemove DEF LifecycleInv
<1>4. NamedInv' /\ removals' \in [Processes -> RemovalSet(Known')]
  BY <1>1, <1>2, <1>3, Declines DEF LifecycleInv
<1>5. state' \in Known' /\ claim' = claim
  BY <1>1, AgedKnown, TypesGrow DEF LifecycleInv, Lifecycle!Files
<1>6. spent' \in SpentSet /\ spent'.updates = spent.updates
  BY FaultType DEF LifecycleInv
<1> QED BY <1>1, <1>4, <1>5, <1>6, SupervisorHolds

LEMMA ListenHolds == ASSUME LifecycleInv, NEW s \in Lifecycle!Supervisors, Lifecycle!Listen(s) PROVE LifecycleInv'
<1>1. /\ supervisors[s].phase = "starting" /\ UNCHANGED <<Lifecycle!Files, removals, crossed, commands, package, mixed>>
      /\ ~Lifecycle!Removing(s) /\ (Lifecycle!Fault \/ Lifecycle!NoFault)
  BY DEF Lifecycle!Listen, LifecycleInv, NamedInv, OwnRemoval
<1>2. CASE Lifecycle!Phase(s, "gone")
  BY <1>1, <1>2, PhaseHolds DEF Phases
<1>3. CASE Lifecycle!Phase(s, "listening") /\ ~\E t \in Lifecycle!Supervisors : Lifecycle!Listening(t)
  <2>1. "listening" \in Phases
    BY DEF Phases
  <2>2. /\ Aged /\ supervisors'[s].phase = "listening"
        /\ \A t \in Lifecycle!Supervisors : t # s => supervisors'[t] = supervisors[t]
    BY <1>1, <1>3, <2>1, AgedPhase, PhaseType DEF LifecycleInv
  <2>3. OneListens'
    BY <1>3, <2>2 DEF OneListens, Lifecycle!Listening
  <2>4. /\ \A t \in Lifecycle!Supervisors : (Serving(t)' <=> Serving(t)) /\ (Lifecycle!Alive(t)' <=> Lifecycle!Alive(t))
        /\ \A p \in Processes : (Lifecycle!Removing(p)' <=> Lifecycle!Removing(p)) /\ (Past(p)' <=> Past(p))
    BY <1>1, <2>2 DEF Serving, Lifecycle!Alive, Lifecycle!Removing, Past
  <2>5. OneRemoves' /\ OwnRemoval' /\ CommandRemoves' /\ Named'
    BY <1>1, <2>2, <2>4 DEF LifecycleInv, NamedInv, OneRemoves, OwnRemoval, CommandRemoves, Named,
       Processes, Lifecycle!Files
  <2>6. DeadOrOwn'
    <3>1. \A p \in Processes : removals[p].of \in Known
      BY DEF LifecycleInv, LifecycleTypeInv, RemovalSet
    <3> QED BY <1>1, <2>2, <2>4, <3>1, DeadStays DEF LifecycleInv, NamedInv, DeadOrOwn
  <2>7. removals' \in [Processes -> RemovalSet(Known')] /\ state' \in Known' /\ claim' = claim
    BY <1>1, <2>2, AgedKnown, TypesGrow DEF LifecycleInv, Lifecycle!Files
  <2>8. spent' \in SpentSet /\ spent'.updates = spent.updates
    BY <1>1, FaultType DEF LifecycleInv
  <2> QED BY <1>1, <2>2, <2>3, <2>5, <2>6, <2>7, <2>8, SupervisorHolds DEF NamedInv
<1> QED BY <1>2, <1>3 DEF Lifecycle!Listen

LEMMA WriteStateHolds == ASSUME LifecycleInv, NEW s \in Lifecycle!Supervisors, Lifecycle!WriteState(s) PROVE LifecycleInv'
<1>1. /\ supervisors[s].phase = "listening" /\ UNCHANGED <<claim, removals, crossed, commands, package, mixed>>
      /\ ~Lifecycle!Removing(s) /\ (Lifecycle!Fault \/ Lifecycle!NoFault)
  BY DEF Lifecycle!WriteState, LifecycleInv, NamedInv, OwnRemoval
<1>2. CASE Lifecycle!Phase(s, "gone") /\ UNCHANGED state
  BY <1>1, <1>2, PhaseHolds DEF Phases, Lifecycle!Files
<1>3. ASSUME NEW phase \in {"closing", "ready"}, Lifecycle!Phase(s, phase), state' = s PROVE LifecycleInv'
  <2>1. phase \in Phases
    BY DEF Phases
  <2>2. /\ Aged /\ supervisors'[s].phase = phase
        /\ \A t \in Lifecycle!Supervisors : t # s => supervisors'[t] = supervisors[t]
    BY <1>1, <1>3, <2>1, AgedPhase, PhaseType DEF LifecycleInv
  <2>3. OneListens'
    BY <1>1, <2>2 DEF LifecycleInv, NamedInv, OneListens, Lifecycle!Listening
  <2>4. /\ \A t \in Lifecycle!Supervisors : Lifecycle!Alive(t)' <=> Lifecycle!Alive(t)
        /\ \A p \in Processes : (Lifecycle!Removing(p)' <=> Lifecycle!Removing(p)) /\ (Past(p)' <=> Past(p))
    BY <1>1, <2>2 DEF Lifecycle!Alive, Lifecycle!Removing, Past
  <2>5. OneRemoves' /\ OwnRemoval' /\ CommandRemoves'
    BY <1>1, <2>2, <2>4 DEF LifecycleInv, NamedInv, OneRemoves, OwnRemoval, CommandRemoves,
       Processes
  <2>6. DeadOrOwn'
    <3>1. \A p \in Processes : removals[p].of \in Known
      BY DEF LifecycleInv, LifecycleTypeInv, RemovalSet
    <3> QED BY <1>1, <2>2, <2>4, <3>1, DeadStays DEF LifecycleInv, NamedInv, DeadOrOwn
  <2>7. Named'
    <3>1. ASSUME NEW t \in Lifecycle!Supervisors, Serving(t)' PROVE t = s
      <4>1. Lifecycle!Listening(s)' /\ Lifecycle!Listening(t)'
        BY <2>2, <3>1 DEF Lifecycle!Listening, Serving
      <4> QED BY <2>3, <4>1 DEF OneListens
    <3> QED BY <1>3, <3>1 DEF Named
  <2>8. removals' \in [Processes -> RemovalSet(Known')] /\ state' \in Known' /\ claim' = claim
    BY <1>1, <1>3, <2>2, AgedKnown, TypesGrow DEF LifecycleInv, Known
  <2>9. spent' \in SpentSet /\ spent'.updates = spent.updates
    BY <1>1, FaultType DEF LifecycleInv
  <2> QED BY <1>1, <2>2, <2>3, <2>5, <2>6, <2>7, <2>8, <2>9, SupervisorHolds DEF NamedInv
<1> QED BY <1>2, <1>3 DEF Lifecycle!WriteState

LEMMA CloseHolds == ASSUME LifecycleInv, NEW s \in Lifecycle!Supervisors, Lifecycle!Close(s) PROVE LifecycleInv'
<1>1. /\ supervisors[s].phase \in {"closing", "reclosing"}
      /\ UNCHANGED <<Lifecycle!Files, removals, crossed, commands, package, mixed>>
      /\ ~Lifecycle!Removing(s) /\ (Lifecycle!Fault \/ Lifecycle!NoFault)
  BY DEF Lifecycle!Close, LifecycleInv, NamedInv, OwnRemoval
<1>2. PICK phase \in {"closed", "stuck", "ready"} :
        Lifecycle!Phase(s, phase) /\ (phase = "ready" => supervisors[s].phase = "closing")
  BY DEF Lifecycle!Close
<1> QED BY <1>1, <1>2, PhaseHolds DEF Phases, Serving, Lifecycle!Listening

LEMMA ExitHolds == ASSUME LifecycleInv, NEW s \in Lifecycle!Supervisors, Lifecycle!Exit(s) PROVE LifecycleInv'
<1>1. /\ supervisors[s].phase = "removing" /\ ~Lifecycle!Removing(s) /\ Lifecycle!NoFault
      /\ UNCHANGED <<Lifecycle!Files, removals, crossed, commands, package, mixed>>
  BY DEF Lifecycle!Exit, Lifecycle!NoFault
<1>2. PICK phase \in {"stuck", "gone"} : Lifecycle!Phase(s, phase)
  BY DEF Lifecycle!Exit
<1> QED BY <1>1, <1>2, PhaseHolds DEF Phases

LEMMA CrashHolds == ASSUME LifecycleInv, NEW s \in Lifecycle!Supervisors, Lifecycle!Crash(s) PROVE LifecycleInv'
<1>1. /\ supervisors[s].phase \notin {"unborn", "gone"} /\ Lifecycle!Phase(s, "gone") /\ Lifecycle!CutOff(s)
      /\ UNCHANGED <<Lifecycle!Files, commands, package, mixed>>
  BY DEF Lifecycle!Crash, Lifecycle!Alive
<1>2. "gone" \in Phases
  BY DEF Phases
<1>3. Aged /\ supervisors'[s].phase = "gone" /\ \A t \in Lifecycle!Supervisors : t # s => supervisors'[t] = supervisors[t]
  BY <1>1, <1>2, AgedPhase, PhaseType DEF LifecycleInv
<1>4. ~Serving(s)' /\ ~Lifecycle!Listening(s)'
  BY <1>3 DEF Serving, Lifecycle!Listening
<1>5. CommandRemoves'
  <2>1. s \in Processes /\ \A c \in Clients : c \in Processes /\ c # s
    BY NoneApart DEF Processes
  <2>2. \A c \in Clients : removals'[c] = removals[c]
    BY <1>1, <1>3, <2>1, NoRemovalType, AgedKnown DEF Lifecycle!CutOff, LifecycleInv
  <2> QED BY <1>1, <2>2, SameCommandsRemove DEF LifecycleInv
<1>6. NamedInv' /\ removals' \in [Processes -> RemovalSet(Known')]
  BY <1>1, <1>3, <1>4, <1>5, Declines DEF LifecycleInv
<1>7. state' \in Known' /\ claim' = claim
  BY <1>1, <1>3, AgedKnown, TypesGrow DEF LifecycleInv, Lifecycle!Files
<1>8. spent' \in SpentSet /\ spent'.updates = spent.updates
  BY UseType DEF LifecycleInv, Lifecycle!Crash
<1> QED BY <1>1, <1>3, <1>6, <1>7, <1>8, SupervisorHolds

\* A removal begins, and with ~crossed no other one runs.
LEMMA BeginNames ==
  ASSUME LifecycleTypeInv, NamedInv, Aged, NEW p \in Processes, NEW of \in Known, ~Lifecycle!Removing(p), Lifecycle!BeginRemoval(p, of),
         UNCHANGED Lifecycle!Files,
         \A s \in Lifecycle!Supervisors : s # p => supervisors'[s] = supervisors[s],
         \A s \in Lifecycle!Supervisors : s = p => supervisors'[s].phase = "removing" /\ of = s,
         CommandRemoves'
  PROVE  NamedInv' /\ removals' \in [Processes -> RemovalSet(Known')]
<1>1. /\ removals' \in [Processes -> RemovalSet(Known')]
      /\ removals'[p] = [at |-> "look", of |-> of]
      /\ \A q \in Processes : q # p => removals'[q] = removals[q]
  <2>1. Known \subseteq Known'
    BY AgedKnown
  <2> QED BY <2>1, BeginRemovalType
<1>2. crossed' <=> crossed \/ \E q \in Processes : q # p /\ Lifecycle!Removing(q)
  BY DEF Lifecycle!BeginRemoval, LifecycleTypeInv
<1>3. /\ ~Past(p)' /\ \A q \in Processes : Past(q)' => Past(q) /\ q # p /\ removals'[q] = removals[q]
      /\ \A q \in Processes : q # p => (Lifecycle!Removing(q)' <=> Lifecycle!Removing(q))
  BY <1>1 DEF Past, Lifecycle!Removing
<1>4. \A s \in Lifecycle!Supervisors : (Serving(s)' => Serving(s) /\ s # p) /\ (Lifecycle!Listening(s)' => Lifecycle!Listening(s))
  BY DEF Serving, Lifecycle!Listening
<1>5. OneListens'
  BY <1>4 DEF NamedInv, OneListens
<1>6. OneRemoves'
  BY <1>2, <1>3 DEF OneRemoves
<1>7. OwnRemoval'
  <2>1. ASSUME NEW s \in Lifecycle!Supervisors, Lifecycle!Removing(s)' PROVE supervisors'[s].phase = "removing" /\ removals'[s].of = s
    <3>1. CASE s = p
      BY <1>1, <3>1
    <3>2. CASE s # p
      BY <1>1, <1>3, <2>1, <3>2 DEF NamedInv, OwnRemoval, Processes
    <3> QED BY <3>1, <3>2
  <2> QED BY <2>1 DEF OwnRemoval
<1>8. DeadOrOwn'
  <2>1. \A q \in Processes : removals[q].of \in Known
    BY DEF LifecycleTypeInv, RemovalSet
  <2> QED BY <1>3, <2>1, DeadStays DEF NamedInv, DeadOrOwn
<1>9. Named'
  <2>1. ASSUME ~crossed', NEW s \in Lifecycle!Supervisors, Serving(s)' PROVE state' = s
    <3>1. ~crossed /\ Serving(s)
      BY <1>2, <1>4, <2>1
    <3>2. \A q \in Processes : removals[q].at # "claimed"
      BY <1>2, <2>1 DEF Lifecycle!Removing
    <3> QED BY <3>1, <3>2 DEF NamedInv, Named, Lifecycle!Files
  <2> QED BY <2>1 DEF Named
<1> QED BY <1>1, <1>5, <1>6, <1>7, <1>8, <1>9 DEF NamedInv

LEMMA RemoveOwnedStateHolds == ASSUME LifecycleInv, NEW s \in Lifecycle!Supervisors, Lifecycle!RemoveOwnedState(s) PROVE LifecycleInv'
<1>1. /\ supervisors[s].phase = "closed" /\ Lifecycle!BeginRemoval(s, s) /\ Lifecycle!Phase(s, "removing")
      /\ UNCHANGED <<Lifecycle!Files, commands, package, mixed, spent>> /\ ~Lifecycle!Removing(s)
  BY DEF Lifecycle!RemoveOwnedState, LifecycleInv, NamedInv, OwnRemoval
<1>2. "removing" \in Phases /\ s \in Processes /\ s \in Known
  BY <1>1 DEF Phases, Processes, Known
<1>3. Aged /\ supervisors'[s].phase = "removing" /\ \A t \in Lifecycle!Supervisors : t # s => supervisors'[t] = supervisors[t]
  BY <1>1, <1>2, AgedPhase, PhaseType DEF LifecycleInv
<1>4. CommandRemoves'
  <2>1. \A c \in Clients : c \in Processes /\ c # s
    BY NoneApart DEF Processes
  <2>2. \A c \in Clients : removals'[c] = removals[c]
    BY <1>1, <1>2, <1>3, <2>1, BeginRemovalType, AgedKnown DEF LifecycleInv
  <2> QED BY <1>1, <2>2, SameCommandsRemove DEF LifecycleInv
<1>5. NamedInv' /\ removals' \in [Processes -> RemovalSet(Known')]
  BY <1>1, <1>2, <1>3, <1>4, BeginNames DEF LifecycleInv
<1>6. state' \in Known' /\ claim' = claim
  BY <1>1, <1>3, AgedKnown, TypesGrow DEF LifecycleInv, Lifecycle!Files
<1> QED BY <1>1, <1>3, <1>5, <1>6, SupervisorHolds DEF LifecycleInv, LifecycleTypeInv

------------------------
(* Commands. *)

\* What a step of a command comes to.
LEMMA CommandHolds ==
  ASSUME LifecycleInv, Aged, NEW c \in Clients, Moves(c), Follows(c),
         UNCHANGED <<Lifecycle!Files, package, mixed>>, removals' \in [Processes -> RemovalSet(Known')],
         spent' \in SpentSet, spent'.updates = spent.updates,
         Shaped(commands'[c]), Ends(commands[c])', NamedInv'
  PROVE  LifecycleInv'
<1>1. Known \subseteq Known' /\ supervisors' \in [Lifecycle!Supervisors -> SupervisorSet]
  BY AgedKnown DEF LifecycleInv, Aged
<1>2. state' \in Known' /\ claim' \in Known'
  BY <1>1, TypesGrow DEF LifecycleInv, Lifecycle!Files
<1>3. LifecycleTypeInv'
  BY <1>1, <1>2 DEF LifecycleInv, LifecycleTypeInv, Moves
<1> QED BY <1>3, UpdateFollows DEF LifecycleInv

\* The names do not change with a command that is at no removal.
LEMMA CommandNames ==
  ASSUME LifecycleInv, NEW c \in Clients, Moves(c), UNCHANGED <<supervisors, Lifecycle!Files, removals, crossed>>,
         removals[c].at # "none" => commands'[c].pc \in {"cleared", "removing"}
  PROVE  /\ NamedInv' /\ Aged /\ removals' \in [Processes -> RemovalSet(Known')]
<1>1. Aged /\ Known' = Known
  BY AgedSame DEF LifecycleInv
<1>2. \A d \in Clients : removals[d].at # "none" => commands'[d].pc \in {"cleared", "removing"}
  BY DEF LifecycleInv, NamedInv, CommandRemoves, Moves
<1> QED BY <1>1, <1>2, NamedStays DEF LifecycleInv, LifecycleTypeInv

\* A command that changes nothing but itself.
LEMMA CommandOnlyHolds ==
  ASSUME LifecycleInv, NEW c \in Clients, Moves(c), Follows(c), Lifecycle!CommandOnly,
         commands[c].pc \notin {"cleared", "removing"},
         spent' \in SpentSet, spent'.updates = spent.updates,
         Shaped(commands'[c]), Ends(commands[c])'
  PROVE  LifecycleInv'
<1>1. removals[c].at = "none"
  BY DEF LifecycleInv, NamedInv, CommandRemoves
<1>2. NamedInv' /\ Aged /\ removals' \in [Processes -> RemovalSet(Known')]
  BY <1>1, CommandNames DEF Lifecycle!CommandOnly
<1> QED BY <1>2, CommandHolds DEF Lifecycle!CommandOnly

LEMMA IdleIs ==
  /\ Stage(Lifecycle!Idle) = "none" /\ Shaped(Lifecycle!Idle) /\ Lifecycle!Idle.pc = "idle" /\ Ends(Lifecycle!Idle) /\ Lifecycle!Idle.bound = Lifecycle!None
BY DEF Lifecycle!Idle, Stage, Shaped, Ends, Installing, StoppingAt, StartedAt, HaltingAt,
   RevertedAt,
   StopAt, StartAt

\* The end of a start or a shutdown is that of its part of the update.
LEMMA EndedShape ==
  ASSUME LifecycleInv, NEW c \in Clients, Moves(c), NEW outcome \in Outcomes,
         commands[c].back = "idle" => commands'[c] = Lifecycle!Idle,
         commands[c].back # "idle" =>
              /\ commands'[c].pc = commands[c].back /\ commands'[c].outcome = outcome
              /\ commands'[c].back = commands[c].back /\ commands'[c].probing = commands[c].probing
              /\ commands'[c].found = commands[c].found /\ commands'[c].bound = commands[c].bound,
         commands[c].pc \in (StartAt \union StopAt) \ {"find", "poll", "meet"},
         outcome = "ok" /\ commands[c].pc \in StartAt => commands[c].found # Lifecycle!None,
         outcome = "ok" /\ commands[c].pc \in StopAt => ~Lifecycle!Alive(commands[c].bound)'
  PROVE  Follows(c) /\ Shaped(commands'[c]) /\ Ends(commands[c])'
<1>1. commands[c] \in CommandSet(Known) /\ Shaped(commands[c])
  BY DEF LifecycleInv, LifecycleTypeInv, UpdateInv
<1>2. CASE commands[c].back = "idle"
  <2>1. commands'[c] = Lifecycle!Idle
    BY <1>2
  <2>2. Ends(commands[c])'
    BY <2>1, IdleIs DEF Ends, Lifecycle!Idle
  <2> QED BY <2>1, <2>2, IdleIs DEF Follows
<1>3. CASE commands[c].back # "idle"
  <2>1. /\ commands'[c].pc = commands[c].back /\ commands'[c].back = commands[c].back
        /\ commands'[c].probing = commands[c].probing /\ commands'[c].outcome = outcome
        /\ commands'[c].found = commands[c].found /\ commands'[c].bound = commands[c].bound
    BY <1>3
  <2>2. /\ ~commands[c].probing
        /\ \/ commands[c].pc \in StartAt /\ commands[c].back \in {"restored", "reverted"}
           \/ commands[c].pc \in StopAt /\ commands[c].back \in {"stopped", "halted"}
    BY <1>1, <1>3 DEF Shaped, StartAt, StopAt, DiscoverAt
  <2>3. Shaped(commands'[c])
    BY <2>1, <2>2 DEF Shaped, StartAt, StopAt, DiscoverAt, Installing
  <2>4. Ends(commands[c])'
    BY <2>1, <2>2 DEF Ends
  <2>5. Stage(commands'[c]) = Stage(commands[c])
    BY <2>1, <2>2 DEF Stage, Installing, StoppingAt, StartedAt, HaltingAt, RevertedAt, StopAt,
       StartAt
  <2>6. Looked(commands'[c]) => Looked(commands[c])
    BY <2>1 DEF Looked, StartAt, StopAt
  <2> QED BY <2>1, <2>3, <2>4, <2>5, <2>6 DEF Follows
<1> QED BY <1>2, <1>3

\* On with a start or a shutdown.
LEMMA OnwardShape ==
  ASSUME LifecycleInv, NEW c \in Clients, Moves(c),
         \/ commands[c].pc \in StartAt /\ commands'[c].pc \in StartAt
         \/ commands[c].pc \in StopAt /\ commands'[c].pc \in StopAt,
         commands'[c].back = commands[c].back, commands'[c].bound = commands[c].bound,
         commands'[c].probing => commands'[c].pc \in DiscoverAt,
         commands'[c].pc \in {"poll", "polled"} => commands'[c].child # Lifecycle!None,
         Looked(commands'[c]) =>
            \/ Looked(commands[c]) /\ commands'[c].found = commands[c].found
            \/ Lifecycle!Alive(commands'[c].found),
         commands'[c].pc \in {"ask", "force", "wait", "removing"} /\ commands[c].bound # Lifecycle!None
            => commands[c].bound = commands'[c].found,
         commands'[c].pc = "removing" => ~Lifecycle!Alive(commands[c].bound)'
  PROVE  Follows(c) /\ Shaped(commands'[c]) /\ Ends(commands[c])'
<1>1. Shaped(commands[c])
  BY DEF LifecycleInv, UpdateInv
<1>2. Shaped(commands'[c])
  BY <1>1 DEF Shaped, StartAt, StopAt, DiscoverAt, Installing
<1>3. Ends(commands[c])'
  BY DEF Ends, StartAt, StopAt
<1>4. Stage(commands'[c]) = Stage(commands[c])
  BY DEF Stage, Installing, StoppingAt, StartedAt, HaltingAt, RevertedAt, StopAt, StartAt
<1> QED BY <1>2, <1>3, <1>4 DEF Follows

LEMMA MovesMore ==
  ASSUME LifecycleTypeInv, Aged, NEW c \in Clients,
         NEW r, r \in CommandSet(Known'), Lifecycle!Command(c, r)
  PROVE  Moves(c) /\ commands'[c] = r
BY MovesCommand

LEMMA BeginHolds == ASSUME LifecycleInv, NEW c \in Clients, Lifecycle!Begin(c) PROVE LifecycleInv'
<1> USE DEF LifecycleInv
<1>1. commands[c].pc = "idle" /\ Lifecycle!CommandOnly /\ Aged /\ Known' = Known
  BY AgedSame DEF Lifecycle!Begin, Lifecycle!At, Lifecycle!CommandOnly
<1>2. commands[c].back = "idle" /\ ~commands[c].probing /\ removals[c].at = "none"
  BY <1>1 DEF UpdateInv, Shaped, DiscoverAt, NamedInv, CommandRemoves
<1>3. ASSUME NEW pc \in {"find", "snapshot"}, Lifecycle!Goto(c, pc), Lifecycle!Use("commands", MaxCommands) PROVE LifecycleInv'
  <2>1. /\ Moves(c) /\ commands'[c].pc = pc /\ commands'[c].back = "idle" /\ ~commands'[c].probing
        /\ commands'[c].bound = commands[c].bound
    <3>1. pc \in Pcs
      BY DEF Pcs, Loop
    <3> QED BY <1>1, <1>2, <1>3, <3>1, MovesGoto
  <2>2. Follows(c) /\ Shaped(commands'[c]) /\ Ends(commands[c])'
    BY <2>1 DEF Follows, Stage, Shaped, Ends, Installing, StoppingAt, StartedAt, HaltingAt,
       RevertedAt, StopAt, StartAt
  <2>3. spent' \in SpentSet /\ spent'.updates = spent.updates
    BY <1>3, UseType
  <2> QED BY <1>1, <2>1, <2>2, <2>3, CommandOnlyHolds
<1>4. ASSUME Lifecycle!Goto(c, "before"), Lifecycle!Use("updates", 1) PROVE LifecycleInv'
  <2>1. /\ Moves(c) /\ commands'[c].pc = "before" /\ commands'[c].back = "idle" /\ ~commands'[c].probing
        /\ commands'[c].bound = commands[c].bound
    <3>1. "before" \in Pcs
      BY DEF Pcs, Installing
    <3> QED BY <1>1, <1>2, <1>4, <3>1, MovesGoto
  <2>2. /\ Stage(commands'[c]) = "install" /\ Shaped(commands'[c]) /\ Ends(commands[c])'
    BY <2>1 DEF Stage, Shaped, Ends, Installing, DiscoverAt, StartAt, StopAt
  <2>3. spent' \in SpentSet /\ spent'.updates = 1 /\ spent.updates # 1
    BY <1>4, UseType DEF LifecycleTypeInv, SpentSet
  <2>4. NamedInv' /\ removals' \in [Processes -> RemovalSet(Known')]
    BY <1>1, <1>2, <2>1, CommandNames DEF Lifecycle!CommandOnly
  <2>5. \A d \in Clients : Stage(commands[d]) = "none"
    BY <2>3 DEF UpdateInv, OneUpdate
  <2>6. OneUpdate'
    BY <2>1, <2>3, <2>5 DEF OneUpdate, Moves
  <2>7. \A d \in Clients : Shaped(commands'[d]) /\ Ends(commands[d])'
    BY <1>1, <2>1, <2>2 DEF UpdateInv, Moves, Ends, Lifecycle!Alive, Lifecycle!CommandOnly
  <2>8. \A d \in Clients : Versions(commands[d])'
    BY <2>1, <2>2, <2>5 DEF Versions, Moves
  <2>9. UpdateInv'
    BY <2>6, <2>7, <2>8 DEF UpdateInv
  <2>10. LifecycleTypeInv'
    BY <1>1, <2>1, <2>3, <2>4 DEF LifecycleTypeInv, Lifecycle!CommandOnly, Lifecycle!Files, Moves
  <2> QED BY <2>4, <2>9, <2>10
<1> QED BY <1>3, <1>4 DEF Lifecycle!Begin

\* Where a search is, and what it goes on with: a command stays with what it is at.
Search(pc, next) ==
  \E at \in {<<"find", "clear">>, <<"poll", "polled">>, <<"meet", "met">>, <<"before", "install">>,
             <<"look", "looked">>, <<"relook", "relooked">>, <<"observe", "observed">>,
             <<"reobserve", "reobserved">>} : pc = at[1] /\ next = at[2]

LEMMA SearchStays ==
  ASSUME NEW r, NEW next, NEW pc, NEW to, Search(pc, to), r.pc = pc, next.pc \in {pc, to}, next.back = r.back
  PROVE  Stage(next) = Stage(r)
BY DEF Search, Stage, Installing, StoppingAt, StartedAt, HaltingAt, RevertedAt, StopAt, StartAt

LEMMA DiscoverHolds ==
  ASSUME LifecycleInv, NEW c \in Clients, NEW pc, NEW next, Search(pc, next), Lifecycle!Discover(c, pc, next)
  PROVE  LifecycleInv'
<1> USE DEF LifecycleInv
<1>1. commands[c].pc = pc /\ Lifecycle!CommandOnly /\ Aged /\ Known' = Known
  BY AgedSame DEF Lifecycle!Discover, Lifecycle!At, Lifecycle!CommandOnly
<1>2. commands[c] \in CommandSet(Known') /\ state \in Known' /\ Lifecycle!None \in Known' /\ Shaped(commands[c])
  BY <1>1, CommandKnown DEF UpdateInv
<1>3. /\ pc \in DiscoverAt /\ next \in Pcs /\ next \notin DiscoverAt
      /\ pc \notin {"cleared", "removing", "find"} \/ next = "clear"
      /\ pc \notin {"cleared", "removing"}
  BY DEF Search, DiscoverAt, Pcs, Loop, Installing, StoppingAt, StartedAt, HaltingAt, RevertedAt
<1>4. ASSUME NEW r, r \in CommandSet(Known'), Lifecycle!Command(c, r), r.pc \in {pc, next}, r.back = commands[c].back,
             r.bound = commands[c].bound, r.outcome = commands[c].outcome, r.child = commands[c].child,
             r.probing => r.pc = pc,
             r.found # Lifecycle!None => Lifecycle!Alive(r.found) \/ (r.found = commands[c].found /\ commands[c].probing),
             Lifecycle!Fault \/ Lifecycle!NoFault
      PROVE  LifecycleInv'
  <2>1. Moves(c) /\ commands'[c] = r
    BY <1>1, <1>4, MovesMore
  <2>2. Stage(r) = Stage(commands[c])
    BY <1>1, <1>4, SearchStays
  <2>3. Looked(r) => (Looked(commands[c]) /\ r.found = commands[c].found) \/ Lifecycle!Alive(r.found)
    BY <1>4 DEF Looked
  <2>4. Follows(c)
    BY <1>4, <2>1, <2>2, <2>3 DEF Follows
  <2>5. Shaped(r)
    BY <1>1, <1>2, <1>3, <1>4 DEF Shaped, Search, DiscoverAt, StartAt, StopAt, Installing
  <2>6. r.pc \notin {"removing", "stopped", "halted"}
    BY <1>3, <1>4 DEF Search
  <2>7. Ends(commands[c])'
    BY <2>1, <2>6 DEF Ends
  <2>8. spent' \in SpentSet /\ spent'.updates = spent.updates
    BY <1>4, FaultType
  <2> QED BY <1>1, <1>3, <2>1, <2>4, <2>5, <2>7, <2>8, CommandOnlyHolds
<1>5. CASE ~commands[c].probing /\ Lifecycle!NoFault
           /\ Lifecycle!Command(c, IF Lifecycle!Alive(state) THEN [commands[c] EXCEPT !.probing = TRUE, !.found = state]
                                   ELSE [commands[c] EXCEPT !.pc = next, !.found = Lifecycle!None])
  <2>1. CASE Lifecycle!Alive(state)
    <3> DEFINE r == [commands[c] EXCEPT !.probing = TRUE, !.found = state]
    <3>1. /\ r \in CommandSet(Known') /\ r.pc = pc /\ r.back = commands[c].back /\ r.bound = commands[c].bound
          /\ r.outcome = commands[c].outcome /\ r.found = state /\ r.child = commands[c].child
      BY <1>1, <1>2 DEF CommandSet
    <3>2. Lifecycle!Command(c, r)
      BY <1>5, <2>1
    <3> HIDE DEF r
    <3> QED BY <1>4, <1>5, <2>1, <3>1, <3>2
  <2>2. CASE ~Lifecycle!Alive(state)
    <3> DEFINE r == [commands[c] EXCEPT !.pc = next, !.found = Lifecycle!None]
    <3>1. /\ r \in CommandSet(Known') /\ r.pc = next /\ r.back = commands[c].back /\ r.bound = commands[c].bound
          /\ r.outcome = commands[c].outcome /\ r.found = Lifecycle!None /\ ~r.probing /\ r.child = commands[c].child
      BY <1>2, <1>3, <1>5 DEF CommandSet
    <3>2. Lifecycle!Command(c, r)
      BY <1>5, <2>2
    <3> HIDE DEF r
    <3> QED BY <1>4, <1>5, <3>1, <3>2
  <2> QED BY <2>1, <2>2
<1>6. ASSUME commands[c].probing, NEW found \in {commands[c].found, Lifecycle!None}, Lifecycle!Fault \/ Lifecycle!NoFault,
             Lifecycle!Command(c, [commands[c] EXCEPT !.probing = FALSE, !.pc = next, !.found = found])
      PROVE  LifecycleInv'
  <2> DEFINE r == [commands[c] EXCEPT !.probing = FALSE, !.pc = next, !.found = found]
  <2>1. found \in Known'
    BY <1>2 DEF CommandSet
  <2>2. /\ r \in CommandSet(Known') /\ r.pc = next /\ r.back = commands[c].back /\ r.bound = commands[c].bound
        /\ r.outcome = commands[c].outcome /\ r.found = found /\ ~r.probing /\ r.child = commands[c].child
    BY <1>2, <1>3, <2>1 DEF CommandSet
  <2>3. Lifecycle!Command(c, r)
    BY <1>6
  <2> HIDE DEF r
  <2> QED BY <1>4, <1>6, <2>2, <2>3
<1>7. CASE commands[c].probing
           /\ \E found \in {commands[c].found, Lifecycle!None} :
                /\ (Lifecycle!Fault \/ Lifecycle!NoFault)
                /\ Lifecycle!Command(c, [commands[c] EXCEPT !.probing = FALSE, !.pc = next, !.found = found])
  BY <1>6, <1>7
<1> QED BY <1>5, <1>7 DEF Lifecycle!Discover

------------------------
(* Removals of the commands. *)

LEMMA BeginsHolds ==
  ASSUME LifecycleInv, NEW c \in Clients, NEW of \in Known, Lifecycle!BeginRemoval(c, of),
         NEW pc \in {"cleared", "removing"}, Lifecycle!Goto(c, pc),
         UNCHANGED <<supervisors, Lifecycle!Files, package, mixed>>, Lifecycle!Fault \/ Lifecycle!NoFault,
         \/ pc = "cleared" /\ commands[c].pc = "clear"
         \/ pc = "removing" /\ commands[c].pc \in {"met", "wait"} /\ ~Lifecycle!Alive(commands[c].bound)
            /\ (commands[c].bound # Lifecycle!None => commands[c].bound = commands[c].found)
  PROVE  LifecycleInv'
<1> USE DEF LifecycleInv
<1>1. Aged /\ Known' = Known /\ c \in Processes /\ c \notin Lifecycle!Supervisors
  BY AgedSame, NoneApart DEF Processes
<1>2. removals[c].at = "none" /\ ~Lifecycle!Removing(c)
  BY DEF NamedInv, CommandRemoves, Lifecycle!Removing
<1>3. /\ Moves(c) /\ commands'[c].pc = pc
      /\ commands'[c].back = commands[c].back /\ commands'[c].probing = commands[c].probing
      /\ commands'[c].found = commands[c].found
      /\ commands'[c].bound = commands[c].bound /\ commands'[c].outcome = commands[c].outcome
  BY <1>1, MovesGoto DEF Pcs, Loop
<1>4. CommandRemoves'
  <2>1. \A d \in Clients : d \in Processes /\ (d # c => removals'[d] = removals[d])
    BY <1>1, BeginRemovalType DEF Processes
  <2> QED BY <1>3, <2>1 DEF NamedInv, CommandRemoves, Moves
<1>5. NamedInv' /\ removals' \in [Processes -> RemovalSet(Known')]
  BY <1>1, <1>2, <1>4, BeginNames
<1>6. ~commands[c].probing
  BY DEF UpdateInv, Shaped, DiscoverAt
<1>7. ~Lifecycle!Alive(commands[c].bound)' \/ pc = "cleared"
  BY <1>3 DEF Lifecycle!Alive
<1>8. Follows(c) /\ Shaped(commands'[c]) /\ Ends(commands[c])'
  <2>1. \/ commands[c].pc \in StartAt /\ commands'[c].pc \in StartAt
        \/ commands[c].pc \in StopAt /\ commands'[c].pc \in StopAt
    BY <1>3 DEF StartAt, StopAt
  <2>2. Looked(commands'[c]) => Looked(commands[c]) /\ commands'[c].found = commands[c].found
    BY <1>3 DEF Looked
  <2> QED BY <1>3, <1>6, <1>7, <2>1, <2>2, OnwardShape
<1>9. spent' \in SpentSet /\ spent'.updates = spent.updates
  BY FaultType
<1> QED BY <1>1, <1>3, <1>5, <1>8, <1>9, CommandHolds

\* The end of a start or a shutdown, where its removal, if there is one, is over.
LEMMA EndedHolds ==
  ASSUME LifecycleInv, NEW c \in Clients, NEW outcome \in Outcomes, Lifecycle!Ended(c, outcome), Aged,
         UNCHANGED <<Lifecycle!Files, package, mixed>>, Lifecycle!Fault \/ Lifecycle!NoFault,
         commands[c].pc \in (StartAt \union StopAt) \ {"find", "poll", "meet"},
         outcome = "ok" /\ commands[c].pc \in StartAt => commands[c].found # Lifecycle!None,
         outcome = "ok" /\ commands[c].pc \in StopAt => ~Lifecycle!Alive(commands[c].bound)',
         Moves(c) => NamedInv', removals' \in [Processes -> RemovalSet(Known')]
  PROVE  LifecycleInv'
<1> USE DEF LifecycleInv
<1>1. /\ Moves(c)
      /\ commands[c].back = "idle" => commands'[c] = Lifecycle!Idle
      /\ commands[c].back # "idle" =>
              /\ commands'[c].pc = commands[c].back /\ commands'[c].outcome = outcome
              /\ commands'[c].back = commands[c].back /\ commands'[c].probing = commands[c].probing
              /\ commands'[c].found = commands[c].found /\ commands'[c].bound = commands[c].bound
  BY MovesEnded
<1>2. Follows(c) /\ Shaped(commands'[c]) /\ Ends(commands[c])'
  BY <1>1, EndedShape
<1>3. spent' \in SpentSet /\ spent'.updates = spent.updates
  BY FaultType
<1> QED BY <1>1, <1>2, <1>3, CommandHolds

\* The same, with nothing but the command that changes.
LEMMA EndedOnlyHolds ==
  ASSUME LifecycleInv, NEW c \in Clients, NEW outcome \in Outcomes, Lifecycle!Ended(c, outcome),
         UNCHANGED <<supervisors, Lifecycle!Files, removals, package, crossed, mixed>>, Lifecycle!Fault \/ Lifecycle!NoFault,
         commands[c].pc \in (StartAt \union StopAt) \ {"find", "poll", "meet", "cleared", "removing"},
         outcome = "ok" /\ commands[c].pc \in StartAt => commands[c].found # Lifecycle!None,
         outcome = "ok" /\ commands[c].pc \in StopAt => ~Lifecycle!Alive(commands[c].bound)
  PROVE  LifecycleInv'
<1> USE DEF LifecycleInv
<1>1. Aged /\ Known' = Known
  BY AgedSame
<1>2. removals[c].at = "none"
  BY DEF NamedInv, CommandRemoves
<1>3. Moves(c) => NamedInv'
  BY <1>2, CommandNames
<1>4. removals' \in [Processes -> RemovalSet(Known')]
  BY <1>1 DEF LifecycleTypeInv
<1>5. ~Lifecycle!Alive(commands[c].bound) => ~Lifecycle!Alive(commands[c].bound)'
  <2>1. Lifecycle!Alive(commands[c].bound)' <=> commands'[c].bound # Lifecycle!None /\ supervisors[commands'[c].bound].phase \notin {"unborn", "gone"}
    BY DEF Lifecycle!Alive
  <2>2. Moves(c) /\ (commands'[c] = Lifecycle!Idle \/ commands'[c].bound = commands[c].bound)
    BY <1>1, MovesEnded
  <2> QED BY <2>1, <2>2, IdleIs DEF Lifecycle!Alive
<1> QED BY <1>1, <1>3, <1>4, <1>5, EndedHolds

LEMMA ClearHolds == ASSUME LifecycleInv, NEW c \in Clients, Lifecycle!Clear(c) PROVE LifecycleInv'
<1>1. /\ commands[c].pc = "clear" /\ UNCHANGED <<supervisors, Lifecycle!Files, package, mixed, spent>>
      /\ commands[c].pc \in StartAt /\ commands[c].pc \notin StopAt /\ Lifecycle!NoFault
  BY DEF Lifecycle!Clear, Lifecycle!At, StartAt, StopAt, Lifecycle!NoFault
<1>2. CASE commands[c].found # Lifecycle!None
  <2>1. Lifecycle!Ended(c, "ok") /\ UNCHANGED <<removals, crossed>>
    BY <1>2 DEF Lifecycle!Clear
  <2> QED BY <1>1, <1>2, <2>1, EndedOnlyHolds DEF Outcomes
<1>3. CASE commands[c].found = Lifecycle!None /\ claim = Lifecycle!None
  <2>1. Lifecycle!Goto(c, "spawn") /\ UNCHANGED <<removals, crossed>> /\ Lifecycle!CommandOnly
    BY <1>1, <1>3 DEF Lifecycle!Clear, Lifecycle!CommandOnly
  <2>2. Aged /\ "spawn" \in Pcs
    BY <1>1, AgedSame DEF LifecycleInv, Pcs, Loop
  <2>3. /\ Moves(c) /\ commands'[c].pc = "spawn"
        /\ commands'[c].back = commands[c].back /\ commands'[c].probing = commands[c].probing
        /\ commands'[c].found = commands[c].found /\ commands'[c].bound = commands[c].bound
    BY <2>1, <2>2, MovesGoto DEF LifecycleInv
  <2>4. ~commands[c].probing
    BY <1>1 DEF LifecycleInv, UpdateInv, Shaped, DiscoverAt
  <2>5. Follows(c) /\ Shaped(commands'[c]) /\ Ends(commands[c])'
    <3>1. "spawn" \in StartAt /\ ~Looked(commands'[c])
      BY <1>3, <2>3 DEF StartAt, Looked
    <3> QED BY <1>1, <2>3, <2>4, <3>1, OnwardShape
  <2>6. spent' \in SpentSet /\ spent'.updates = spent.updates
    BY <1>1, FaultType DEF LifecycleInv
  <2> QED BY <1>1, <2>1, <2>3, <2>5, <2>6, CommandOnlyHolds
<1>4. CASE commands[c].found = Lifecycle!None /\ claim # Lifecycle!None /\ state # Lifecycle!None
  <2>1. Lifecycle!Ended(c, "failed") /\ UNCHANGED <<removals, crossed>>
    BY <1>4 DEF Lifecycle!Clear
  <2> QED BY <1>1, <2>1, EndedOnlyHolds DEF Outcomes
<1>5. CASE commands[c].found = Lifecycle!None /\ claim # Lifecycle!None /\ state = Lifecycle!None
  <2>1. Lifecycle!BeginRemoval(c, claim) /\ Lifecycle!Goto(c, "cleared") /\ claim \in Known
    BY <1>5 DEF Lifecycle!Clear, LifecycleInv, LifecycleTypeInv
  <2> QED BY <1>1, <2>1, BeginsHolds
<1> QED BY <1>2, <1>3, <1>4, <1>5

\* The removal of a command ends: it is nobody's any more.
LEMMA RemovalEndsNames ==
  ASSUME LifecycleInv, NEW c \in Clients, ~Lifecycle!Removing(c), removals' = [removals EXCEPT ![c] = Lifecycle!NoRemoval],
         UNCHANGED <<supervisors, Lifecycle!Files, crossed>>, Moves(c)
  PROVE  NamedInv' /\ Aged /\ removals' \in [Processes -> RemovalSet(Known')]
<1> USE DEF LifecycleInv
<1>1. Aged /\ Known' = Known /\ c \in Processes /\ c \notin Lifecycle!Supervisors
  BY AgedSame, NoneApart DEF Processes
<1>2. /\ removals' \in [Processes -> RemovalSet(Known')] /\ removals'[c] = Lifecycle!NoRemoval
      /\ \A q \in Processes : q # c => removals'[q] = removals[q]
  BY <1>1, NoRemovalType
<1>3. /\ \A p \in Processes : (Lifecycle!Removing(p)' => Lifecycle!Removing(p) /\ p # c) /\ (Past(p)' => Past(p) /\ p # c)
      /\ \A s : (Lifecycle!Listening(s)' <=> Lifecycle!Listening(s)) /\ (Serving(s)' <=> Serving(s)) /\ (Lifecycle!Alive(s)' <=> Lifecycle!Alive(s))
  BY <1>2 DEF Lifecycle!Removing, Past, Lifecycle!NoRemoval, Lifecycle!Listening, Serving,
     Lifecycle!Alive
<1>4. OneListens' /\ OneRemoves'
  BY <1>3 DEF NamedInv, OneListens, OneRemoves
<1>5. OwnRemoval' /\ DeadOrOwn'
  <2>1. \A s \in Lifecycle!Supervisors : s \in Processes
    BY DEF Processes
  <2>2. \A p \in Processes : removals'[p] = removals[p] \/ p = c
    BY <1>2
  <2>3. OwnRemoval'
    BY <1>3, <2>1, <2>2 DEF NamedInv, OwnRemoval
  <2>4. ASSUME NEW p \in Processes, Past(p)' PROVE ~Lifecycle!Alive(removals[p].of)' \/ removals'[p].of = p
    <3>1. removals'[p] = removals[p] /\ Past(p)
      BY <1>3, <2>2, <2>4
    <3>2. ~Lifecycle!Alive(removals[p].of) \/ removals[p].of = p
      BY <3>1 DEF NamedInv, DeadOrOwn
    <3> QED BY <3>1, <3>2 DEF Lifecycle!Alive
  <2> QED BY <2>3, <2>4 DEF DeadOrOwn
<1>6. CommandRemoves'
  <2>1. \A d \in Clients : d \in Processes
    BY DEF Processes
  <2> QED BY <1>2, <2>1 DEF NamedInv, CommandRemoves, Moves, Lifecycle!NoRemoval
<1>7. Named'
  <2>1. \A p \in Processes : removals[p].at = "claimed" => removals'[p] = removals[p]
    BY <1>2 DEF Lifecycle!Removing
  <2> QED BY <1>3, <2>1 DEF NamedInv, Named, Lifecycle!Files
<1> QED BY <1>1, <1>2, <1>4, <1>5, <1>6, <1>7 DEF NamedInv

LEMMA ClearedHolds == ASSUME LifecycleInv, NEW c \in Clients, Lifecycle!Cleared(c) PROVE LifecycleInv'
<1>1. /\ commands[c].pc = "cleared" /\ ~Lifecycle!Removing(c) /\ removals' = [removals EXCEPT ![c] = Lifecycle!NoRemoval]
      /\ UNCHANGED <<supervisors, Lifecycle!Files, package, crossed, mixed, spent>> /\ Lifecycle!NoFault
      /\ commands[c].pc \in StartAt /\ commands[c].pc \notin StopAt
      /\ Lifecycle!Goto(c, "spawn") \/ Lifecycle!Ended(c, "failed")
  BY DEF Lifecycle!Cleared, Lifecycle!RemovalEnds, Lifecycle!At, Lifecycle!NoFault, StartAt, StopAt
<1>2. Aged /\ Known' = Known
  BY <1>1, AgedSame DEF LifecycleInv
<1>3. Moves(c) => NamedInv'
  BY <1>1, RemovalEndsNames
<1>4. CASE Lifecycle!Goto(c, "spawn")
  <2>1. "spawn" \in Pcs /\ "spawn" \in StartAt
    BY DEF Pcs, Loop, StartAt
  <2>2. /\ Moves(c) /\ commands'[c].pc = "spawn"
        /\ commands'[c].back = commands[c].back /\ commands'[c].probing = commands[c].probing
        /\ commands'[c].found = commands[c].found /\ commands'[c].bound = commands[c].bound
    BY <1>2, <1>4, <2>1, MovesGoto DEF LifecycleInv
  <2>3. ~commands[c].probing
    BY <1>1 DEF LifecycleInv, UpdateInv, Shaped, DiscoverAt
  <2>4. Follows(c) /\ Shaped(commands'[c]) /\ Ends(commands[c])'
    <3>1. Looked(commands'[c]) => Looked(commands[c]) /\ commands'[c].found = commands[c].found
      BY <1>1, <2>2 DEF Looked
    <3> QED BY <1>1, <2>1, <2>2, <2>3, <3>1, OnwardShape
  <2>5. spent' \in SpentSet /\ spent'.updates = spent.updates
    BY <1>1, FaultType DEF LifecycleInv
  <2>6. NamedInv' /\ removals' \in [Processes -> RemovalSet(Known')]
    BY <1>1, <2>2, RemovalEndsNames
  <2> QED BY <1>1, <1>2, <2>2, <2>4, <2>5, <2>6, CommandHolds
<1>5. CASE Lifecycle!Ended(c, "failed")
  <2>1. Moves(c)
    BY <1>2, <1>5, MovesEnded DEF LifecycleInv, Outcomes
  <2>2. NamedInv' /\ removals' \in [Processes -> RemovalSet(Known')]
    BY <1>1, <2>1, RemovalEndsNames
  <2> QED BY <1>1, <1>2, <1>5, <2>2, EndedHolds DEF Outcomes
<1> QED BY <1>1, <1>4, <1>5

LEMMA RemovedHolds == ASSUME LifecycleInv, NEW c \in Clients, Lifecycle!Removed(c) PROVE LifecycleInv'
<1>1. /\ commands[c].pc = "removing" /\ ~Lifecycle!Removing(c) /\ removals' = [removals EXCEPT ![c] = Lifecycle!NoRemoval]
      /\ UNCHANGED <<supervisors, Lifecycle!Files, package, crossed, mixed, spent>> /\ Lifecycle!NoFault
      /\ commands[c].pc \in StopAt /\ commands[c].pc \notin StartAt
  BY DEF Lifecycle!Removed, Lifecycle!RemovalEnds, Lifecycle!At, Lifecycle!NoFault, StartAt, StopAt
<1>2. PICK outcome \in {"ok", "failed"} : Lifecycle!Ended(c, outcome)
  BY DEF Lifecycle!Removed, Lifecycle!RemovalEnds
<1>3. Aged /\ Known' = Known /\ outcome \in Outcomes
  BY <1>1, AgedSame DEF LifecycleInv, Outcomes
<1>4. Moves(c) /\ (commands'[c] = Lifecycle!Idle \/ commands'[c].bound = commands[c].bound)
  BY <1>2, <1>3, MovesEnded DEF LifecycleInv
<1>5. NamedInv' /\ removals' \in [Processes -> RemovalSet(Known')]
  BY <1>1, <1>4, RemovalEndsNames
<1>6. ~Lifecycle!Alive(commands[c].bound)
  BY <1>1 DEF LifecycleInv, UpdateInv, Ends
<1>7. ~Lifecycle!Alive(commands[c].bound)'
  BY <1>1, <1>4, <1>6, IdleIs DEF Lifecycle!Alive
<1> QED BY <1>1, <1>2, <1>3, <1>5, <1>7, EndedHolds

------------------------
(* Starts. *)

LEMMA SpawnHolds == ASSUME LifecycleInv, NEW c \in Clients, Lifecycle!Spawn(c) PROVE LifecycleInv'
<1> USE DEF LifecycleInv
<1>1. /\ commands[c].pc = "spawn" /\ UNCHANGED <<Lifecycle!Files, removals, package, crossed, mixed, spent>> /\ Lifecycle!NoFault
  BY DEF Lifecycle!Spawn, Lifecycle!At, Lifecycle!NoFault
<1>2. PICK s \in Lifecycle!Supervisors :
        /\ supervisors[s].phase = "unborn"
        /\ supervisors' = [supervisors EXCEPT ![s].phase = "starting", ![s].version = package]
        /\ Lifecycle!Command(c, [commands[c] EXCEPT !.pc = "poll", !.child = s])
  BY DEF Lifecycle!Spawn
<1> DEFINE record == [supervisors[s] EXCEPT !.phase = "starting", !.version = package]
           r == [commands[c] EXCEPT !.pc = "poll", !.child = s]
<1>3. supervisors \in [Lifecycle!Supervisors -> SupervisorSet] /\ supervisors[s] \in SupervisorSet /\ package \in {"old", "new"}
  BY DEF LifecycleTypeInv
<1>4. record \in SupervisorSet /\ record.phase = "starting" /\ record.version = package
  BY <1>3 DEF SupervisorSet, Phases
<1>5. supervisors' = [supervisors EXCEPT ![s] = record]
  BY <1>2, <1>3
<1>6. Lifecycle!Command(c, r)
  BY <1>2
<1> HIDE DEF record
<1>7. /\ supervisors' \in [Lifecycle!Supervisors -> SupervisorSet] /\ supervisors'[s] = record
      /\ \A t \in Lifecycle!Supervisors : t # s => supervisors'[t] = supervisors[t]
  BY <1>3, <1>4, <1>5
<1>8. Aged
  BY <1>2, <1>4, <1>7 DEF Aged
<1>9. commands[c] \in CommandSet(Known') /\ s \in Known'
  BY <1>4, <1>7, <1>8, CommandKnown DEF Known
<1>10. /\ r \in CommandSet(Known') /\ r.pc = "poll" /\ r.back = commands[c].back
       /\ r.probing = commands[c].probing /\ r.found = commands[c].found /\ r.bound = commands[c].bound
       /\ r.child # Lifecycle!None
  BY <1>9, NoneApart DEF CommandSet, Pcs, Loop
<1> HIDE DEF r
<1>11. Moves(c) /\ commands'[c] = r
  BY <1>6, <1>8, <1>10, MovesMore
<1>12. ~commands[c].probing /\ removals[c].at = "none"
  BY <1>1 DEF UpdateInv, Shaped, DiscoverAt, NamedInv, CommandRemoves
<1>13. Follows(c) /\ Shaped(commands'[c]) /\ Ends(commands[c])'
  <2>1. commands[c].pc \in StartAt /\ r.pc \in StartAt
    BY <1>1, <1>10 DEF StartAt
  <2>2. Looked(r) => Looked(commands[c]) /\ r.found = commands[c].found
    BY <1>1, <1>10 DEF Looked
  <2> QED BY <1>10, <1>11, <1>12, <2>1, <2>2, OnwardShape
<1>14. /\ \A t \in Lifecycle!Supervisors : (Lifecycle!Listening(t)' <=> Lifecycle!Listening(t)) /\ (Serving(t)' <=> Serving(t))
       /\ \A p \in Processes : (Lifecycle!Removing(p)' <=> Lifecycle!Removing(p)) /\ (Past(p)' <=> Past(p))
  BY <1>1, <1>2, <1>4, <1>7 DEF Lifecycle!Listening, Serving, Lifecycle!Removing, Past
<1>15. NamedInv'
  <2>1. OneListens' /\ OneRemoves'
    BY <1>1, <1>14 DEF NamedInv, OneListens, OneRemoves
  <2>2. OwnRemoval'
    BY <1>1, <1>2, <1>7, <1>14 DEF NamedInv, OwnRemoval, Processes
  <2>3. DeadOrOwn'
    <3>1. \A p \in Processes : removals[p].of \in Known
      BY DEF LifecycleTypeInv, RemovalSet
    <3> QED BY <1>1, <1>8, <1>14, <3>1, DeadStays DEF NamedInv, DeadOrOwn
  <2>4. CommandRemoves'
    BY <1>1, <1>11, <1>12 DEF NamedInv, CommandRemoves, Moves
  <2>5. Named'
    BY <1>1, <1>14 DEF NamedInv, Named, Lifecycle!Files
  <2> QED BY <2>1, <2>2, <2>3, <2>4, <2>5 DEF NamedInv
<1>16. removals' \in [Processes -> RemovalSet(Known')]
  BY <1>1, <1>8, AgedKnown, TypesGrow
<1>17. spent' \in SpentSet /\ spent'.updates = spent.updates
  BY <1>1 DEF LifecycleTypeInv
<1> QED BY <1>1, <1>8, <1>11, <1>13, <1>15, <1>16, <1>17, CommandHolds

LEMMA PolledHolds == ASSUME LifecycleInv, NEW c \in Clients, Lifecycle!Polled(c) PROVE LifecycleInv'
<1> DEFINE r == commands[c]
<1>1. /\ r.pc = "polled" /\ UNCHANGED <<Lifecycle!Files, package, mixed>>
      /\ r.pc \in StartAt /\ r.pc \notin StopAt
  BY DEF Lifecycle!Polled, Lifecycle!At, StartAt, StopAt
<1>2. removals[c].at = "none" /\ ~r.probing
  BY <1>1 DEF LifecycleInv, NamedInv, CommandRemoves, UpdateInv, Shaped, DiscoverAt
<1>3. CASE r.found # Lifecycle!None /\ Lifecycle!Ended(c, "ok") /\ Lifecycle!NoFault /\ Lifecycle!NoSignal
  BY <1>1, <1>3, EndedOnlyHolds DEF Lifecycle!NoSignal, Outcomes
<1>4. CASE r.found = Lifecycle!None /\ Lifecycle!Goto(c, "poll") /\ Lifecycle!NoFault /\ Lifecycle!NoSignal
  <2>1. Aged /\ Lifecycle!CommandOnly /\ "poll" \in Pcs /\ "poll" \in StartAt /\ "poll" \in DiscoverAt
    BY <1>1, <1>4, AgedSame DEF LifecycleInv, Lifecycle!NoSignal, Lifecycle!CommandOnly, Pcs, Loop,
       StartAt, DiscoverAt
  <2>2. /\ Moves(c) /\ commands'[c].pc = "poll"
        /\ commands'[c].back = commands[c].back /\ commands'[c].probing = commands[c].probing
        /\ commands'[c].found = commands[c].found /\ commands'[c].bound = commands[c].bound
        /\ commands'[c].child = commands[c].child
    BY <1>4, <2>1, MovesGoto DEF LifecycleInv
  <2>3. Follows(c) /\ Shaped(commands'[c]) /\ Ends(commands[c])'
    <3>1. ~Looked(commands'[c]) /\ r.child # Lifecycle!None
      BY <1>1, <1>4, <2>2 DEF Looked, LifecycleInv, UpdateInv, Shaped
    <3> QED BY <1>1, <2>1, <2>2, <3>1, OnwardShape
  <2>4. spent' \in SpentSet /\ spent'.updates = spent.updates
    BY <1>4, FaultType DEF LifecycleInv
  <2> QED BY <1>1, <2>1, <2>2, <2>3, <2>4, CommandOnlyHolds
<1>5. CASE Lifecycle!Ended(c, "failed") /\ Lifecycle!NoFault /\ Lifecycle!NoSignal
  BY <1>1, <1>5, EndedOnlyHolds DEF Lifecycle!NoSignal, Outcomes
<1>6. CASE r.found = Lifecycle!None /\ Lifecycle!Fault /\ Lifecycle!Signal(r.child) /\ Lifecycle!Ended(c, "failed")
  <2>1. r.child # Lifecycle!None
    BY <1>1 DEF LifecycleInv, UpdateInv, Shaped
  <2>2. CASE r.child # Lifecycle!None
    <3>1. r.child \in Lifecycle!Supervisors
      BY <2>2 DEF LifecycleInv, LifecycleTypeInv, CommandSet, Known
    <3>2. supervisors' = Lifecycle!Signalled(r.child) /\ Aged
      BY <1>6, <3>1, AgedSignalled DEF Lifecycle!Signal, LifecycleInv
    <3>3. Moves(c)
      BY <1>6, <3>2, MovesEnded DEF LifecycleInv, Outcomes
    <3>4. CommandRemoves'
      <4>1. \A d \in Clients : d \in Processes /\ d # r.child
        BY <3>1, NoneApart DEF Processes
      <4>2. \A d \in Clients : removals'[d] = removals[d]
        BY <1>6, <3>1, <3>2, <4>1, NoRemovalType, AgedKnown DEF Lifecycle!Signal, Lifecycle!CutOff,
           LifecycleInv, Processes
      <4> QED BY <1>2, <3>3, <4>2 DEF LifecycleInv, NamedInv, CommandRemoves, Moves
    <3>5. NamedInv' /\ removals' \in [Processes -> RemovalSet(Known')]
      BY <1>1, <1>6, <3>1, <3>4, SignalNames DEF LifecycleInv
    <3> QED BY <1>1, <1>6, <3>2, <3>5, EndedHolds DEF Outcomes
  <2> QED BY <2>1, <2>2
<1> QED BY <1>3, <1>4, <1>5, <1>6 DEF Lifecycle!Polled

------------------------
(* Shutdowns. *)

\* On with a shutdown that has nothing to do with the names.
LEMMA ShutdownGoes ==
  ASSUME LifecycleInv, NEW c \in Clients, Aged, NEW pc \in StopAt \ {"meet", "removing"}, Lifecycle!Goto(c, pc),
         commands[c].pc \in StopAt \ {"meet", "removing"},
         UNCHANGED <<Lifecycle!Files, package, mixed>>, Lifecycle!Fault \/ Lifecycle!NoFault,
         commands[c].bound # Lifecycle!None => commands[c].bound = commands[c].found,
         Moves(c) => NamedInv', removals' \in [Processes -> RemovalSet(Known')]
  PROVE  LifecycleInv'
<1>1. /\ Moves(c) /\ commands'[c].pc = pc
      /\ commands'[c].back = commands[c].back /\ commands'[c].probing = commands[c].probing
      /\ commands'[c].found = commands[c].found /\ commands'[c].bound = commands[c].bound
  <2>1. pc \in Pcs
    BY DEF Pcs, Loop, StopAt
  <2> QED BY <2>1, MovesGoto DEF LifecycleInv
<1>2. ~commands[c].probing
  BY DEF LifecycleInv, UpdateInv, Shaped, DiscoverAt, StopAt
<1>3. Follows(c) /\ Shaped(commands'[c]) /\ Ends(commands[c])'
  <2>1. Looked(commands'[c]) => Looked(commands[c]) /\ commands'[c].found = commands[c].found
    BY <1>1 DEF Looked, StopAt
  <2>2. pc \notin {"poll", "polled", "removing"}
    BY DEF StopAt
  <2> QED BY <1>1, <1>2, <2>1, <2>2, OnwardShape
<1>4. spent' \in SpentSet /\ spent'.updates = spent.updates
  BY FaultType DEF LifecycleInv
<1> QED BY <1>1, <1>3, <1>4, CommandHolds

LEMMA SnapshotHolds == ASSUME LifecycleInv, NEW c \in Clients, Lifecycle!Snapshot(c) PROVE LifecycleInv'
<1> DEFINE r == [commands[c] EXCEPT !.pc = "meet", !.snapshot = state]
<1>1. commands[c].pc = "snapshot" /\ Lifecycle!Command(c, r) /\ Lifecycle!NoFault /\ Lifecycle!CommandOnly /\ Aged /\ Known' = Known
  BY AgedSame DEF Lifecycle!Snapshot, Lifecycle!At, Lifecycle!CommandOnly, LifecycleInv
<1>2. commands[c] \in CommandSet(Known') /\ state \in Known'
  BY <1>1, CommandKnown DEF LifecycleInv
<1>3. /\ r \in CommandSet(Known') /\ r.pc = "meet" /\ r.back = commands[c].back
      /\ r.probing = commands[c].probing /\ r.found = commands[c].found /\ r.bound = commands[c].bound
  BY <1>2 DEF CommandSet, Pcs, Loop
<1> HIDE DEF r
<1>4. Moves(c) /\ commands'[c] = r
  BY <1>1, <1>3, MovesMore DEF LifecycleInv
<1>5. ~commands[c].probing
  BY <1>1 DEF LifecycleInv, UpdateInv, Shaped, DiscoverAt
<1>6. Follows(c) /\ Shaped(commands'[c]) /\ Ends(commands[c])'
  <2>1. Looked(r) => Looked(commands[c]) /\ r.found = commands[c].found
    BY <1>1, <1>3 DEF Looked
  <2>2. commands[c].pc \in StopAt /\ r.pc \in StopAt
    BY <1>1, <1>3 DEF StopAt
  <2> QED BY <1>3, <1>4, <1>5, <2>1, <2>2, OnwardShape
<1>7. spent' \in SpentSet /\ spent'.updates = spent.updates
  BY <1>1, FaultType DEF LifecycleInv
<1> QED BY <1>1, <1>4, <1>6, <1>7, CommandOnlyHolds

LEMMA ClearStaleHolds == ASSUME LifecycleInv, NEW c \in Clients, Lifecycle!ClearStale(c) PROVE LifecycleInv'
<1> DEFINE r == commands[c]
           snapshot == IF state = Lifecycle!None /\ r.snapshot = Lifecycle!None THEN claim ELSE r.snapshot
           left == IF state = Lifecycle!None THEN claim ELSE state
<1>1. /\ r.pc = "met" /\ r.found = Lifecycle!None /\ r.bound = Lifecycle!None
      /\ UNCHANGED <<supervisors, Lifecycle!Files, package, mixed>> /\ Lifecycle!NoFault
      /\ r.pc \in StopAt /\ r.pc \notin StartAt
  BY DEF Lifecycle!ClearStale, Lifecycle!At, Lifecycle!NoFault, StopAt, StartAt
<1>2. snapshot \in Known
  BY DEF LifecycleInv, LifecycleTypeInv, CommandSet
<1>3. \/ Lifecycle!Ended(c, "ok") /\ UNCHANGED <<removals, crossed>>
      \/ Lifecycle!Ended(c, "failed") /\ UNCHANGED <<removals, crossed>>
      \/ Lifecycle!BeginRemoval(c, snapshot) /\ Lifecycle!Goto(c, "removing")
  BY DEF Lifecycle!ClearStale
<1>4. ~Lifecycle!Alive(r.bound)
  BY <1>1 DEF Lifecycle!Alive
<1>5. CASE Lifecycle!Ended(c, "ok") /\ UNCHANGED <<removals, crossed>>
  BY <1>1, <1>4, <1>5, EndedOnlyHolds DEF Outcomes
<1>6. CASE Lifecycle!Ended(c, "failed") /\ UNCHANGED <<removals, crossed>>
  BY <1>1, <1>6, EndedOnlyHolds DEF Outcomes
<1> HIDE DEF snapshot, left
<1>7. CASE Lifecycle!BeginRemoval(c, snapshot) /\ Lifecycle!Goto(c, "removing")
  BY <1>1, <1>2, <1>4, <1>7, BeginsHolds
<1> QED BY <1>3, <1>5, <1>6, <1>7

LEMMA MeetHolds == ASSUME LifecycleInv, NEW c \in Clients, Lifecycle!Meet(c) PROVE LifecycleInv'
<1> DEFINE r == commands[c]
<1>1. /\ r.pc = "met" /\ Lifecycle!NoFault /\ Lifecycle!CommandOnly
      /\ r.pc \in StopAt /\ r.pc \notin StartAt /\ r.pc \notin {"meet", "removing"}
  BY DEF Lifecycle!Meet, Lifecycle!At, StopAt, StartAt
<1>2. CASE Lifecycle!Ended(c, "changed")
  BY <1>1, <1>2, EndedOnlyHolds DEF Outcomes, Lifecycle!CommandOnly
<1>3. CASE Lifecycle!Goto(c, "ask") /\ r.bound \in {Lifecycle!None, r.found}
  <2>1. Aged /\ Known' = Known /\ "ask" \in StopAt \ {"meet", "removing"} /\ UNCHANGED <<Lifecycle!Files, package, mixed>>
    BY <1>1, AgedSame DEF LifecycleInv, Lifecycle!CommandOnly, StopAt
  <2>2. removals[c].at = "none"
    BY <1>1 DEF LifecycleInv, NamedInv, CommandRemoves
  <2>3. (Moves(c) => NamedInv') /\ removals' \in [Processes -> RemovalSet(Known')]
    BY <1>1, <2>1, <2>2, CommandNames DEF Lifecycle!CommandOnly, LifecycleInv, LifecycleTypeInv
  <2> QED BY <1>1, <1>3, <2>1, <2>3, ShutdownGoes
<1> QED BY <1>1, <1>2, <1>3 DEF Lifecycle!Meet

LEMMA AskHolds == ASSUME LifecycleInv, NEW c \in Clients, Lifecycle!Ask(c) PROVE LifecycleInv'
<1> DEFINE r == commands[c]
           answering == {s \in Lifecycle!Supervisors : Lifecycle!Answers(s)}
<1>1. /\ r.pc = "ask" /\ UNCHANGED <<Lifecycle!Files, removals, package, crossed, mixed>>
      /\ r.pc \in StopAt \ {"meet", "removing"} /\ r.pc \notin StartAt
      /\ r.bound # Lifecycle!None => r.bound = r.found
  BY DEF Lifecycle!Ask, Lifecycle!At, StopAt, StartAt, LifecycleInv, UpdateInv, Shaped
<1>2. removals[c].at = "none"
  BY <1>1 DEF LifecycleInv, NamedInv, CommandRemoves
<1>3. CASE Lifecycle!Ended(c, "changed") /\ Lifecycle!NoFault /\ UNCHANGED supervisors
  BY <1>1, <1>3, EndedOnlyHolds DEF Outcomes
<1>4. CASE Lifecycle!Goto(c, "force") /\ UNCHANGED supervisors /\ (Lifecycle!Fault \/ Lifecycle!NoFault)
  <2>1. Aged /\ Known' = Known /\ "force" \in StopAt \ {"meet", "removing"}
    BY <1>4, AgedSame DEF LifecycleInv, StopAt
  <2>2. (Moves(c) => NamedInv') /\ removals' \in [Processes -> RemovalSet(Known')]
    BY <1>1, <1>2, <1>4, <2>1, CommandNames DEF LifecycleInv, LifecycleTypeInv
  <2> QED BY <1>1, <1>4, <2>1, <2>2, ShutdownGoes
<1>5. ASSUME NEW pc \in {"wait", "force"}, r.found \in answering, Lifecycle!Goto(c, pc), Lifecycle!Fault \/ Lifecycle!NoFault,
             supervisors' = [supervisors EXCEPT ![r.found].phase = "closing"]
      PROVE  LifecycleInv'
  <2>1. r.found \in Lifecycle!Supervisors /\ supervisors[r.found].phase \in {"ready", "closing"} /\ "closing" \in Phases
    BY <1>5 DEF Lifecycle!Answers, Phases
  <2>2. Lifecycle!Phase(r.found, "closing")
    BY <1>5 DEF Lifecycle!Phase
  <2>3. /\ Aged /\ supervisors'[r.found].phase = "closing"
        /\ \A t \in Lifecycle!Supervisors : t # r.found => supervisors'[t] = supervisors[t]
    BY <2>1, <2>2, AgedPhase, PhaseType DEF LifecycleInv
  <2>4. (Serving(r.found)' => Serving(r.found)) /\ (Lifecycle!Listening(r.found)' => Lifecycle!Listening(r.found)) /\ ~Lifecycle!Removing(r.found)
    BY <2>1 DEF Serving, Lifecycle!Listening, LifecycleInv, NamedInv, OwnRemoval
  <2>5. Moves(c) => CommandRemoves'
    BY <1>1, <1>2 DEF LifecycleInv, NamedInv, CommandRemoves, Moves
  <2>6. \E s \in Lifecycle!Supervisors :
          /\ ~Lifecycle!Removing(s) /\ Serving(s) /\ Lifecycle!Listening(s)
          /\ \A t \in Lifecycle!Supervisors : t # s => supervisors'[t] = supervisors[t]
    BY <2>1, <2>3, <2>4 DEF Serving, Lifecycle!Listening
  <2>7. Moves(c) => NamedInv' /\ removals' \in [Processes -> RemovalSet(Known')]
    BY <1>1, <2>3, <2>5, <2>6, Declines DEF LifecycleInv
  <2>8. removals' \in [Processes -> RemovalSet(Known')]
    BY <1>1, <2>3, AgedKnown, TypesGrow DEF LifecycleInv
  <2>9. pc \in StopAt \ {"meet", "removing"}
    BY DEF StopAt
  <2> QED BY <1>1, <1>5, <2>3, <2>7, <2>8, <2>9, ShutdownGoes
<1> QED BY <1>3, <1>4, <1>5 DEF Lifecycle!Ask

LEMMA ForceStopHolds == ASSUME LifecycleInv, NEW c \in Clients, Lifecycle!ForceStop(c) PROVE LifecycleInv'
<1> DEFINE r == commands[c]
           s == commands[c].found
<1>1. /\ r.pc = "force" /\ UNCHANGED <<Lifecycle!Files, package, mixed>> /\ Lifecycle!NoFault
      /\ r.pc \in StopAt \ {"meet", "removing"} /\ r.pc \notin StartAt
      /\ r.bound # Lifecycle!None => r.bound = r.found
  BY DEF Lifecycle!ForceStop, Lifecycle!At, StopAt, StartAt, LifecycleInv, UpdateInv, Shaped,
     Lifecycle!NoFault
<1>2. removals[c].at = "none"
  BY <1>1 DEF LifecycleInv, NamedInv, CommandRemoves
<1>3. ASSUME NEW outcome \in {"changed", "failed"}, Lifecycle!Ended(c, outcome), Lifecycle!NoSignal PROVE LifecycleInv'
  BY <1>1, <1>3, EndedOnlyHolds DEF Outcomes, Lifecycle!NoSignal
<1>4. CASE Lifecycle!Alive(s) /\ Lifecycle!Goto(c, "wait") /\ Lifecycle!Signal(s)
  <2>1. s \in Lifecycle!Supervisors
    BY <1>4 DEF LifecycleInv, LifecycleTypeInv, CommandSet, Known, Lifecycle!Alive
  <2>2. supervisors' = Lifecycle!Signalled(s) /\ Aged
    BY <1>4, <2>1, AgedSignalled DEF Lifecycle!Signal, LifecycleInv
  <2>3. Moves(c) => CommandRemoves'
    <3>1. \A d \in Clients : d \in Processes /\ d # s
      BY <2>1, NoneApart DEF Processes
    <3>2. \A d \in Clients : removals'[d] = removals[d]
      BY <1>4, <2>1, <2>2, <3>1, NoRemovalType, AgedKnown DEF Lifecycle!Signal, Lifecycle!CutOff,
         LifecycleInv, Processes
    <3> QED BY <1>2, <3>2 DEF LifecycleInv, NamedInv, CommandRemoves, Moves
  <2>4. (Moves(c) => NamedInv') /\ removals' \in [Processes -> RemovalSet(Known')]
    <3>1. Moves(c)
      BY <1>4, <2>2, MovesGoto DEF LifecycleInv, Pcs, Loop
    <3> QED BY <1>1, <1>4, <2>1, <2>3, <3>1, SignalNames DEF LifecycleInv
  <2>5. "wait" \in StopAt \ {"meet", "removing"}
    BY DEF StopAt
  <2> QED BY <1>1, <1>4, <2>2, <2>4, <2>5, ShutdownGoes
<1> QED BY <1>3, <1>4 DEF Lifecycle!ForceStop

LEMMA WaitHolds == ASSUME LifecycleInv, NEW c \in Clients, Lifecycle!Wait(c) PROVE LifecycleInv'
<1> DEFINE r == commands[c]
<1>1. /\ r.pc = "wait" /\ UNCHANGED <<supervisors, Lifecycle!Files, package, mixed>>
      /\ r.pc \in StopAt /\ r.pc \notin StartAt
      /\ r.bound # Lifecycle!None => r.bound = r.found
  BY DEF Lifecycle!Wait, Lifecycle!At, StopAt, StartAt, LifecycleInv, UpdateInv, Shaped
<1>2. CASE Lifecycle!Fault /\ Lifecycle!Ended(c, "failed") /\ UNCHANGED <<removals, crossed>>
  BY <1>1, <1>2, EndedOnlyHolds DEF Outcomes
<1>3. ~Lifecycle!Alive(r.found) => ~Lifecycle!Alive(r.bound)
  BY <1>1 DEF Lifecycle!Alive
<1>4. CASE ~Lifecycle!Alive(r.found) /\ Lifecycle!Ended(c, "ok") /\ Lifecycle!NoFault /\ UNCHANGED <<removals, crossed>>
  BY <1>1, <1>3, <1>4, EndedOnlyHolds DEF Outcomes
<1>5. CASE ~Lifecycle!Alive(r.found) /\ Lifecycle!BeginRemoval(c, r.snapshot) /\ Lifecycle!Goto(c, "removing") /\ Lifecycle!NoFault
  <2>1. r.snapshot \in Known
    BY DEF LifecycleInv, LifecycleTypeInv, CommandSet
  <2> QED BY <1>1, <1>3, <1>5, <2>1, BeginsHolds
<1> QED BY <1>2, <1>4, <1>5 DEF Lifecycle!Wait

------------------------
(* Updates. *)

LEMMA StartingIs ==
  ASSUME LifecycleTypeInv, Aged, NEW c \in Clients, NEW back \in {"restored", "reverted"},
         Lifecycle!Command(c, Lifecycle!Starting(commands[c], back))
  PROVE  /\ Moves(c) /\ commands'[c].pc = "find" /\ commands'[c].back = back
         /\ commands'[c].probing = commands[c].probing /\ commands'[c].bound = commands[c].bound
<1> DEFINE r == Lifecycle!Starting(commands[c], back)
<1>1. commands[c] \in CommandSet(Known') /\ Lifecycle!None \in Known'
  BY CommandKnown
<1>2. /\ r \in CommandSet(Known') /\ r.pc = "find" /\ r.back = back
      /\ r.probing = commands[c].probing /\ r.bound = commands[c].bound
  BY <1>1 DEF CommandSet, Lifecycle!Starting, Pcs, Loop
<1>3. Lifecycle!Command(c, r)
  OBVIOUS
<1> HIDE DEF r
<1> QED BY <1>2, <1>3, MovesCommand

LEMMA StoppingIs ==
  ASSUME LifecycleTypeInv, Aged, NEW c \in Clients, NEW back \in {"stopped", "halted"},
         Lifecycle!Command(c, Lifecycle!Stopping(commands[c], commands[c].found, back))
  PROVE  /\ Moves(c) /\ commands'[c].pc = "snapshot" /\ commands'[c].back = back
         /\ commands'[c].probing = commands[c].probing /\ commands'[c].bound = commands[c].found
<1> DEFINE r == Lifecycle!Stopping(commands[c], commands[c].found, back)
<1>1. commands[c] \in CommandSet(Known') /\ commands[c].found \in Known'
  <2>1. commands[c] \in CommandSet(Known')
    BY CommandKnown
  <2> QED BY <2>1 DEF CommandSet
<1>2. /\ r \in CommandSet(Known') /\ r.pc = "snapshot" /\ r.back = back
      /\ r.probing = commands[c].probing /\ r.bound = commands[c].found
  BY <1>1 DEF CommandSet, Lifecycle!Stopping, Pcs, Loop
<1>3. Lifecycle!Command(c, r)
  OBVIOUS
<1> HIDE DEF r
<1> QED BY <1>2, <1>3, MovesCommand

\* A step in which the one update goes on to its next part.
LEMMA CommandTurns ==
  ASSUME LifecycleInv, NEW c \in Clients, Stage(commands[c]) # "none", Moves(c),
         commands[c].pc \notin {"cleared", "removing"},
         UNCHANGED <<supervisors, Lifecycle!Files, removals, crossed>>, package' \in {"old", "new"},
         spent' \in SpentSet, spent'.updates = spent.updates, mixed => mixed',
         ~mixed' => Versions(commands[c])', Shaped(commands'[c]), Ends(commands[c])'
  PROVE  LifecycleInv'
<1>1. removals[c].at = "none"
  BY DEF LifecycleInv, NamedInv, CommandRemoves
<1>2. NamedInv' /\ Aged /\ removals' \in [Processes -> RemovalSet(Known')]
  BY <1>1, CommandNames
<1>3. Known' = Known
  BY AgedSame DEF LifecycleInv
<1>4. LifecycleTypeInv'
  BY <1>2, <1>3 DEF LifecycleInv, LifecycleTypeInv, Lifecycle!Files, Moves
<1>5. \A d \in Clients : d # c => commands'[d] = commands[d] /\ Stage(commands[d]) = "none"
  BY DEF Moves, LifecycleInv, UpdateInv, OneUpdate
<1>6. OneUpdate'
  BY <1>5 DEF LifecycleInv, UpdateInv, OneUpdate
<1>7. \A d \in Clients : Shaped(commands'[d]) /\ Ends(commands[d])'
  BY <1>5 DEF LifecycleInv, UpdateInv, Ends, Lifecycle!Alive
<1>8. ~mixed' => \A d \in Clients : Versions(commands[d])'
  BY <1>5 DEF Versions
<1> QED BY <1>2, <1>4, <1>6, <1>7, <1>8 DEF LifecycleInv, UpdateInv

\* The update is given up.
LEMMA GivenUp ==
  ASSUME LifecycleInv, NEW c \in Clients, Lifecycle!Command(c, Lifecycle!Idle), Lifecycle!CommandOnly, Lifecycle!Fault \/ Lifecycle!NoFault,
         commands[c].pc \notin {"cleared", "removing"}
  PROVE  LifecycleInv'
<1>1. Aged
  BY AgedSame DEF LifecycleInv, Lifecycle!CommandOnly
<1>2. Moves(c) /\ commands'[c] = Lifecycle!Idle
  BY <1>1, MovesIdle DEF LifecycleInv
<1>3. Follows(c) /\ Shaped(commands'[c]) /\ Ends(commands[c])'
  <2>1. Ends(commands[c])'
    BY <1>2, IdleIs DEF Ends, Lifecycle!Idle
  <2> QED BY <1>2, <2>1, IdleIs DEF Follows
<1>4. spent' \in SpentSet /\ spent'.updates = spent.updates
  BY FaultType DEF LifecycleInv
<1> QED BY <1>2, <1>3, <1>4, CommandOnlyHolds

\* The update goes on with the same part.
LEMMA GoesOn ==
  ASSUME LifecycleInv, NEW c \in Clients, NEW pc, Lifecycle!Goto(c, pc), Lifecycle!CommandOnly, Lifecycle!NoFault,
         \/ commands[c].pc = "stopped" /\ pc = "look"
         \/ commands[c].pc = "halted" /\ pc \in {"relook", "rollback"}
         \/ commands[c].pc = "relooked" /\ pc = "rollback"
         \/ commands[c].pc = "restored" /\ (pc = "observe" \/ (pc = "updated" /\ commands[c].outcome = "ok"))
         \/ commands[c].pc = "observed" /\ pc = "updated" /\ commands[c].found # Lifecycle!None
         \/ commands[c].pc = "reverted" /\ (pc = "reobserve" \/ (pc = "rolledBack" /\ commands[c].outcome = "ok"))
         \/ commands[c].pc = "reobserved" /\ pc = "rolledBack" /\ commands[c].found # Lifecycle!None
  PROVE  LifecycleInv'
<1>1. Aged /\ pc \in Pcs
  BY AgedSame DEF LifecycleInv, Lifecycle!CommandOnly, Pcs, StoppingAt, StartedAt, HaltingAt,
     RevertedAt
<1>2. /\ Moves(c) /\ commands'[c].pc = pc
      /\ commands'[c].back = commands[c].back /\ commands'[c].probing = commands[c].probing
      /\ commands'[c].found = commands[c].found /\ commands'[c].bound = commands[c].bound
  BY <1>1, MovesGoto DEF LifecycleInv
<1>3. Shaped(commands[c]) /\ ~commands[c].probing
  BY DEF LifecycleInv, UpdateInv, Shaped, DiscoverAt
<1>4. Shaped(commands'[c]) /\ Ends(commands[c])'
  BY <1>2, <1>3 DEF Shaped, Ends, Installing, StartAt, StopAt
<1>5. Stage(commands'[c]) = Stage(commands[c])
  BY <1>2 DEF Stage, Installing, StoppingAt, StartedAt, HaltingAt, RevertedAt, StopAt, StartAt
<1>6. Looked(commands'[c]) => Looked(commands[c])
  BY <1>2, <1>3 DEF Looked
<1>7. Follows(c)
  BY <1>2, <1>5, <1>6 DEF Follows
<1>8. spent' \in SpentSet /\ spent'.updates = spent.updates
  BY FaultType DEF LifecycleInv
<1>9. commands[c].pc \notin {"cleared", "removing"}
  OBVIOUS
<1> QED BY <1>2, <1>4, <1>7, <1>8, <1>9, CommandOnlyHolds

\* On to the start that the update needs, of the version that is installed.
LEMMA StartsAgain ==
  ASSUME LifecycleInv, NEW c \in Clients, Stage(commands[c]) = "stop", commands[c].pc \in {"stopped", "looked"},
         Lifecycle!Command(c, Lifecycle!Starting(commands[c], "restored")), Lifecycle!CommandOnly, Lifecycle!NoFault, ~Lifecycle!Alive(commands[c].bound)
  PROVE  LifecycleInv'
<1>1. Aged
  BY AgedSame DEF LifecycleInv, Lifecycle!CommandOnly
<1>2. /\ Moves(c) /\ commands'[c].pc = "find" /\ commands'[c].back = "restored"
      /\ ~commands'[c].probing /\ commands'[c].bound = commands[c].bound
  <2>1. ~commands[c].probing
    BY DEF LifecycleInv, UpdateInv, Shaped, DiscoverAt
  <2> QED BY <1>1, <2>1, StartingIs DEF LifecycleInv
<1>3. Shaped(commands'[c]) /\ Ends(commands[c])'
  BY <1>2 DEF Shaped, Ends, Installing, StartAt, StopAt
<1>4. ~mixed' => Versions(commands[c])'
  <2>1. Stage(commands'[c]) = "start" /\ ~Looked(commands'[c])
    BY <1>2 DEF Stage, Looked, Installing, StoppingAt, StartedAt, HaltingAt, RevertedAt, StopAt,
       StartAt
  <2>2. ASSUME ~mixed' PROVE package' = "new" /\ \A s \in Lifecycle!Supervisors : Lifecycle!Alive(s)' => supervisors'[s].version = "new"
    <3>1. Versions(commands[c])
      BY <2>2 DEF Lifecycle!CommandOnly, LifecycleInv, UpdateInv
    <3> QED BY <3>1 DEF Versions, Lifecycle!CommandOnly, Lifecycle!Alive
  <2>3. ~mixed' => package' = "new" /\ AllRun("new")'
    BY <2>2 DEF AllRun
  <2> QED BY <2>1, <2>3 DEF Versions
<1>5. spent' \in SpentSet /\ spent'.updates = spent.updates
  BY FaultType DEF LifecycleInv
<1>6. package' \in {"old", "new"} /\ (mixed => mixed')
  BY DEF Lifecycle!CommandOnly, LifecycleInv, LifecycleTypeInv
<1>7. commands[c].pc \notin {"cleared", "removing"} /\ Stage(commands[c]) # "none"
  OBVIOUS
<1> QED BY <1>2, <1>3, <1>4, <1>5, <1>6, <1>7, CommandTurns DEF Lifecycle!CommandOnly

\* On to a part that no version is claimed of.
LEMMA HaltsOn ==
  ASSUME LifecycleInv, NEW c \in Clients, Stage(commands[c]) # "none", commands[c].pc = "observed",
         Lifecycle!CommandOnly, Lifecycle!NoFault, Moves(c), commands'[c].back \in {"halted", commands[c].back},
         \/ commands'[c].pc = "snapshot" /\ commands'[c].back = "halted"
         \/ commands'[c].pc = "rollback",
         commands'[c].probing = commands[c].probing
  PROVE  LifecycleInv'
<1>1. ~commands[c].probing
  BY DEF LifecycleInv, UpdateInv, Shaped, DiscoverAt
<1>2. Shaped(commands'[c]) /\ Ends(commands[c])'
  BY <1>1 DEF Shaped, Ends, Installing, StartAt, StopAt
<1>3. Stage(commands'[c]) = "halt"
  BY DEF Stage, Installing, StoppingAt, StartedAt, HaltingAt, RevertedAt, StopAt, StartAt
<1>4. Versions(commands[c])'
  BY <1>3 DEF Versions
<1>5. spent' \in SpentSet /\ spent'.updates = spent.updates
  BY FaultType DEF LifecycleInv
<1>6. package' \in {"old", "new"} /\ (mixed => mixed')
  BY DEF Lifecycle!CommandOnly, LifecycleInv, LifecycleTypeInv
<1>7. commands[c].pc \notin {"cleared", "removing"}
  OBVIOUS
<1> QED BY <1>2, <1>4, <1>5, <1>6, <1>7, CommandTurns DEF Lifecycle!CommandOnly

LEMMA UpdateStage ==
  ASSUME NEW r
  PROVE  /\ r.pc \in Installing => Stage(r) = "install"
         /\ r.pc \in StoppingAt => Stage(r) = "stop"
         /\ r.pc \in StartedAt => Stage(r) = "start"
         /\ r.pc \in HaltingAt => Stage(r) = "halt"
         /\ r.pc \in RevertedAt => Stage(r) = "revert"
BY DEF Stage, Installing, StoppingAt, StartedAt, HaltingAt, RevertedAt, StopAt, StartAt

LEMMA InstallUpdateHolds == ASSUME LifecycleInv, NEW c \in Clients, Lifecycle!InstallUpdate(c) PROVE LifecycleInv'
<1> DEFINE r == commands[c]
<1>1. /\ r.pc = "install" /\ ~r.probing /\ Stage(r) = "install" /\ r.back = "idle"
      /\ r.pc \notin {"cleared", "removing"}
  <2>1. r.pc = "install" /\ r.pc \in Installing
    BY DEF Lifecycle!InstallUpdate, Lifecycle!At, Installing
  <2> QED BY <2>1, UpdateStage DEF LifecycleInv, UpdateInv, Shaped, DiscoverAt
<1>2. CASE Lifecycle!InstallFails(c)
  BY <1>1, <1>2, GivenUp DEF Lifecycle!InstallFails
<1>3. CASE Lifecycle!Install(c, "new", r.found, IF r.found = Lifecycle!None THEN Lifecycle!Idle ELSE Lifecycle!Stopping(r, r.found, "stopped"))
  <2>1. /\ package' = "new" /\ (mixed => mixed') /\ Lifecycle!NoFault
        /\ ~mixed' => \A s \in Lifecycle!Supervisors : s # r.found => ~Lifecycle!Alive(s)
        /\ UNCHANGED <<supervisors, Lifecycle!Files, removals, crossed>> /\ Aged
    BY <1>3, AgedSame DEF Lifecycle!Install, LifecycleInv
  <2>2. spent' \in SpentSet /\ spent'.updates = spent.updates
    BY <2>1, FaultType DEF LifecycleInv
  <2>3. CASE r.found = Lifecycle!None
    <3>1. Moves(c) /\ commands'[c] = Lifecycle!Idle
      BY <1>3, <2>1, <2>3, MovesIdle DEF Lifecycle!Install, LifecycleInv
    <3>2. Shaped(commands'[c]) /\ Ends(commands[c])' /\ Versions(commands[c])'
      <4>1. Ends(commands[c])'
        BY <3>1, IdleIs DEF Ends, Lifecycle!Idle
      <4>2. Versions(commands[c])'
        BY <3>1, IdleIs DEF Versions
      <4> QED BY <3>1, <4>1, <4>2, IdleIs
    <3> QED BY <1>1, <2>1, <2>2, <3>1, <3>2, CommandTurns
  <2>4. CASE r.found # Lifecycle!None
    <3>1. /\ Moves(c) /\ commands'[c].pc = "snapshot" /\ commands'[c].back = "stopped"
          /\ ~commands'[c].probing /\ commands'[c].bound = r.found
      BY <1>1, <1>3, <2>1, <2>4, StoppingIs DEF Lifecycle!Install, LifecycleInv
    <3>2. Shaped(commands'[c]) /\ Ends(commands[c])' /\ Stage(commands'[c]) = "stop"
      BY <3>1 DEF Shaped, Ends, Installing, StartAt, StopAt, Stage, StoppingAt, StartedAt
    <3>3. ASSUME ~mixed', NEW s \in Lifecycle!Supervisors, Lifecycle!Alive(s)' PROVE s = commands'[c].bound
      BY <2>1, <3>1, <3>3 DEF Lifecycle!Alive
    <3>4. ~mixed' => Versions(commands[c])'
      BY <2>1, <2>4, <3>1, <3>2, <3>3 DEF Versions
    <3> QED BY <1>1, <2>1, <2>2, <3>1, <3>2, <3>4, CommandTurns
  <2> QED BY <2>3, <2>4
<1> QED BY <1>2, <1>3 DEF Lifecycle!InstallUpdate

LEMMA StoppedForUpdateHolds == ASSUME LifecycleInv, NEW c \in Clients, Lifecycle!StoppedForUpdate(c) PROVE LifecycleInv'
<1> DEFINE r == commands[c]
<1>1. Lifecycle!NoFault /\ Lifecycle!CommandOnly /\ r.pc \in {"stopped", "looked"}
  BY DEF Lifecycle!StoppedForUpdate, Lifecycle!Stopped, Lifecycle!At
<1>2. Stage(r) = "stop" /\ r.pc \notin {"cleared", "removing"}
  BY <1>1, UpdateStage DEF StoppingAt
<1>3. CASE r.pc = "stopped" /\ r.outcome = "ok" /\ Lifecycle!Command(c, Lifecycle!Starting(r, "restored"))
  <2>1. ~Lifecycle!Alive(r.bound)
    BY <1>3 DEF LifecycleInv, UpdateInv, Ends
  <2> QED BY <1>1, <1>2, <1>3, <2>1, StartsAgain
<1>4. CASE Lifecycle!Command(c, Lifecycle!Idle)
  BY <1>1, <1>2, <1>4, GivenUp
<1>5. CASE r.pc = "stopped" /\ Lifecycle!Goto(c, "look")
  BY <1>1, <1>5, GoesOn
<1>6. CASE r.pc = "looked" /\ Lifecycle!Gone(r.bound) /\ Lifecycle!Command(c, Lifecycle!Starting(r, "restored"))
  <2>1. ~Lifecycle!Alive(r.bound)
    BY <1>6 DEF Lifecycle!Gone
  <2> QED BY <1>1, <1>2, <1>6, <2>1, StartsAgain
<1> QED BY <1>3, <1>4, <1>5, <1>6 DEF Lifecycle!StoppedForUpdate, Lifecycle!Stopped, Lifecycle!At

LEMMA StoppedForRollbackHolds == ASSUME LifecycleInv, NEW c \in Clients, Lifecycle!StoppedForRollback(c) PROVE LifecycleInv'
<1> DEFINE r == commands[c]
<1>1. Lifecycle!NoFault /\ Lifecycle!CommandOnly /\ r.pc \in {"halted", "relooked"} /\ r.pc \notin {"cleared", "removing"}
  BY DEF Lifecycle!StoppedForRollback, Lifecycle!Stopped, Lifecycle!At
<1>2. CASE Lifecycle!Goto(c, "rollback")
  BY <1>1, <1>2, GoesOn
<1>3. CASE Lifecycle!Command(c, Lifecycle!Idle)
  BY <1>1, <1>3, GivenUp
<1>4. CASE r.pc = "halted" /\ Lifecycle!Goto(c, "relook")
  BY <1>1, <1>4, GoesOn
<1> QED BY <1>2, <1>3, <1>4 DEF Lifecycle!StoppedForRollback, Lifecycle!Stopped, Lifecycle!At,
           Lifecycle!Goto

LEMMA RestoredHolds == ASSUME LifecycleInv, NEW c \in Clients, Lifecycle!Restored(c) PROVE LifecycleInv'
<1> DEFINE r == commands[c]
<1>1. Lifecycle!NoFault /\ Lifecycle!CommandOnly /\ r.pc \in {"restored", "observed"} /\ Aged
  BY AgedSame DEF Lifecycle!Restored, Lifecycle!At, Lifecycle!CommandOnly, LifecycleInv
<1>2. Stage(r) = "start" /\ r.pc \notin {"cleared", "removing"}
  BY <1>1, UpdateStage DEF StartedAt
<1>3. CASE r.pc = "restored" /\ Lifecycle!Goto(c, IF r.outcome = "ok" THEN "updated" ELSE "observe")
  BY <1>1, <1>3, GoesOn
<1>4. CASE r.pc = "observed" /\ r.found # Lifecycle!None /\ Lifecycle!Goto(c, "updated")
  BY <1>1, <1>4, GoesOn
<1>5. CASE r.pc = "observed" /\ Lifecycle!Command(c, Lifecycle!Stopping(r, r.found, "halted"))
  <2>1. /\ Moves(c) /\ commands'[c].pc = "snapshot" /\ commands'[c].back = "halted"
        /\ commands'[c].probing = commands[c].probing
    BY <1>1, <1>5, StoppingIs DEF LifecycleInv
  <2> QED BY <1>1, <1>2, <1>5, <2>1, HaltsOn
<1>6. CASE Lifecycle!Command(c, Lifecycle!Idle)
  BY <1>1, <1>2, <1>6, GivenUp
<1>7. CASE r.pc = "observed" /\ Lifecycle!Goto(c, "rollback")
  <2>1. "rollback" \in Pcs
    BY DEF Pcs, HaltingAt
  <2>2. /\ Moves(c) /\ commands'[c].pc = "rollback" /\ commands'[c].back = r.back
        /\ commands'[c].probing = commands[c].probing
    BY <1>1, <1>7, <2>1, MovesGoto DEF LifecycleInv
  <2> QED BY <1>1, <1>2, <1>7, <2>2, HaltsOn
<1> QED BY <1>3, <1>4, <1>5, <1>6, <1>7 DEF Lifecycle!Restored, Lifecycle!At, Lifecycle!Goto

LEMMA RollbackHolds == ASSUME LifecycleInv, NEW c \in Clients, Lifecycle!Rollback(c) PROVE LifecycleInv'
<1> DEFINE r == commands[c]
<1>1. r.pc = "rollback" /\ ~r.probing /\ Stage(r) = "halt" /\ r.pc \notin {"cleared", "removing"}
  <2>1. r.pc = "rollback" /\ r.pc \in HaltingAt
    BY DEF Lifecycle!Rollback, Lifecycle!At, HaltingAt
  <2> QED BY <2>1, UpdateStage DEF LifecycleInv, UpdateInv, Shaped, DiscoverAt
<1>2. CASE Lifecycle!InstallFails(c)
  BY <1>1, <1>2, GivenUp DEF Lifecycle!InstallFails
<1>3. CASE Lifecycle!Install(c, "old", Lifecycle!None, Lifecycle!Starting(r, "reverted"))
  <2>1. /\ package' = "old" /\ (mixed => mixed') /\ Lifecycle!NoFault
        /\ ~mixed' => \A s \in Lifecycle!Supervisors : ~Lifecycle!Alive(s)
        /\ UNCHANGED <<supervisors, Lifecycle!Files, removals, crossed>> /\ Aged
    BY <1>3, AgedSame, NoneApart DEF Lifecycle!Install, LifecycleInv
  <2>2. spent' \in SpentSet /\ spent'.updates = spent.updates
    BY <2>1, FaultType DEF LifecycleInv
  <2>3. /\ Moves(c) /\ commands'[c].pc = "find" /\ commands'[c].back = "reverted" /\ ~commands'[c].probing
    BY <1>1, <1>3, <2>1, StartingIs DEF Lifecycle!Install, LifecycleInv
  <2>4. Shaped(commands'[c]) /\ Ends(commands[c])'
    BY <2>3 DEF Shaped, Ends, Installing, StartAt, StopAt, DiscoverAt
  <2>5. Stage(commands'[c]) = "revert" /\ ~Looked(commands'[c])
    BY <2>3 DEF Stage, Looked, Installing, StoppingAt, StartedAt, HaltingAt, RevertedAt, StopAt,
       StartAt
  <2>6. ~mixed' => AllRun("old")'
    BY <2>1 DEF AllRun, Lifecycle!Alive
  <2>7. ~mixed' => Versions(commands[c])'
    BY <2>1, <2>5, <2>6 DEF Versions
  <2> QED BY <1>1, <2>1, <2>2, <2>3, <2>4, <2>7, CommandTurns
<1> QED BY <1>2, <1>3 DEF Lifecycle!Rollback

LEMMA RolledBackHolds == ASSUME LifecycleInv, NEW c \in Clients, Lifecycle!RolledBack(c) PROVE LifecycleInv'
<1> DEFINE r == commands[c]
<1>1. Lifecycle!NoFault /\ Lifecycle!CommandOnly /\ r.pc \notin {"cleared", "removing"}
  BY DEF Lifecycle!RolledBack, Lifecycle!At
<1>2. CASE r.pc = "reverted" /\ Lifecycle!Goto(c, IF r.outcome = "ok" THEN "rolledBack" ELSE "reobserve")
  BY <1>1, <1>2, GoesOn
<1>3. CASE r.pc = "reobserved" /\ r.found # Lifecycle!None /\ Lifecycle!Goto(c, "rolledBack")
  BY <1>1, <1>3, GoesOn
<1>4. CASE Lifecycle!Command(c, Lifecycle!Idle)
  BY <1>1, <1>4, GivenUp
<1> QED BY <1>2, <1>3, <1>4 DEF Lifecycle!RolledBack, Lifecycle!At

LEMMA ReportedHolds == ASSUME LifecycleInv, NEW c \in Clients, Lifecycle!Reported(c) PROVE LifecycleInv'
BY GivenUp DEF Lifecycle!Reported

------------------------
(* The theorems. *)

LEMMA LifecycleInit == Lifecycle!Init => LifecycleInv
<1> SUFFICES ASSUME Lifecycle!Init PROVE LifecycleInv
  OBVIOUS
<1>1. LifecycleTypeInv
  BY TypeInit
<1>2. \A s \in Lifecycle!Supervisors : supervisors[s].phase = "unborn"
  BY DEF Lifecycle!Init, Lifecycle!Unborn
<1>3. \A p \in Processes : removals[p].at = "none"
  BY DEF Lifecycle!Init, Processes, Lifecycle!NoRemoval
<1>4. \A c \in Clients : commands[c] = Lifecycle!Idle
  BY DEF Lifecycle!Init
<1>5. NamedInv
  <2>1. \A s \in Lifecycle!Supervisors : ~Lifecycle!Listening(s) /\ ~Serving(s)
    BY <1>2 DEF Lifecycle!Listening, Serving
  <2>2. \A p \in Processes : ~Lifecycle!Removing(p) /\ ~Past(p)
    BY <1>3 DEF Lifecycle!Removing, Past
  <2> QED BY <1>3, <2>1, <2>2
          DEF NamedInv, OneListens, OneRemoves, OwnRemoval, DeadOrOwn, CommandRemoves, Named,
             Processes
<1>6. UpdateInv
  BY <1>4, IdleIs DEF UpdateInv, OneUpdate, Versions
<1> QED BY <1>1, <1>5, <1>6 DEF LifecycleInv

LEMMA DiscoverStepHolds == ASSUME LifecycleInv, NEW c \in Clients, Lifecycle!DiscoverStep(c) PROVE LifecycleInv'
<1>1. PICK pc, next : Search(pc, next) /\ Lifecycle!Discover(c, pc, next)
  BY DEF Lifecycle!DiscoverStep, Search
<1> QED BY <1>1, DiscoverHolds

LEMMA LifecycleStep == LifecycleInv /\ [Lifecycle!Next]_(Lifecycle!lifecycleVars) => LifecycleInv'
<1> SUFFICES ASSUME LifecycleInv, [Lifecycle!Next]_(Lifecycle!lifecycleVars) PROVE LifecycleInv'
  OBVIOUS
<1>1. ASSUME NEW s \in Lifecycle!Supervisors, Lifecycle!SupervisorStep(s) PROVE LifecycleInv'
  BY <1>1, ListenHolds, WriteStateHolds, CloseHolds, RemoveOwnedStateHolds, ExitHolds, CrashHolds
     DEF Lifecycle!SupervisorStep
<1>2. ASSUME NEW p \in Processes, Lifecycle!RemovalStep(p) PROVE LifecycleInv'
  BY <1>2, RemovalStepHolds
<1>3. ASSUME NEW c \in Clients, Lifecycle!StartStep(c) PROVE LifecycleInv'
  BY <1>3, ClearHolds, ClearedHolds, SpawnHolds, PolledHolds DEF Lifecycle!StartStep
<1>4. ASSUME NEW c \in Clients, Lifecycle!ShutdownStep(c) PROVE LifecycleInv'
  BY <1>4, SnapshotHolds, ClearStaleHolds, MeetHolds, AskHolds, ForceStopHolds, WaitHolds,
     RemovedHolds
     DEF Lifecycle!ShutdownStep
<1>5. ASSUME NEW c \in Clients, Lifecycle!UpdateStep(c) PROVE LifecycleInv'
  BY <1>5, InstallUpdateHolds, StoppedForUpdateHolds, RestoredHolds, StoppedForRollbackHolds,
     RollbackHolds, RolledBackHolds, ReportedHolds DEF Lifecycle!UpdateStep
<1>6. CASE UNCHANGED Lifecycle!lifecycleVars
  <2>1. Aged /\ Known' = Known
    BY <1>6, AgedSame DEF Lifecycle!lifecycleVars, LifecycleInv
  <2>2. LifecycleTypeInv'
    BY <1>6, <2>1 DEF LifecycleInv, LifecycleTypeInv, Lifecycle!lifecycleVars
  <2>3. NamedInv'
    <3>1. \A c \in Clients : removals[c].at # "none" => commands'[c].pc \in {"cleared", "removing"}
      BY <1>6 DEF Lifecycle!lifecycleVars, LifecycleInv, NamedInv, CommandRemoves
    <3> QED BY <1>6, <3>1, NamedStays DEF Lifecycle!lifecycleVars, LifecycleInv, Lifecycle!Files
  <2>4. UpdateInv'
    BY <1>6, <2>1, UpdateStays DEF Lifecycle!lifecycleVars, LifecycleInv
  <2> QED BY <2>2, <2>3, <2>4 DEF LifecycleInv
<1>7. DOMAIN removals = Processes
  BY DEF LifecycleInv, LifecycleTypeInv
<1> QED BY <1>1, <1>2, <1>3, <1>4, <1>5, <1>6, <1>7, BeginHolds, DiscoverStepHolds
           DEF Lifecycle!Next

LEMMA LifecycleIsInvariant == Lifecycle!Spec => []LifecycleInv
BY LifecycleInit, LifecycleStep, PTL DEF Lifecycle!Spec

LEMMA RunningIsNamedHolds == Lifecycle!Spec => []Lifecycle!RunningIsNamed
<1>1. LifecycleInv => Lifecycle!RunningIsNamed
  <2> SUFFICES ASSUME LifecycleInv, NEW s \in Lifecycle!Supervisors, supervisors[s].phase = "ready", ~crossed
               PROVE  \/ state = s
                      \/ claim = s /\ \E p \in DOMAIN removals : removals[p].at \in {"claimed", "unlink"}
    BY DEF Lifecycle!RunningIsNamed
  <2>1. Serving(s)
    BY DEF Serving
  <2>2. DOMAIN removals = Processes
    BY DEF LifecycleInv, LifecycleTypeInv
  <2> QED BY <2>1, <2>2 DEF LifecycleInv, NamedInv, Named
<1> QED BY <1>1, LifecycleIsInvariant, PTL

LEMMA UpdateKeepsItsWordHolds == Lifecycle!Spec => []Lifecycle!UpdateKeepsItsWord
<1>1. LifecycleInv => Lifecycle!UpdateKeepsItsWord
  <2> SUFFICES ASSUME LifecycleInv, NEW c \in Clients, commands[c].pc \in {"updated", "rolledBack"}, ~mixed
               PROVE  supervisors[commands[c].found].version = (IF commands[c].pc = "updated" THEN "new" ELSE "old")
    BY DEF Lifecycle!UpdateKeepsItsWord
  <2>1. Looked(commands[c]) /\ Versions(commands[c])
    BY DEF LifecycleInv, UpdateInv, Shaped, Looked
  <2>2. Stage(commands[c]) = (IF commands[c].pc = "updated" THEN "start" ELSE "revert")
    BY UpdateStage DEF StartedAt, RevertedAt
  <2> QED BY <2>1, <2>2 DEF Versions
<1> QED BY <1>1, LifecycleIsInvariant, PTL

------------------------
(* The account monitor, for any number of children and any bounds *)

LEMMA ChildrenAreNumbered == MaxChildren \in Nat
BY ChildrenAssumption DEF Monitor!ChildrenFit

Asked == {"initialize", "account", "limits"}
LineSet == [kind : Asked \cup {"updated", "announced", "broken"}, id : Nat, value : Nat]
ChildSet == [phase : {"unborn", "live", "dead"}, ended : BOOLEAN, kill : BOOLEAN, broken : BOOLEAN,
             requests : Seq(Nat \X Asked), lines : Seq(LineSet)]
Maybe == Monitor!Children \cup {Monitor!None}
MonitorSet == [child : Maybe, closed : BOOLEAN, account : Nat, quota : Nat,
               phase : {"idle", "starting", "ready", "unavailable", "closed"}]
ResultSet == [kind : {"waiting", "failed"}] \cup LineSet
RefreshSet == [at : {"none"} \cup Asked, id : Nat, child : Maybe, read : Nat, result : ResultSet]

\* What is on its way to the monitor was true when it was written: nothing came between, or
\* the line that says so is behind it.
LinesTrue(lines, now) ==
  \A i \in 1..Len(lines) :
    lines[i].kind # "broken" /\ (\A j \in 1..Len(lines) : j > i => lines[j].kind # "updated")
      => lines[i].value = now
Unchanged(lines) == \A i \in 1..Len(lines) : lines[i].kind # "updated"

\* An answer to the request that waits is of its kind.
Answering(id, kind, r) == id <= r.id /\ (id = r.id /\ r.at # "none" /\ r.result.kind = "waiting" => kind = r.at)
RequestsMeant(asks, r) ==
  \A i \in 1..Len(asks) : Answering(asks[i][1], asks[i][2], r)
LinesMeant(lines, r) ==
  \A i \in 1..Len(lines) : lines[i].kind \in Asked => Answering(lines[i].id, lines[i].kind, r)

MonitorTypeInv ==
  /\ monitor \in MonitorSet
  /\ refresh \in RefreshSet
  /\ children \in [Monitor!Children -> ChildSet]
  /\ account \in Nat
  /\ overtaken \in BOOLEAN

\* The child that the monitor has.
Owned ==
  /\ monitor.child # Monitor!None =>
       /\ ~monitor.closed /\ Monitor!Live(monitor.child) /\ ~children[monitor.child].broken
       /\ monitor.phase = "unavailable" => children[monitor.child].ended
  /\ \A c \in Monitor!Children : children[c].phase = "unborn" => children[c] = Monitor!Unborn

Meant(kids, r) ==
  \A c \in Monitor!Children : RequestsMeant(kids[c].requests, r) /\ LinesMeant(kids[c].lines, r)
Truthful == \A c \in Monitor!Children : Monitor!Live(c) => LinesTrue(children[c].lines, account)

\* What a refresh has read, and what it has left behind, as long as no change is on its way.
ReadTrue(m, r, now) ==
  /\ r.at = "none" /\ m.phase = "ready" => m.account = now /\ m.quota \in {Monitor!None, now}
  /\ r.at = "account" /\ r.result.kind = "account" => r.result.value = now
  /\ r.at = "limits" => r.read = now /\ (r.result.kind = "limits" => r.result.value = now)

AccountTrue ==
  /\ refresh.at # "none" => refresh.result.kind \in {"waiting", "failed", refresh.at}
  /\ monitor.child # Monitor!None /\ ~overtaken /\ Unchanged(children[monitor.child].lines)
       => ReadTrue(monitor, refresh, account)

MonitorInv == MonitorTypeInv /\ Owned /\ Truthful /\ Meant(children, refresh) /\ AccountTrue /\ Monitor!ForgottenIsEnded

------------------------
(* Lines and requests. *)

LEMMA LinesAppend ==
  ASSUME NEW lines \in Seq(LineSet), NEW line \in LineSet, NEW now
  PROVE  /\ Append(lines, line) \in Seq(LineSet)
         /\ line.kind = "updated" /\ line.value = now => LinesTrue(Append(lines, line), now)
         /\ line.kind # "updated" /\ (line.kind # "broken" => line.value = now) /\ LinesTrue(lines, now)
              => LinesTrue(Append(lines, line), now)
         /\ Unchanged(Append(lines, line)) => Unchanged(lines) /\ line.kind # "updated"
         /\ \A r : LinesMeant(lines, r) /\ (line.kind \in Asked => Answering(line.id, line.kind, r))
                     => LinesMeant(Append(lines, line), r)
<1> DEFINE more == Append(lines, line)
<1>1. /\ more \in Seq(LineSet) /\ Len(more) = Len(lines) + 1 /\ Len(lines) \in Nat
      /\ more[Len(more)] = line
      /\ \A i \in 1..Len(lines) : i \in 1..Len(more) /\ more[i] = lines[i]
      /\ \A i \in 1..Len(more) : i \in 1..Len(lines) \/ i = Len(more)
      /\ Len(more) \in 1..Len(more)
  OBVIOUS
<1> HIDE DEF more
<1>2. ASSUME line.kind = "updated", line.value = now PROVE LinesTrue(more, now)
  <2>1. SUFFICES ASSUME NEW i \in 1..Len(more), i \in 1..Len(lines),
                        \A j \in 1..Len(more) : j > i => more[j].kind # "updated"
                 PROVE  FALSE
    BY <1>1, <1>2 DEF LinesTrue
  <2>2. Len(more) > i
    BY <1>1, <2>1
  <2> QED BY <1>1, <1>2, <2>1, <2>2
<1>3. ASSUME line.kind # "updated", line.kind # "broken" => line.value = now, LinesTrue(lines, now)
      PROVE  LinesTrue(more, now)
  <2>1. SUFFICES ASSUME NEW i \in 1..Len(more), more[i].kind # "broken",
                        \A j \in 1..Len(more) : j > i => more[j].kind # "updated"
                 PROVE  more[i].value = now
    BY DEF LinesTrue
  <2>2. CASE i \in 1..Len(lines)
    <3>1. \A j \in 1..Len(lines) : j > i => lines[j].kind # "updated"
      BY <1>1, <2>1
    <3> QED BY <1>1, <1>3, <2>1, <2>2, <3>1 DEF LinesTrue
  <2> QED BY <1>1, <1>3, <2>1, <2>2
<1>4. Unchanged(more) => Unchanged(lines) /\ line.kind # "updated"
  <2>1. ASSUME Unchanged(more) PROVE Unchanged(lines)
    BY <1>1, <2>1 DEF Unchanged
  <2>2. ASSUME Unchanged(more) PROVE line.kind # "updated"
    BY <1>1, <2>2 DEF Unchanged
  <2> QED BY <2>1, <2>2
<1>5. ASSUME NEW r, LinesMeant(lines, r), line.kind \in Asked => Answering(line.id, line.kind, r)
      PROVE  LinesMeant(more, r)
  BY <1>1, <1>5 DEF LinesMeant
<1> QED
  BY <1>1, <1>2, <1>3, <1>4, <1>5 DEF more

LEMMA LinesTail ==
  ASSUME NEW lines \in Seq(LineSet), lines # <<>>, NEW now
  PROVE  /\ Head(lines) \in LineSet /\ Tail(lines) \in Seq(LineSet)
         /\ LinesTrue(lines, now) => LinesTrue(Tail(lines), now)
         /\ LinesTrue(lines, now) /\ Head(lines).kind # "broken" /\ Unchanged(Tail(lines))
              => Head(lines).value = now
         /\ Unchanged(Tail(lines)) /\ Head(lines).kind # "updated" => Unchanged(lines)
         /\ \A r : LinesMeant(lines, r) =>
              /\ LinesMeant(Tail(lines), r)
              /\ Head(lines).kind \in Asked => Answering(Head(lines).id, Head(lines).kind, r)
<1> DEFINE rest == Tail(lines)
           head == Head(lines)
<1>1. /\ rest \in Seq(LineSet) /\ Len(rest) = Len(lines) - 1 /\ Len(lines) \in Nat \ {0}
      /\ head = lines[1] /\ head \in LineSet /\ 1 \in 1..Len(lines)
      /\ \A i \in 1..Len(rest) : i + 1 \in 1..Len(lines) /\ rest[i] = lines[i + 1]
      /\ \A i \in 1..Len(lines) : i = 1 \/ (i - 1 \in 1..Len(rest) /\ lines[i] = rest[i - 1])
  OBVIOUS
<1> HIDE DEF rest, head
<1>2. ASSUME LinesTrue(lines, now) PROVE LinesTrue(rest, now)
  <2>1. SUFFICES ASSUME NEW i \in 1..Len(rest), rest[i].kind # "broken",
                        \A j \in 1..Len(rest) : j > i => rest[j].kind # "updated"
                 PROVE  rest[i].value = now
    BY DEF LinesTrue
  <2>2. \A j \in 1..Len(lines) : j > i + 1 => lines[j].kind # "updated"
    <3> SUFFICES ASSUME NEW j \in 1..Len(lines), j > i + 1 PROVE lines[j].kind # "updated"
      OBVIOUS
    <3>1. Len(rest) \in Nat /\ Len(lines) \in Nat
      BY <1>1
    <3>2. j - 1 \in 1..Len(rest) /\ lines[j] = rest[j - 1]
      BY <1>1, <3>1
    <3>3. j - 1 > i
      BY <3>1
    <3> QED BY <2>1, <3>2, <3>3
  <2> QED BY <1>1, <1>2, <2>1, <2>2 DEF LinesTrue
<1>3. ASSUME LinesTrue(lines, now), head.kind # "broken", Unchanged(rest) PROVE head.value = now
  <2>1. \A j \in 1..Len(lines) : j > 1 => lines[j].kind # "updated"
    BY <1>1, <1>3 DEF Unchanged
  <2> QED BY <1>1, <1>3, <2>1 DEF LinesTrue
<1>4. Unchanged(rest) /\ head.kind # "updated" => Unchanged(lines)
  BY <1>1 DEF Unchanged
<1>5. ASSUME NEW r, LinesMeant(lines, r)
      PROVE  LinesMeant(rest, r) /\ (head.kind \in Asked => Answering(head.id, head.kind, r))
  BY <1>1, <1>5 DEF LinesMeant
<1> QED
  BY <1>1, <1>2, <1>3, <1>4, <1>5 DEF rest, head

LEMMA RequestsQueue ==
  ASSUME NEW asks \in Seq(Nat \X Asked), NEW id \in Nat, NEW at \in Asked
  PROVE  /\ Append(asks, <<id, at>>) \in Seq(Nat \X Asked)
         /\ \A r : RequestsMeant(asks, r) /\ Answering(id, at, r)
                     => RequestsMeant(Append(asks, <<id, at>>), r)
         /\ asks # <<>> =>
              /\ Head(asks)[1] \in Nat /\ Head(asks)[2] \in Asked
              /\ Tail(asks) \in Seq(Nat \X Asked)
              /\ \A r : RequestsMeant(asks, r) =>
                   /\ RequestsMeant(Tail(asks), r)
                   /\ Answering(Head(asks)[1], Head(asks)[2], r)
<1> DEFINE more == Append(asks, <<id, at>>)
<1>1. <<id, at>> \in Nat \X Asked /\ <<id, at>>[1] = id /\ <<id, at>>[2] = at
  OBVIOUS
<1>2. /\ more \in Seq(Nat \X Asked) /\ Len(more) = Len(asks) + 1 /\ Len(asks) \in Nat
      /\ more[Len(more)] = <<id, at>>
      /\ \A i \in 1..Len(more) : i = Len(more) \/ (i \in 1..Len(asks) /\ more[i] = asks[i])
  BY <1>1
<1> HIDE DEF more
<1>3. ASSUME NEW r, RequestsMeant(asks, r), Answering(id, at, r) PROVE RequestsMeant(more, r)
  BY <1>1, <1>2, <1>3 DEF RequestsMeant
<1>4. ASSUME asks # <<>>
      PROVE  /\ Head(asks)[1] \in Nat /\ Head(asks)[2] \in Asked
             /\ Tail(asks) \in Seq(Nat \X Asked)
             /\ \A r : RequestsMeant(asks, r) =>
                   /\ RequestsMeant(Tail(asks), r)
                   /\ Answering(Head(asks)[1], Head(asks)[2], r)
  <2>1. /\ Tail(asks) \in Seq(Nat \X Asked) /\ Len(Tail(asks)) = Len(asks) - 1
        /\ Head(asks) = asks[1] /\ 1 \in 1..Len(asks) /\ Head(asks) \in Nat \X Asked
        /\ \A i \in 1..Len(Tail(asks)) : i + 1 \in 1..Len(asks) /\ Tail(asks)[i] = asks[i + 1]
    BY <1>4
  <2>2. Head(asks)[1] \in Nat /\ Head(asks)[2] \in Asked
    BY <2>1
  <2> QED BY <2>1, <2>2 DEF RequestsMeant
<1> QED
  BY <1>2, <1>3, <1>4 DEF more

\* A newer request, or the same one that waits no longer: what was meant still is.
Later(r, next) ==
  \/ next.id > r.id
  \/ /\ next.id = r.id
     /\ next.at # "none" /\ next.result.kind = "waiting"
          => next.at = r.at /\ r.result.kind = "waiting"

LEMMA MeantLater ==
  ASSUME NEW r \in RefreshSet, NEW next \in RefreshSet, Later(r, next)
  PROVE  /\ \A id \in Nat : \A kind : Answering(id, kind, r) => Answering(id, kind, next)
         /\ \A asks \in Seq(Nat \X Asked) : RequestsMeant(asks, r) => RequestsMeant(asks, next)
         /\ \A lines \in Seq(LineSet) : LinesMeant(lines, r) => LinesMeant(lines, next)
<1>1. \A id \in Nat : \A kind : Answering(id, kind, r) => Answering(id, kind, next)
  BY DEF Answering, Later, RefreshSet
<1>2. ASSUME NEW asks \in Seq(Nat \X Asked), RequestsMeant(asks, r)
      PROVE  RequestsMeant(asks, next)
  <2>1. \A i \in 1..Len(asks) : asks[i][1] \in Nat
    OBVIOUS
  <2> QED BY <1>1, <1>2, <2>1 DEF RequestsMeant
<1>3. ASSUME NEW lines \in Seq(LineSet), LinesMeant(lines, r) PROVE LinesMeant(lines, next)
  <2>1. \A i \in 1..Len(lines) : lines[i] \in LineSet
    OBVIOUS
  <2>2. \A i \in 1..Len(lines) : lines[i].id \in Nat
    BY <2>1 DEF LineSet
  <2> QED BY <1>1, <1>3, <2>2 DEF LinesMeant
<1> QED BY <1>1, <1>2, <1>3

LEMMA KidsMeantLater ==
  ASSUME NEW r \in RefreshSet, NEW next \in RefreshSet, Later(r, next),
         NEW kids \in [Monitor!Children -> ChildSet], Meant(kids, r)
  PROVE  Meant(kids, next)
<1>1. \A c \in Monitor!Children : kids[c].requests \in Seq(Nat \X Asked) /\ kids[c].lines \in Seq(LineSet)
  BY DEF ChildSet
<1> QED BY <1>1, MeantLater DEF Meant

------------------------
(* What the handlers are made of. *)

\* Children that are asked something, or told to end, at the most.
Kept(kids, old) ==
  /\ kids \in [Monitor!Children -> ChildSet]
  /\ \A c \in Monitor!Children :
       /\ kids[c].phase = old[c].phase /\ kids[c].broken = old[c].broken
       /\ kids[c].lines = old[c].lines
       /\ old[c].ended => kids[c].ended
       /\ old[c].phase = "unborn" => kids[c] = old[c]

LEMMA RetiredType ==
  ASSUME NEW kids \in [Monitor!Children -> ChildSet], NEW c \in Maybe
  PROVE  /\ Kept(Monitor!Retired(kids, c), kids)
         /\ c # Monitor!None /\ kids[c].phase = "live" => Monitor!Retired(kids, c)[c].ended
         /\ \A r : Meant(kids, r) => Meant(Monitor!Retired(kids, c), r)
<1>1. CASE c # Monitor!None /\ kids[c].phase = "live"
  <2> DEFINE record == [kids[c] EXCEPT !.ended = TRUE, !.kill = TRUE]
  <2>1. c \in Monitor!Children /\ kids[c] \in ChildSet
    BY <1>1 DEF Maybe
  <2>2. /\ record \in ChildSet /\ record.ended
        /\ record.phase = kids[c].phase /\ record.broken = kids[c].broken
        /\ record.requests = kids[c].requests /\ record.lines = kids[c].lines
    BY <2>1 DEF ChildSet
  <2>3. Monitor!Retired(kids, c) = [kids EXCEPT ![c] = record]
    BY <1>1, <2>1 DEF Monitor!Retired
  <2> HIDE DEF record
  <2>4. Kept(Monitor!Retired(kids, c), kids) /\ Monitor!Retired(kids, c)[c] = record
    BY <1>1, <2>1, <2>2, <2>3 DEF Kept
  <2>5. \A d \in Monitor!Children : /\ Monitor!Retired(kids, c)[d].requests = kids[d].requests
                                    /\ Monitor!Retired(kids, c)[d].lines = kids[d].lines
    BY <2>1, <2>2, <2>3
  <2> QED BY <2>2, <2>4, <2>5 DEF Meant
<1>2. CASE ~(c # Monitor!None /\ kids[c].phase = "live")
  BY <1>2 DEF Monitor!Retired, Kept
<1> QED BY <1>1, <1>2

LEMMA KeptTwice ==
  ASSUME NEW kids, NEW old, NEW older, Kept(kids, old), Kept(old, older)
  PROVE  Kept(kids, older)
BY DEF Kept

LEMMA KeptSame == ASSUME NEW kids \in [Monitor!Children -> ChildSet] PROVE Kept(kids, kids)
BY DEF Kept

LEMMA RequestType ==
  ASSUME NEW r \in RefreshSet, NEW m \in MonitorSet, NEW kids \in [Monitor!Children -> ChildSet],
         NEW at \in Asked, Meant(kids, r), Monitor!Request(r, m, kids, at)
  PROVE  /\ refresh' \in RefreshSet
         /\ refresh'.at = at /\ refresh'.read = r.read /\ refresh'.result.kind \in {"waiting", "failed"}
         /\ Kept(children', kids) /\ Meant(children', refresh')
<1> DEFINE waiting == [kind |-> "waiting"]
           failed == [kind |-> "failed"]
           next == [r EXCEPT !.at = at, !.id = r.id + 1, !.result = waiting]
           open == m.child # Monitor!None /\ kids[m.child].phase = "live" /\ ~kids[m.child].broken
<1>1. waiting \in ResultSet /\ failed \in ResultSet /\ waiting.kind = "waiting" /\ failed.kind = "failed"
  BY DEF ResultSet
<1>2. r.id + 1 \in Nat
  BY DEF RefreshSet
<1> HIDE DEF waiting, failed
<1>3. /\ next \in RefreshSet /\ next.at = at /\ next.read = r.read /\ next.id = r.id + 1
      /\ next.result = waiting
  BY <1>1, <1>2 DEF RefreshSet
<1>4. refresh' \in {next, [next EXCEPT !.result = failed]}
  BY DEF Monitor!Request, Monitor!Failed, failed, waiting
<1> HIDE DEF next
<1>5. /\ [next EXCEPT !.result = failed] \in RefreshSet /\ [next EXCEPT !.result = failed].result = failed
      /\ [next EXCEPT !.result = failed].at = at /\ [next EXCEPT !.result = failed].read = r.read
      /\ [next EXCEPT !.result = failed].id = r.id + 1
  BY <1>1, <1>3 DEF RefreshSet
<1>6. /\ refresh' \in RefreshSet /\ refresh'.at = at /\ refresh'.read = r.read /\ refresh'.id = r.id + 1
      /\ refresh'.result.kind \in {"waiting", "failed"}
  BY <1>1, <1>3, <1>4, <1>5
<1>7. Later(r, refresh') /\ Answering(r.id + 1, at, refresh') /\ r.id + 1 \in Nat
  BY <1>6 DEF Later, Answering, RefreshSet
<1>8. ASSUME NEW c \in Monitor!Children
      PROVE  /\ RequestsMeant(kids[c].requests, refresh') /\ LinesMeant(kids[c].lines, refresh')
             /\ kids[c].requests \in Seq(Nat \X Asked)
  <2>1. kids[c].requests \in Seq(Nat \X Asked) /\ kids[c].lines \in Seq(LineSet)
    BY DEF ChildSet
  <2>2. RequestsMeant(kids[c].requests, r) /\ LinesMeant(kids[c].lines, r)
    BY DEF Meant
  <2> QED BY <1>6, <1>7, <2>1, <2>2, MeantLater
<1>9. CASE open
  <2> DEFINE c == m.child
             asked == Append(kids[c].requests, <<r.id + 1, at>>)
             record == [kids[c] EXCEPT !.requests = asked]
  <2>1. c \in Monitor!Children /\ kids[c] \in ChildSet
    BY <1>9 DEF Maybe, MonitorSet
  <2>2. asked \in Seq(Nat \X Asked) /\ RequestsMeant(asked, refresh')
    BY <1>7, <1>8, <2>1, RequestsQueue
  <2>3. children' = [kids EXCEPT ![c] = record]
    BY <1>9, <2>1 DEF Monitor!Request
  <2> HIDE DEF asked
  <2>4. /\ record \in ChildSet /\ record.requests = asked
        /\ record.phase = kids[c].phase /\ record.broken = kids[c].broken
        /\ record.ended = kids[c].ended /\ record.lines = kids[c].lines
    BY <2>1, <2>2 DEF ChildSet
  <2> HIDE DEF record
  <2>5. Kept(children', kids)
    BY <1>9, <2>1, <2>3, <2>4 DEF Kept
  <2>6. Meant(children', refresh')
    BY <1>8, <2>1, <2>2, <2>3, <2>4 DEF Meant
  <2> QED BY <1>6, <2>5, <2>6
<1>10. CASE ~open
  <2>1. children' = kids
    BY <1>10 DEF Monitor!Request
  <2> QED BY <1>6, <1>8, <2>1, KeptSame DEF Meant
<1> QED BY <1>9, <1>10

\* What the end of a refresh leaves of it.
LEMMA NoRefreshType ==
  ASSUME refresh \in RefreshSet, refresh' = [Monitor!NoRefresh EXCEPT !.id = refresh.id]
  PROVE  /\ refresh' \in RefreshSet /\ refresh'.at = "none"
         /\ \A kids \in [Monitor!Children -> ChildSet] : Meant(kids, refresh) => Meant(kids, refresh')
<1> DEFINE waiting == [kind |-> "waiting"]
<1>1. refresh' = [at |-> "none", id |-> refresh.id, child |-> Monitor!None, read |-> Monitor!None, result |-> waiting]
  BY DEF Monitor!NoRefresh
<1>2. waiting \in ResultSet /\ refresh.id \in Nat /\ Monitor!None \in Maybe /\ Monitor!None \in Nat
  BY DEF ResultSet, RefreshSet, Maybe, Monitor!None
<1> HIDE DEF waiting
<1>5. /\ refresh'.at = "none" /\ refresh'.id = refresh.id /\ refresh'.child = Monitor!None
      /\ refresh'.read = Monitor!None /\ refresh'.result = waiting
  BY <1>1
<1>6. "none" \in {"none"} \cup Asked
  OBVIOUS
<1>7. [at |-> "none", id |-> refresh.id, child |-> Monitor!None, read |-> Monitor!None, result |-> waiting] \in RefreshSet
  BY <1>2, <1>6 DEF RefreshSet
<1>3. refresh' \in RefreshSet
  BY <1>1, <1>7, Zenon
<1>4. Later(refresh, refresh')
  BY <1>5 DEF Later
<1> QED BY <1>3, <1>4, <1>5, KidsMeantLater

\* A request that is refused, or that waits too long.
LEMMA FailedType ==
  ASSUME refresh \in RefreshSet, refresh' \in {Monitor!Failed(refresh), Monitor!RejectPending(refresh)}
  PROVE  /\ refresh' \in RefreshSet /\ Later(refresh, refresh')
         /\ refresh'.at = refresh.at /\ refresh'.read = refresh.read
         /\ refresh'.result.kind = "failed" \/ refresh'.result = refresh.result
         /\ \A kids \in [Monitor!Children -> ChildSet] : Meant(kids, refresh) => Meant(kids, refresh')
<1> DEFINE failed == [kind |-> "failed"]
           next == [refresh EXCEPT !.result = failed]
<1>1. failed \in ResultSet /\ failed.kind = "failed"
  BY DEF ResultSet
<1>2. refresh' = next \/ refresh' = refresh
  BY DEF Monitor!Failed, Monitor!RejectPending
<1> HIDE DEF failed
<1>3. /\ next \in RefreshSet /\ next.at = refresh.at /\ next.read = refresh.read
      /\ next.id = refresh.id /\ next.result = failed
  BY <1>1 DEF RefreshSet
<1> HIDE DEF next
<1>4. /\ refresh' \in RefreshSet /\ Later(refresh, refresh')
      /\ refresh'.at = refresh.at /\ refresh'.read = refresh.read
      /\ refresh'.result.kind = "failed" \/ refresh'.result = refresh.result
  BY <1>1, <1>2, <1>3 DEF Later
<1> QED BY <1>4, KidsMeantLater

LEMMA KeptHolds ==
  ASSUME MonitorInv, Kept(children', children), account' = account, monitor' \in MonitorSet,
         monitor'.closed = monitor.closed \/ monitor'.child = Monitor!None,
         \/ /\ monitor'.child = monitor.child
            /\ monitor'.phase = "unavailable" /\ monitor.child # Monitor!None
                 => monitor.phase = "unavailable" \/ children'[monitor.child].ended
         \/ monitor'.child = Monitor!None /\ (monitor.child # Monitor!None => children'[monitor.child].ended)
  PROVE  Owned' /\ Monitor!ForgottenIsEnded' /\ Truthful' /\ children' \in [Monitor!Children -> ChildSet]
<1>1. children' \in [Monitor!Children -> ChildSet] /\ monitor.child \in Maybe /\ monitor'.child \in Maybe
  BY DEF Kept, MonitorInv, MonitorTypeInv, MonitorSet
<1>2. Owned'
  <2>1. monitor'.child # Monitor!None =>
          /\ ~monitor'.closed /\ Monitor!Live(monitor.child)' /\ ~children'[monitor.child].broken
          /\ monitor'.phase = "unavailable" => children'[monitor.child].ended
    BY <1>1 DEF MonitorInv, Owned, Kept, Monitor!Live, Maybe
  <2>2. \A c \in Monitor!Children : children'[c].phase = "unborn" => children'[c] = Monitor!Unborn
    BY <1>1 DEF MonitorInv, Owned, Kept
  <2>3. monitor'.child # Monitor!None => monitor'.child = monitor.child
    OBVIOUS
  <2> QED BY <2>1, <2>2, <2>3 DEF Owned
<1>3. Monitor!ForgottenIsEnded'
  BY <1>1 DEF MonitorInv, Monitor!ForgottenIsEnded, Kept, Monitor!Live
<1>4. Truthful'
  BY <1>1 DEF MonitorInv, Truthful, Kept, Monitor!Live
<1> QED BY <1>1, <1>2, <1>3, <1>4

\* The child of the monitor may have been asked something: its lines are the same.
LEMMA KeptLines ==
  ASSUME MonitorInv, Kept(children', children), monitor'.child = monitor.child, overtaken' = overtaken,
         account' = account, refresh'.at # "none" => refresh'.result.kind \in {"waiting", "failed", refresh'.at},
         ReadTrue(monitor, refresh, account) => ReadTrue(monitor', refresh', account)
  PROVE  AccountTrue'
<1>1. monitor.child # Monitor!None => children'[monitor.child].lines = children[monitor.child].lines
  BY DEF Kept, MonitorInv, MonitorTypeInv, MonitorSet, Maybe
<1> QED BY <1>1 DEF MonitorInv, AccountTrue

LEMMA NoChildTrue ==
  ASSUME monitor'.child = Monitor!None, refresh'.at # "none" => refresh'.result.kind \in {"waiting", "failed", refresh'.at}
  PROVE  AccountTrue'
BY DEF AccountTrue

------------------------
(* Refreshing. *)

LEMMA RefreshStep == ASSUME MonitorInv, Monitor!Refresh PROVE MonitorInv'
<1> USE DEF MonitorInv
<1>1. /\ monitor \in MonitorSet /\ refresh \in RefreshSet /\ children \in [Monitor!Children -> ChildSet]
      /\ account' = account /\ account' \in Nat /\ overtaken' = FALSE /\ overtaken' \in BOOLEAN
      /\ ~monitor.closed
  BY DEF Monitor!Refresh, MonitorTypeInv
<1>2. CASE monitor.child # Monitor!None /\ monitor.phase # "unavailable"
  <2>1. Monitor!Request(refresh, monitor, children, "account") /\ monitor' = monitor
    BY <1>2 DEF Monitor!Refresh
  <2>2. /\ refresh' \in RefreshSet /\ refresh'.at = "account" /\ refresh'.result.kind \in {"waiting", "failed"}
        /\ Kept(children', children) /\ Meant(children', refresh')
    BY <1>1, <2>1, RequestType DEF Asked
  <2>3. Owned' /\ Monitor!ForgottenIsEnded' /\ Truthful' /\ children' \in [Monitor!Children -> ChildSet]
    BY <1>1, <2>1, <2>2, KeptHolds
  <2>4. AccountTrue'
    BY <2>2 DEF AccountTrue, ReadTrue
  <2> QED BY <1>1, <2>1, <2>2, <2>3, <2>4 DEF MonitorTypeInv
<1>3. CASE ~(monitor.child # Monitor!None /\ monitor.phase # "unavailable")
  <2>1. PICK c \in Monitor!Children :
          /\ children[c].phase = "unborn"
          /\ monitor' = [monitor EXCEPT !.child = c, !.phase = "starting"]
          /\ Monitor!Request([refresh EXCEPT !.child = c], monitor',
                             [children EXCEPT ![c].phase = "live"], "initialize")
    BY <1>3 DEF Monitor!Refresh
  <2> DEFINE r == [refresh EXCEPT !.child = c]
             record == [children[c] EXCEPT !.phase = "live"]
             kids == [children EXCEPT ![c] = record]
  <2>2. c \in Maybe /\ c # Monitor!None
    BY ChildrenAreNumbered DEF Maybe, Monitor!Children, Monitor!None
  <2>3. /\ r \in RefreshSet /\ r.id = refresh.id /\ r.at = refresh.at /\ r.result = refresh.result
    BY <1>1, <2>2 DEF RefreshSet
  <2>4. monitor' \in MonitorSet /\ monitor'.child = c /\ monitor'.phase = "starting" /\ ~monitor'.closed
    BY <1>1, <2>1, <2>2 DEF MonitorSet
  <2>5. children[c] = Monitor!Unborn /\ children[c] \in ChildSet
    BY <1>1, <2>1 DEF Owned
  <2>6. /\ record \in ChildSet /\ record.phase = "live" /\ ~record.broken
        /\ record.requests = <<>> /\ record.lines = <<>>
    <3>1. children[c].broken = FALSE /\ children[c].requests = <<>> /\ children[c].lines = <<>>
      BY <2>5 DEF Monitor!Unborn
    <3> QED BY <2>5, <3>1 DEF ChildSet
  <2>7. Monitor!Request(r, monitor', kids, "initialize")
    BY <1>1, <2>1
  <2> HIDE DEF r, record
  <2>8. /\ kids \in [Monitor!Children -> ChildSet] /\ kids[c] = record
        /\ \A d \in Monitor!Children : d # c => kids[d] = children[d]
    BY <1>1, <2>6
  <2> HIDE DEF kids
  <2>9. Meant(kids, r)
    <3>1. \A d \in Monitor!Children : children[d].requests \in Seq(Nat \X Asked) /\ children[d].lines \in Seq(LineSet)
      BY <1>1 DEF ChildSet
    <3>2. Later(refresh, r)
      BY <2>3 DEF Later
    <3>3. Meant(children, r)
      BY <1>1, <2>3, <3>2, KidsMeantLater
    <3>4. RequestsMeant(<<>>, r) /\ LinesMeant(<<>>, r)
      BY DEF RequestsMeant, LinesMeant
    <3> QED BY <2>6, <2>8, <3>3, <3>4 DEF Meant
  <2>10. /\ refresh' \in RefreshSet /\ refresh'.at = "initialize" /\ refresh'.result.kind \in {"waiting", "failed"}
         /\ Kept(children', kids) /\ Meant(children', refresh')
    BY <2>3, <2>4, <2>7, <2>8, <2>9, RequestType DEF Asked
  <2>11. Owned'
    BY <2>2, <2>4, <2>6, <2>8, <2>10 DEF Owned, Kept, Monitor!Live
  <2>12. Monitor!ForgottenIsEnded'
    <3>1. ASSUME NEW d \in Monitor!Children, Monitor!Live(d)', d # c
          PROVE  children'[d].ended \/ children'[d].broken
      <4>1. /\ children'[d].phase = children[d].phase /\ children'[d].broken = children[d].broken
            /\ children[d].ended => children'[d].ended
        BY <2>8, <2>10, <3>1 DEF Kept
      <4>2. Monitor!Live(d)
        BY <3>1, <4>1 DEF Monitor!Live
      <4>3. children[d].ended \/ children[d].broken
        BY <1>3, <2>2, <4>2 DEF Monitor!ForgottenIsEnded, Owned, Monitor!Live
      <4> QED BY <4>1, <4>3
    <3> QED BY <2>4, <3>1 DEF Monitor!ForgottenIsEnded
  <2>13. Truthful'
    <3>1. LinesTrue(<<>>, account)
      BY DEF LinesTrue
    <3>2. ASSUME NEW d \in Monitor!Children, Monitor!Live(d)' PROVE LinesTrue(children'[d].lines, account)
      BY <2>6, <2>8, <2>10, <3>1, <3>2 DEF Kept, Monitor!Live, Truthful
    <3> QED BY <1>1, <3>2 DEF Truthful
  <2>14. AccountTrue'
    BY <2>10 DEF AccountTrue, ReadTrue
  <2> QED BY <1>1, <2>4, <2>10, <2>11, <2>12, <2>13, <2>14 DEF MonitorTypeInv, Kept
<1> QED BY <1>2, <1>3
LEMMA RetiredStep ==
  ASSUME MonitorInv, account' = account, overtaken' = overtaken,
         NEW kids, Kept(kids, children), Meant(kids, refresh),
         NEW m \in MonitorSet, m.closed = monitor.closed,
         \/ m.child = monitor.child
         \/ m.child = Monitor!None /\ kids[monitor.child].ended,
         Monitor!GiveUp(kids, m)
  PROVE  MonitorInv'
<1> USE DEF MonitorInv
<1>1. /\ kids \in [Monitor!Children -> ChildSet] /\ m.child \in Maybe /\ refresh \in RefreshSet
      /\ children' = Monitor!Retired(kids, m.child) /\ monitor.child \in Maybe
      /\ overtaken \in BOOLEAN /\ account \in Nat
  BY DEF Kept, MonitorTypeInv, MonitorSet, Monitor!GiveUp
<1>2. /\ Kept(children', kids) /\ Meant(children', refresh)
      /\ m.child # Monitor!None /\ kids[m.child].phase = "live" => children'[m.child].ended
  BY <1>1, RetiredType
<1>3. Kept(children', children)
  BY <1>2, KeptTwice
<1>4. monitor' \in MonitorSet /\ monitor'.child = Monitor!None /\ monitor'.closed = monitor.closed
  BY DEF Monitor!GiveUp, MonitorSet, Maybe, Monitor!None
<1>5. monitor.child # Monitor!None => children'[monitor.child].ended
  BY <1>1, <1>2 DEF Kept, Owned, Monitor!Live, Maybe
<1>6. Owned' /\ Monitor!ForgottenIsEnded' /\ Truthful' /\ children' \in [Monitor!Children -> ChildSet]
  BY <1>3, <1>4, <1>5, KeptHolds
<1>7. refresh' \in RefreshSet /\ refresh'.at = "none" /\ Meant(children', refresh')
  BY <1>1, <1>2, <1>6, NoRefreshType DEF Monitor!GiveUp
<1>8. AccountTrue'
  BY <1>4, <1>7, NoChildTrue
<1> QED BY <1>1, <1>4, <1>6, <1>7, <1>8 DEF MonitorTypeInv

\* A request on behalf of the refresh, to the child of the monitor.
LEMMA RequestStep ==
  ASSUME MonitorInv, account' = account, overtaken' = overtaken,
         NEW r \in RefreshSet, r.id = refresh.id, r.at = refresh.at, r.result = refresh.result,
         NEW at \in Asked, Monitor!Request(r, monitor, children, at),
         monitor' \in MonitorSet, monitor'.child = monitor.child, monitor'.closed = monitor.closed,
         monitor'.phase \in {"ready", monitor.phase},
         at = "limits" => (ReadTrue(monitor, refresh, account) => r.read = account)
  PROVE  MonitorInv'
<1> USE DEF MonitorInv
<1>1. /\ monitor \in MonitorSet /\ refresh \in RefreshSet /\ children \in [Monitor!Children -> ChildSet]
      /\ overtaken \in BOOLEAN /\ account \in Nat
  BY DEF MonitorTypeInv
<1>2. Meant(children, r)
  <2>1. Later(refresh, r)
    BY DEF Later
  <2> QED BY <1>1, <2>1, KidsMeantLater
<1>3. /\ refresh' \in RefreshSet /\ refresh'.at = at /\ refresh'.read = r.read
      /\ refresh'.result.kind \in {"waiting", "failed"}
      /\ Kept(children', children) /\ Meant(children', refresh')
  BY <1>1, <1>2, RequestType
<1>4. Owned' /\ Monitor!ForgottenIsEnded' /\ Truthful' /\ children' \in [Monitor!Children -> ChildSet]
  BY <1>3, KeptHolds
<1>5. AccountTrue'
  <2>1. ReadTrue(monitor, refresh, account) => ReadTrue(monitor', refresh', account)
    BY <1>3 DEF ReadTrue, Asked
  <2> QED BY <1>3, <2>1, KeptLines
<1> QED BY <1>1, <1>3, <1>4, <1>5 DEF MonitorTypeInv

LEMMA ReadyStep ==
  ASSUME MonitorInv, account' = account, overtaken' = overtaken,
         NEW whose \in Nat, NEW quota \in Nat, Monitor!Ready(whose, quota),
         ReadTrue(monitor, refresh, account) => whose = account /\ quota \in {Monitor!None, account}
  PROVE  MonitorInv'
<1> USE DEF MonitorInv
<1>1. /\ monitor \in MonitorSet /\ refresh \in RefreshSet /\ children \in [Monitor!Children -> ChildSet]
      /\ overtaken \in BOOLEAN /\ account \in Nat /\ children' = children
  BY DEF MonitorTypeInv, Monitor!Ready
<1>2. /\ monitor' \in MonitorSet /\ monitor'.child = monitor.child /\ monitor'.closed = monitor.closed
      /\ monitor'.phase = "ready" /\ monitor'.account = whose /\ monitor'.quota = quota
  BY <1>1 DEF Monitor!Ready, MonitorSet
<1>3. /\ refresh' \in RefreshSet /\ refresh'.at = "none" /\ Meant(children', refresh')
  BY <1>1, NoRefreshType DEF Monitor!Ready
<1>4. Kept(children', children)
  BY <1>1, KeptSame
<1>5. Owned' /\ Monitor!ForgottenIsEnded' /\ Truthful'
  BY <1>2, <1>4, KeptHolds
<1>6. AccountTrue'
  <2>1. ReadTrue(monitor, refresh, account) => ReadTrue(monitor', refresh', account)
    BY <1>2, <1>3 DEF ReadTrue
  <2> QED BY <1>2, <1>3, <1>4, <2>1, KeptLines
<1> QED BY <1>1, <1>2, <1>3, <1>5, <1>6 DEF MonitorTypeInv

LEMMA ClosedStep ==
  ASSUME MonitorInv, account' = account, overtaken' = overtaken, monitor.closed, Monitor!Closed
  PROVE  MonitorInv'
<1> USE DEF MonitorInv
<1>1. /\ monitor \in MonitorSet /\ refresh \in RefreshSet /\ children \in [Monitor!Children -> ChildSet]
      /\ overtaken \in BOOLEAN /\ account \in Nat /\ monitor' = monitor /\ monitor.child = Monitor!None
      /\ refresh.child \in Maybe
  BY DEF MonitorTypeInv, Monitor!Closed, Owned, RefreshSet
<1>2. Kept(children', children) /\ Meant(children', refresh)
  BY <1>1, RetiredType, KeptSame DEF Monitor!Closed
<1>3. Owned' /\ Monitor!ForgottenIsEnded' /\ Truthful' /\ children' \in [Monitor!Children -> ChildSet]
  BY <1>1, <1>2, KeptHolds
<1>4. refresh' \in RefreshSet /\ refresh'.at = "none" /\ Meant(children', refresh')
  BY <1>1, <1>2, <1>3, NoRefreshType DEF Monitor!Closed
<1>5. AccountTrue'
  BY <1>1, <1>4, NoChildTrue
<1> QED BY <1>1, <1>3, <1>4, <1>5 DEF MonitorTypeInv

LEMMA ContinueStep == ASSUME MonitorInv, Monitor!Continue PROVE MonitorInv'
<1> USE DEF MonitorInv
<1>1. /\ monitor \in MonitorSet /\ refresh \in RefreshSet /\ children \in [Monitor!Children -> ChildSet]
      /\ overtaken' = overtaken /\ account' = account /\ monitor.child \in Maybe /\ refresh.child \in Maybe
      /\ refresh.at # "none" /\ refresh.result.kind \in {"failed", refresh.at}
  BY DEF Monitor!Continue, Monitor!Waiting, MonitorTypeInv, MonitorSet, RefreshSet, AccountTrue
<1>2. CASE monitor.closed
  BY <1>1, <1>2, ClosedStep DEF Monitor!Continue
<1>3. CASE ~monitor.closed /\ Monitor!Initialized
  <2> DEFINE failed == refresh.result.kind = "failed"
             m == [monitor EXCEPT !.child = IF @ = refresh.child THEN Monitor!None ELSE @, !.account = Monitor!None]
             notified == Monitor!Live(monitor.child) /\ ~children[monitor.child].broken
             kids == Monitor!Retired(children, refresh.child)
  <2>1. CASE failed \/ ~notified
    <3>1. Monitor!GiveUp(kids, m)
      BY <1>3, <2>1 DEF Monitor!Initialized
    <3>2. /\ m \in MonitorSet /\ m.closed = monitor.closed
          /\ \/ m.child = monitor.child
             \/ m.child = Monitor!None /\ monitor.child = refresh.child
      BY <1>1 DEF MonitorSet, Maybe, Monitor!None
    <3>3. /\ Kept(kids, children) /\ Meant(kids, refresh)
          /\ refresh.child # Monitor!None /\ children[refresh.child].phase = "live" => kids[refresh.child].ended
      BY <1>1, RetiredType
    <3> HIDE DEF m, kids
    <3>4. \/ m.child = monitor.child
          \/ m.child = Monitor!None /\ kids[monitor.child].ended
      BY <3>2, <3>3 DEF Owned, Monitor!Live
    <3> QED BY <1>1, <3>1, <3>2, <3>3, <3>4, RetiredStep
  <2>2. CASE ~(failed \/ ~notified)
    <3>1. /\ monitor' = [monitor EXCEPT !.phase = "ready"]
          /\ Monitor!Request(refresh, monitor, children, "account")
      BY <1>3, <2>2 DEF Monitor!Initialized
    <3>2. /\ monitor' \in MonitorSet /\ monitor'.child = monitor.child /\ monitor'.closed = monitor.closed
          /\ monitor'.phase = "ready"
      BY <1>1, <3>1 DEF MonitorSet
    <3> QED BY <1>1, <3>1, <3>2, RequestStep DEF Asked
  <2> QED BY <2>1, <2>2
<1>4. CASE ~monitor.closed /\ Monitor!AccountRead
  <2> DEFINE whose == Monitor!Normalized(refresh.result)
  <2>1. refresh.at = "account"
    BY <1>4 DEF Monitor!AccountRead
  <2>2. CASE refresh.result.kind = "failed" /\ Monitor!GiveUp(children, monitor)
    BY <1>1, <2>2, KeptSame, RetiredStep
  <2>3. CASE refresh.result.kind # "failed"
    <3>1. refresh.result.kind = "account" /\ whose = refresh.result.value
      BY <1>1, <2>1, <2>3 DEF Monitor!Normalized
    <3>2. whose \in Nat
      BY <1>1, <3>1 DEF RefreshSet, ResultSet, LineSet
    <3>3. ReadTrue(monitor, refresh, account) => whose = account
      BY <2>1, <3>1 DEF ReadTrue
    <3> HIDE DEF whose
    <3>4. ASSUME Monitor!Request([refresh EXCEPT !.read = whose], monitor, children, "limits"), UNCHANGED monitor
          PROVE  MonitorInv'
      <4> DEFINE r == [refresh EXCEPT !.read = whose]
      <4>1. /\ r \in RefreshSet /\ r.id = refresh.id /\ r.at = refresh.at /\ r.result = refresh.result
            /\ r.read = whose
        BY <1>1, <3>2 DEF RefreshSet
      <4> HIDE DEF r
      <4>2. Monitor!Request(r, monitor, children, "limits")
        BY <3>4 DEF r
      <4> QED BY <1>1, <3>3, <3>4, <4>1, <4>2, RequestStep DEF Asked
    <3>5. ASSUME Monitor!Ready(whose, Monitor!None) PROVE MonitorInv'
      BY <1>1, <3>2, <3>3, <3>5, ReadyStep DEF Monitor!None
    <3> QED BY <1>4, <2>3, <3>4, <3>5 DEF Monitor!AccountRead, whose
  <2> QED BY <1>4, <2>2, <2>3 DEF Monitor!AccountRead
<1>5. CASE ~monitor.closed /\ Monitor!LimitsRead
  <2> DEFINE quota == IF refresh.result.kind = "limits" THEN refresh.result.value ELSE Monitor!None
  <2>1. refresh.at = "limits" /\ Monitor!Ready(refresh.read, quota)
    BY <1>5 DEF Monitor!LimitsRead
  <2>2. refresh.read \in Nat /\ quota \in Nat
    BY <1>1 DEF RefreshSet, ResultSet, LineSet, Monitor!None
  <2>3. ReadTrue(monitor, refresh, account) => refresh.read = account /\ quota \in {Monitor!None, account}
    BY <2>1 DEF ReadTrue
  <2> HIDE DEF quota
  <2> QED BY <1>1, <2>1, <2>2, <2>3, ReadyStep
<1> QED BY <1>2, <1>3, <1>4, <1>5 DEF Monitor!Continue

LEMMA TimeoutStep == ASSUME MonitorInv, Monitor!Timeout PROVE MonitorInv'
<1> USE DEF MonitorInv
<1>1. /\ monitor' = monitor /\ children' = children /\ account' = account /\ overtaken' = overtaken
      /\ refresh' = Monitor!Failed(refresh)
      /\ monitor \in MonitorSet /\ refresh \in RefreshSet /\ children \in [Monitor!Children -> ChildSet]
      /\ overtaken \in BOOLEAN /\ account \in Nat
  BY DEF Monitor!Timeout, MonitorTypeInv
<1>2. /\ refresh' \in RefreshSet /\ refresh'.at = refresh.at /\ refresh'.read = refresh.read
      /\ refresh'.result.kind = "failed" \/ refresh'.result = refresh.result
      /\ Meant(children', refresh')
  BY <1>1, FailedType
<1>3. Kept(children', children)
  BY <1>1, KeptSame
<1>4. Owned' /\ Monitor!ForgottenIsEnded' /\ Truthful'
  BY <1>1, <1>3, KeptHolds
<1>5. AccountTrue'
  <2>1. ReadTrue(monitor, refresh, account) => ReadTrue(monitor', refresh', account)
    BY <1>1, <1>2 DEF ReadTrue
  <2>2. refresh'.at # "none" => refresh'.result.kind \in {"waiting", "failed", refresh'.at}
    BY <1>2 DEF AccountTrue
  <2> QED BY <1>1, <1>3, <2>1, <2>2, KeptLines
<1> QED BY <1>1, <1>2, <1>4, <1>5 DEF MonitorTypeInv

------------------------
(* The children. *)

\* One child and what it has written change, with nothing on its way to it.
LEMMA ChildChanges ==
  ASSUME MonitorInv, NEW c \in Monitor!Children, NEW record \in ChildSet,
         children' = [children EXCEPT ![c] = record],
         account' = account,
         record.phase \in {children[c].phase, "dead"}, children[c].phase # "unborn",
         children[c].ended => record.ended,
         children[c].broken => record.broken,
         record.phase = "live" => LinesTrue(record.lines, account),
         monitor' \in MonitorSet, monitor'.closed = monitor.closed,
         \/ /\ monitor'.child = monitor.child
            /\ c = monitor.child => record.phase = "live" /\ ~record.broken
            /\ monitor'.phase = "unavailable"
                  => monitor.phase = "unavailable" \/ (c = monitor.child /\ record.ended)
         \/ /\ monitor'.child = Monitor!None
            /\ c = monitor.child /\ (record.phase = "dead" \/ record.broken)
  PROVE  Owned' /\ Monitor!ForgottenIsEnded' /\ Truthful' /\ children' \in [Monitor!Children -> ChildSet]
<1> USE DEF MonitorInv
<1>1. children \in [Monitor!Children -> ChildSet] /\ monitor.child \in Maybe /\ monitor \in MonitorSet
  BY DEF MonitorTypeInv, MonitorSet
<1>2. /\ children' \in [Monitor!Children -> ChildSet] /\ children'[c] = record
      /\ \A d \in Monitor!Children : d # c => children'[d] = children[d]
  BY <1>1
<1>3. Owned'
  <2>1. monitor'.child # Monitor!None =>
          /\ ~monitor'.closed /\ Monitor!Live(monitor.child)' /\ ~children'[monitor.child].broken
          /\ monitor'.phase = "unavailable" => children'[monitor.child].ended
    BY <1>1, <1>2 DEF Owned, Monitor!Live, Maybe
  <2>2. \A d \in Monitor!Children : children'[d].phase = "unborn" => children'[d] = Monitor!Unborn
    BY <1>2 DEF Owned
  <2>3. monitor'.child # Monitor!None => monitor'.child = monitor.child
    OBVIOUS
  <2> QED BY <2>1, <2>2, <2>3 DEF Owned
<1>4. Monitor!ForgottenIsEnded'
  <2>1. ASSUME NEW d \in Monitor!Children, Monitor!Live(d)'
        PROVE  d = monitor'.child \/ children'[d].ended \/ children'[d].broken
    <3>1. Monitor!Live(d) \/ d = c
      BY <1>2, <2>1 DEF Monitor!Live
    <3>2. CASE d = c
      <4>1. record.phase = "live" /\ children[c].phase = "live"
        BY <1>2, <2>1, <3>2 DEF Monitor!Live
      <4>2. c = monitor.child \/ children[c].ended \/ children[c].broken
        BY <2>1, <3>2, <4>1 DEF Monitor!ForgottenIsEnded, Monitor!Live
      <4> QED BY <1>2, <3>2, <4>1, <4>2
    <3>3. CASE d # c
      BY <1>2, <2>1, <3>1, <3>3 DEF Monitor!ForgottenIsEnded
    <3> QED BY <3>2, <3>3
  <2> QED BY <2>1 DEF Monitor!ForgottenIsEnded
<1>5. Truthful'
  BY <1>2 DEF Truthful, Monitor!Live
<1> QED BY <1>2, <1>3, <1>4, <1>5

LEMMA ChildMeans ==
  ASSUME children \in [Monitor!Children -> ChildSet], NEW c \in Monitor!Children, NEW record \in ChildSet, NEW r,
         Meant(children, r), RequestsMeant(record.requests, r), LinesMeant(record.lines, r),
         children' = [children EXCEPT ![c] = record]
  PROVE  Meant(children', r)
BY DEF Meant

\* A child that ends, or whose input does, is lost at once.
LEMMA LostStep ==
  ASSUME MonitorInv, NEW c \in Monitor!Children, Monitor!Live(c), NEW record \in ChildSet,
         children' = [children EXCEPT ![c] = record],
         account' = account, overtaken' = overtaken,
         \/ record.phase = "dead"
         \/ record.phase = "live" /\ record.broken,
         record.requests = children[c].requests, record.lines = children[c].lines,
         record.ended = children[c].ended, children[c].broken => record.broken,
         Monitor!Lost(c)
  PROVE  MonitorInv'
<1> USE DEF MonitorInv
<1>1. /\ monitor \in MonitorSet /\ refresh \in RefreshSet /\ children \in [Monitor!Children -> ChildSet]
      /\ overtaken \in BOOLEAN /\ account \in Nat /\ monitor.child \in Maybe /\ children[c].phase = "live"
  BY DEF MonitorTypeInv, MonitorSet, Monitor!Live
<1>2. Meant(children', refresh)
  <2>1. RequestsMeant(record.requests, refresh) /\ LinesMeant(record.lines, refresh)
    BY DEF Meant
  <2> QED BY <1>1, <2>1, ChildMeans
<1>3. record.phase = "live" => LinesTrue(record.lines, account)
  BY DEF Truthful
<1>4. CASE monitor.closed \/ c # monitor.child
  <2>1. monitor' = monitor /\ refresh' = refresh /\ c # monitor.child
    BY <1>4 DEF Monitor!Lost, Owned, Monitor!Live
  <2>2. Owned' /\ Monitor!ForgottenIsEnded' /\ Truthful' /\ children' \in [Monitor!Children -> ChildSet]
    BY <1>1, <1>3, <2>1, ChildChanges
  <2>3. AccountTrue'
    <3>1. monitor.child # Monitor!None => children'[monitor.child].lines = children[monitor.child].lines
      BY <1>1, <2>1 DEF Maybe
    <3> QED BY <2>1, <3>1 DEF AccountTrue
  <2> QED BY <1>1, <1>2, <2>1, <2>2, <2>3 DEF MonitorTypeInv
<1>5. CASE ~(monitor.closed \/ c # monitor.child)
  <2>1. /\ monitor' \in MonitorSet /\ monitor'.child = Monitor!None /\ monitor'.closed = monitor.closed
        /\ refresh' = Monitor!RejectPending(refresh)
    <3>1. /\ monitor' = [monitor EXCEPT !.child = Monitor!None, !.phase = "unavailable", !.quota = Monitor!None]
          /\ refresh' = Monitor!RejectPending(refresh)
      BY <1>5 DEF Monitor!Lost
    <3>2. Monitor!None \in Maybe /\ Monitor!None \in Nat
      BY DEF Maybe, Monitor!None
    <3> QED BY <1>1, <3>1, <3>2 DEF MonitorSet
  <2>2. Owned' /\ Monitor!ForgottenIsEnded' /\ Truthful' /\ children' \in [Monitor!Children -> ChildSet]
    BY <1>1, <1>3, <1>5, <2>1, ChildChanges
  <2>3. /\ refresh' \in RefreshSet /\ refresh'.at = refresh.at
        /\ refresh'.result.kind = "failed" \/ refresh'.result = refresh.result
        /\ Later(refresh, refresh')
    BY <1>1, <2>1, FailedType
  <2>4. Meant(children', refresh')
    BY <1>1, <1>2, <2>2, <2>3, KidsMeantLater
  <2>5. AccountTrue'
    BY <2>1, <2>3, NoChildTrue DEF AccountTrue
  <2> QED BY <1>1, <2>1, <2>2, <2>3, <2>4, <2>5 DEF MonitorTypeInv
<1> QED BY <1>4, <1>5

LEMMA ExitStep ==
  ASSUME MonitorInv, NEW c \in Monitor!Children, Monitor!ChildExits(c) \/ Monitor!KillTimer(c)
  PROVE  MonitorInv'
<1> DEFINE record == [children[c] EXCEPT !.phase = "dead", !.kill = FALSE]
<1>1. children[c] \in ChildSet /\ children \in [Monitor!Children -> ChildSet]
  BY DEF MonitorInv, MonitorTypeInv
<1>2. /\ record \in ChildSet /\ record.phase = "dead"
      /\ record.requests = children[c].requests /\ record.lines = children[c].lines
      /\ record.ended = children[c].ended /\ record.broken = children[c].broken
  BY <1>1 DEF ChildSet
<1>3. children' = [children EXCEPT ![c] = record]
  BY <1>1 DEF Monitor!ChildExits, Monitor!KillTimer
<1>4. Monitor!Live(c) /\ Monitor!Lost(c) /\ account' = account /\ overtaken' = overtaken
  BY DEF Monitor!ChildExits, Monitor!KillTimer
<1> HIDE DEF record
<1> QED BY <1>2, <1>3, <1>4, LostStep

LEMMA InputBreaksStep ==
  ASSUME MonitorInv, NEW c \in Monitor!Children, Monitor!InputBreaks(c)
  PROVE  MonitorInv'
<1> DEFINE record == [children[c] EXCEPT !.broken = TRUE]
<1>1. children[c] \in ChildSet /\ children \in [Monitor!Children -> ChildSet] /\ children[c].phase = "live"
  BY DEF MonitorInv, MonitorTypeInv, Monitor!InputBreaks, Monitor!Live
<1>2. /\ record \in ChildSet /\ record.phase = "live" /\ record.broken
      /\ record.requests = children[c].requests /\ record.lines = children[c].lines
      /\ record.ended = children[c].ended
  BY <1>1 DEF ChildSet
<1>3. children' = [children EXCEPT ![c] = record]
  BY <1>1 DEF Monitor!InputBreaks
<1>4. Monitor!Live(c) /\ Monitor!Lost(c) /\ account' = account /\ overtaken' = overtaken
  BY DEF Monitor!InputBreaks
<1> HIDE DEF record
<1> QED BY <1>2, <1>3, <1>4, LostStep

LEMMA CloseStep == ASSUME MonitorInv, Monitor!Close PROVE MonitorInv'
<1> USE DEF MonitorInv
<1>1. /\ monitor \in MonitorSet /\ refresh \in RefreshSet /\ children \in [Monitor!Children -> ChildSet]
      /\ overtaken \in BOOLEAN /\ account \in Nat /\ monitor.child \in Maybe
      /\ account' = account /\ overtaken' = overtaken
      /\ children' = Monitor!Retired(children, monitor.child) /\ refresh' = Monitor!RejectPending(refresh)
  BY DEF MonitorTypeInv, MonitorSet, Monitor!Close
<1>2. monitor' \in MonitorSet /\ monitor'.child = Monitor!None
  BY DEF Monitor!Close, Monitor!Initial, MonitorSet, Maybe, Monitor!None
<1>3. /\ Kept(children', children) /\ Meant(children', refresh)
      /\ monitor.child # Monitor!None => children'[monitor.child].ended
  BY <1>1, RetiredType DEF Owned, Monitor!Live
<1>4. Owned' /\ Monitor!ForgottenIsEnded' /\ Truthful' /\ children' \in [Monitor!Children -> ChildSet]
  BY <1>1, <1>2, <1>3, KeptHolds
<1>5. /\ refresh' \in RefreshSet /\ refresh'.at = refresh.at
      /\ refresh'.result.kind = "failed" \/ refresh'.result = refresh.result
      /\ Later(refresh, refresh')
  BY <1>1, FailedType
<1>6. Meant(children', refresh')
  BY <1>1, <1>3, <1>4, <1>5, KidsMeantLater
<1>7. AccountTrue'
  BY <1>2, <1>5, NoChildTrue DEF AccountTrue
<1> QED BY <1>1, <1>2, <1>4, <1>5, <1>6, <1>7 DEF MonitorTypeInv

------------------------
(* Lines. *)

\* A child says something: only an update says that the account is another one.
LEMMA SaysStep ==
  ASSUME MonitorInv, NEW c \in Monitor!Children, Monitor!Live(c), NEW record \in ChildSet, NEW line \in LineSet,
         UNCHANGED <<monitor, refresh, overtaken, account>>,
         children' = [children EXCEPT ![c] = record],
         record.phase = children[c].phase, record.ended = children[c].ended,
         record.broken = children[c].broken,
         record.lines = Append(children[c].lines, line),
         RequestsMeant(record.requests, refresh),
         line.kind # "updated", line.kind # "broken" => line.value = account,
         line.kind \in Asked => Answering(line.id, line.kind, refresh)
  PROVE  MonitorInv'
<1> USE DEF MonitorInv
<1>1. /\ monitor \in MonitorSet /\ refresh \in RefreshSet /\ children \in [Monitor!Children -> ChildSet]
      /\ overtaken \in BOOLEAN /\ account \in Nat /\ monitor.child \in Maybe
      /\ children[c].phase = "live" /\ children[c].lines \in Seq(LineSet)
  BY DEF MonitorTypeInv, MonitorSet, Monitor!Live, ChildSet
<1>2. /\ LinesTrue(children[c].lines, account) => LinesTrue(record.lines, account)
      /\ Unchanged(record.lines) => Unchanged(children[c].lines)
      /\ LinesMeant(children[c].lines, refresh) => LinesMeant(record.lines, refresh)
  BY <1>1, LinesAppend
<1>3. Meant(children', refresh)
  <2>1. LinesMeant(record.lines, refresh)
    BY <1>2 DEF Meant
  <2> QED BY <1>1, <2>1, ChildMeans
<1>4. Owned' /\ Monitor!ForgottenIsEnded' /\ Truthful' /\ children' \in [Monitor!Children -> ChildSet]
  <2>1. LinesTrue(record.lines, account)
    BY <1>2 DEF Truthful
  <2>2. monitor' = monitor /\ (c = monitor.child => ~record.broken)
    BY DEF Owned, Monitor!Live
  <2> QED BY <1>1, <2>1, <2>2, ChildChanges
<1>5. AccountTrue'
  <2>1. /\ c = monitor.child => children'[monitor.child].lines = record.lines
        /\ c # monitor.child /\ monitor.child # Monitor!None
             => children'[monitor.child].lines = children[monitor.child].lines
    BY <1>1 DEF Maybe
  <2>2. monitor.child # Monitor!None /\ Unchanged(children'[monitor.child].lines)
          => Unchanged(children[monitor.child].lines)
    BY <1>2, <2>1
  <2> QED BY <2>2 DEF AccountTrue
<1> QED BY <1>1, <1>3, <1>4, <1>5 DEF MonitorTypeInv

LEMMA ServeStep == ASSUME MonitorInv, NEW c \in Monitor!Children, Monitor!Serve(c) PROVE MonitorInv'
<1> DEFINE request == Head(children[c].requests)
           line == Monitor!Line(request[2], request[1], account)
           rest == Tail(children[c].requests)
           lines == Append(children[c].lines, line)
           record == [children[c] EXCEPT !.requests = rest, !.lines = lines]
<1>1. /\ children[c] \in ChildSet /\ children \in [Monitor!Children -> ChildSet] /\ account \in Nat
      /\ Monitor!Live(c) /\ children[c].requests # <<>>
      /\ children[c].requests \in Seq(Nat \X Asked) /\ children[c].lines \in Seq(LineSet)
      /\ RequestsMeant(children[c].requests, refresh)
  BY DEF MonitorInv, MonitorTypeInv, Monitor!Serve, ChildSet, Meant
<1>2. /\ request[1] \in Nat /\ request[2] \in Asked
      /\ rest \in Seq(Nat \X Asked) /\ RequestsMeant(rest, refresh)
      /\ Answering(request[1], request[2], refresh)
  <2>1. 0 \in Nat /\ "account" \in Asked
    BY DEF Asked
  <2> QED BY <1>1, <2>1, RequestsQueue
<1>5. /\ children' = [children EXCEPT ![c] = record]
      /\ UNCHANGED <<monitor, refresh, overtaken, account>>
  BY <1>1 DEF Monitor!Serve, Monitor!OnlyChildren
<1> HIDE DEF request, rest
<1>3. /\ line \in LineSet /\ line.kind = request[2] /\ line.id = request[1] /\ line.value = account
  BY <1>1, <1>2 DEF Monitor!Line, LineSet
<1>6. line.kind # "updated"
  BY <1>2, <1>3 DEF Asked
<1> HIDE DEF line
<1>7. lines \in Seq(LineSet)
  BY <1>1, <1>3
<1> HIDE DEF lines
<1>4. /\ record \in ChildSet /\ record.lines = lines /\ record.requests = rest
      /\ record.phase = children[c].phase /\ record.ended = children[c].ended
      /\ record.broken = children[c].broken
  BY <1>1, <1>2, <1>7 DEF ChildSet
<1> HIDE DEF record
<1>8. record.lines = Append(children[c].lines, line)
  BY <1>4 DEF lines
<1> QED BY <1>1, <1>2, <1>3, <1>4, <1>5, <1>6, <1>8, SaysStep

LEMMA OutStep ==
  ASSUME MonitorInv, NEW c \in Monitor!Children, Monitor!Live(c), NEW line \in LineSet, Monitor!Out(c, line),
         UNCHANGED <<monitor, refresh, overtaken, account>>,
         line.kind \in {"announced", "broken"}, line.kind # "broken" => line.value = account
  PROVE  MonitorInv'
<1> DEFINE lines == Append(children[c].lines, line)
           record == [children[c] EXCEPT !.lines = lines]
<1>1. /\ children[c] \in ChildSet /\ children \in [Monitor!Children -> ChildSet]
      /\ children[c].lines \in Seq(LineSet) /\ RequestsMeant(children[c].requests, refresh)
  BY DEF MonitorInv, MonitorTypeInv, ChildSet, Meant
<1>2. children' = [children EXCEPT ![c] = record]
  BY <1>1 DEF Monitor!Out
<1>3. lines \in Seq(LineSet)
  BY <1>1
<1> HIDE DEF lines
<1>4. /\ record \in ChildSet /\ record.lines = lines /\ record.requests = children[c].requests
      /\ record.phase = children[c].phase /\ record.ended = children[c].ended
      /\ record.broken = children[c].broken
  BY <1>1, <1>3 DEF ChildSet
<1> HIDE DEF record
<1>5. record.lines = Append(children[c].lines, line)
  BY <1>4 DEF lines
<1>6. line.kind \notin Asked /\ line.kind # "updated"
  BY DEF Asked
<1> QED BY <1>1, <1>2, <1>4, <1>5, <1>6, SaysStep

LEMMA AnnounceStep == ASSUME MonitorInv, NEW c \in Monitor!Children, Monitor!Announce(c) PROVE MonitorInv'
<1>1. account \in Nat
  BY DEF MonitorInv, MonitorTypeInv
<1>2. /\ Monitor!Line("announced", 0, account) \in LineSet
      /\ Monitor!Line("announced", 0, account).kind = "announced" /\ Monitor!Line("announced", 0, account).value = account
  BY <1>1 DEF Monitor!Line, LineSet
<1> QED BY <1>2, OutStep DEF Monitor!Announce, Monitor!OnlyChildren

LEMMA GarbleStep == ASSUME MonitorInv, NEW c \in Monitor!Children, Monitor!Garble(c) PROVE MonitorInv'
<1>1. Monitor!Line("broken", 0, Monitor!None) \in LineSet /\ Monitor!Line("broken", 0, Monitor!None).kind = "broken"
  BY DEF Monitor!Line, LineSet, Monitor!None
<1> QED BY <1>1, OutStep DEF Monitor!Garble, Monitor!OnlyChildren

LEMMA ChangeAccountStep == ASSUME MonitorInv, Monitor!ChangeAccount PROVE MonitorInv'
<1> USE DEF MonitorInv
<1> DEFINE line == Monitor!Line("updated", 0, account')
           told(c) == [children[c] EXCEPT !.lines = Append(@, line)]
<1>1. /\ monitor \in MonitorSet /\ refresh \in RefreshSet /\ children \in [Monitor!Children -> ChildSet]
      /\ overtaken \in BOOLEAN /\ account \in Nat /\ account' = account + 1 /\ account' \in Nat
      /\ monitor' = monitor /\ refresh' = refresh /\ overtaken' = overtaken
      /\ monitor.child \in Maybe
  BY DEF MonitorTypeInv, Monitor!ChangeAccount, Monitor!OnlyChildren, MonitorSet
<1>2. line \in LineSet /\ line.kind = "updated" /\ line.value = account'
  BY <1>1 DEF Monitor!Line, LineSet
<1>3. children' = [c \in Monitor!Children |-> IF Monitor!Live(c) THEN told(c) ELSE children[c]]
  BY DEF Monitor!ChangeAccount
<1> HIDE DEF line
<1>4. ASSUME NEW c \in Monitor!Children
      PROVE  /\ told(c) \in ChildSet /\ told(c).phase = children[c].phase
             /\ told(c).ended = children[c].ended /\ told(c).broken = children[c].broken
             /\ LinesTrue(told(c).lines, account') /\ ~Unchanged(told(c).lines)
             /\ RequestsMeant(told(c).requests, refresh) /\ LinesMeant(told(c).lines, refresh)
  <2> DEFINE lines == Append(children[c].lines, line)
  <2>1. children[c] \in ChildSet /\ children[c].lines \in Seq(LineSet)
    BY <1>1 DEF ChildSet
  <2>2. /\ lines \in Seq(LineSet) /\ LinesTrue(lines, account') /\ ~Unchanged(lines)
        /\ LinesMeant(children[c].lines, refresh) => LinesMeant(lines, refresh)
    BY <1>2, <2>1, LinesAppend DEF Asked
  <2>3. told(c) = [children[c] EXCEPT !.lines = lines]
    BY <2>1 DEF ChildSet
  <2> HIDE DEF lines, told
  <2>4. /\ told(c) \in ChildSet /\ told(c).phase = children[c].phase
        /\ told(c).ended = children[c].ended /\ told(c).broken = children[c].broken
        /\ told(c).lines = lines /\ told(c).requests = children[c].requests
    BY <2>1, <2>2, <2>3 DEF ChildSet
  <2> QED BY <2>2, <2>4 DEF Meant
<1> HIDE DEF told
<1>5. children' \in [Monitor!Children -> ChildSet]
  BY <1>1, <1>3, <1>4
<1>6. \A c \in Monitor!Children : /\ children'[c].phase = children[c].phase
                                  /\ children'[c].ended = children[c].ended
                                  /\ children'[c].broken = children[c].broken
                                  /\ Monitor!Live(c) => children'[c] = told(c)
                                  /\ ~Monitor!Live(c) => children'[c] = children[c]
  BY <1>3, <1>4
<1>7. Owned'
  <2>1. \A c \in Monitor!Children : children'[c].phase = "unborn" => children'[c] = Monitor!Unborn
    BY <1>6 DEF Owned, Monitor!Live
  <2> QED BY <1>1, <1>6, <2>1 DEF Owned, Monitor!Live, Maybe
<1>8. Monitor!ForgottenIsEnded'
  BY <1>1, <1>6 DEF Monitor!ForgottenIsEnded, Monitor!Live
<1>9. Truthful'
  BY <1>4, <1>6 DEF Truthful, Monitor!Live
<1>10. Meant(children', refresh')
  BY <1>1, <1>4, <1>6 DEF Meant
<1>11. AccountTrue'
  <2>1. monitor.child # Monitor!None => ~Unchanged(children'[monitor.child].lines)
    BY <1>1, <1>4, <1>6 DEF Owned, Maybe
  <2> QED BY <1>1, <2>1 DEF AccountTrue
<1> QED BY <1>1, <1>5, <1>7, <1>8, <1>9, <1>10, <1>11 DEF MonitorTypeInv
LEMMA AcceptLineStep == ASSUME MonitorInv, NEW c \in Monitor!Children, Monitor!AcceptLine(c) PROVE MonitorInv'
<1> USE DEF MonitorInv
<1> DEFINE line == Head(children[c].lines)
           rest == Tail(children[c].lines)
           told == children[c].ended \/ (c = monitor.child /\ line.kind = "broken")
           record == [children[c] EXCEPT !.lines = rest, !.ended = told]
<1>20. c # Monitor!None
  BY ChildrenAreNumbered DEF Monitor!Children, Monitor!None
<1>1. /\ monitor \in MonitorSet /\ refresh \in RefreshSet /\ children \in [Monitor!Children -> ChildSet]
      /\ overtaken \in BOOLEAN /\ account \in Nat /\ account' = account /\ monitor.child \in Maybe
      /\ children[c] \in ChildSet /\ children[c].lines \in Seq(LineSet) /\ children[c].lines # <<>>
  BY DEF MonitorTypeInv, MonitorSet, ChildSet, Monitor!AcceptLine
<1>2. children' = [children EXCEPT ![c] = record]
  BY <1>1 DEF Monitor!AcceptLine
<1>3. /\ line \in LineSet /\ rest \in Seq(LineSet)
      /\ LinesTrue(children[c].lines, account) => LinesTrue(rest, account)
      /\ LinesTrue(children[c].lines, account) /\ line.kind # "broken" /\ Unchanged(rest)
           => line.value = account
      /\ Unchanged(rest) /\ line.kind # "updated" => Unchanged(children[c].lines)
      /\ LinesMeant(rest, refresh)
      /\ line.kind \in Asked => Answering(line.id, line.kind, refresh)
  BY <1>1, LinesTail DEF Meant
<1>4. told \in BOOLEAN /\ (children[c].ended => told)
  BY <1>1 DEF ChildSet
<1>5. c # monitor.child => UNCHANGED <<monitor, refresh, overtaken>>
  BY DEF Monitor!AcceptLine
<1>6. c = monitor.child =>
        \/ line.kind = "updated" /\ Monitor!AccountUpdated(line)
        \/ line.kind = "announced" /\ Monitor!LimitsUpdated(line)
        \/ line.kind = "broken" /\ Monitor!FailProtocol /\ told
        \/ line.kind \notin {"updated", "announced", "broken"} /\ Monitor!Response(line)
  BY DEF Monitor!AcceptLine
<1>7. line.value \in Nat /\ line.id \in Nat
  BY <1>3 DEF LineSet
<1> HIDE DEF line, rest, told
<1>8. /\ record \in ChildSet /\ record.lines = rest /\ record.requests = children[c].requests
      /\ record.phase = children[c].phase /\ record.ended = told
      /\ record.broken = children[c].broken
  BY <1>1, <1>3, <1>4 DEF ChildSet
<1> HIDE DEF record
<1>9. Meant(children', refresh)
  <2>1. RequestsMeant(record.requests, refresh) /\ LinesMeant(record.lines, refresh)
    BY <1>3, <1>8 DEF Meant
  <2> QED BY <1>1, <1>2, <1>8, <2>1, ChildMeans
<1>10. record.phase = "live" => LinesTrue(record.lines, account)
  BY <1>3, <1>8, <1>20 DEF Truthful, Monitor!Live
<1>11. children[c].phase # "unborn"
  BY <1>1 DEF Owned, Monitor!Unborn
<1>12. /\ children' \in [Monitor!Children -> ChildSet]
       /\ c = monitor.child => children'[monitor.child].lines = rest
       /\ monitor.child \notin {Monitor!None, c} => children'[monitor.child].lines = children[monitor.child].lines
  BY <1>1, <1>2, <1>8 DEF Maybe
<1>13. ASSUME monitor' \in MonitorSet, monitor'.child = monitor.child, monitor'.closed = monitor.closed,
              monitor'.phase = monitor.phase \/ (c = monitor.child /\ told)
       PROVE  Owned' /\ Monitor!ForgottenIsEnded' /\ Truthful'
  <2>1. c = monitor.child => record.phase = "live" /\ ~record.broken
    BY <1>8, <1>20 DEF Owned, Monitor!Live
  <2> QED BY <1>1, <1>2, <1>4, <1>8, <1>10, <1>11, <1>13, <2>1, ChildChanges
<1>14. c = monitor.child /\ line.kind # "broken" /\ Unchanged(rest) => line.value = account
  BY <1>3, <1>20 DEF Owned, Monitor!Live, Truthful
<1>15. CASE UNCHANGED <<monitor, refresh, overtaken>> /\ (c = monitor.child => line.kind # "updated")
  <2>1. Owned' /\ Monitor!ForgottenIsEnded' /\ Truthful'
    BY <1>1, <1>13, <1>15
  <2>2. AccountTrue'
    <3>1. monitor.child # Monitor!None /\ Unchanged(children'[monitor.child].lines)
            => Unchanged(children[monitor.child].lines)
      BY <1>3, <1>12, <1>15
    <3> QED BY <1>1, <1>15, <3>1 DEF AccountTrue
  <2> QED BY <1>1, <1>9, <1>12, <1>15, <2>1, <2>2 DEF MonitorTypeInv
<1>16. CASE c = monitor.child /\ line.kind = "updated" /\ Monitor!AccountUpdated(line)
  <2>1. /\ monitor' \in MonitorSet /\ monitor'.child = monitor.child /\ monitor'.closed = monitor.closed
        /\ monitor'.phase = monitor.phase /\ monitor'.account = line.value /\ monitor'.quota = Monitor!None
        /\ refresh' = refresh
    BY <1>1, <1>7, <1>16 DEF Monitor!AccountUpdated, MonitorSet, Monitor!None
  <2>2. /\ overtaken' \in BOOLEAN
        /\ ~overtaken' => refresh.at # "limits" /\ (refresh.at = "account" => Monitor!Waiting)
    BY <1>1, <1>16 DEF Monitor!AccountUpdated
  <2>3. Owned' /\ Monitor!ForgottenIsEnded' /\ Truthful'
    BY <1>13, <2>1
  <2>4. AccountTrue'
    <3>1. ~overtaken' /\ Unchanged(rest) => ReadTrue(monitor', refresh', account)
      BY <1>14, <1>16, <2>1, <2>2 DEF ReadTrue, Monitor!Waiting
    <3> QED BY <1>1, <1>12, <1>16, <2>1, <3>1 DEF AccountTrue
  <2> QED BY <1>1, <1>9, <1>12, <2>1, <2>2, <2>3, <2>4 DEF MonitorTypeInv
<1>17. CASE c = monitor.child /\ line.kind = "announced" /\ Monitor!LimitsUpdated(line)
  <2>1. /\ monitor' \in MonitorSet /\ monitor'.child = monitor.child /\ monitor'.closed = monitor.closed
        /\ monitor'.phase = monitor.phase /\ monitor'.account = monitor.account
        /\ monitor'.quota = line.value /\ refresh' = refresh /\ overtaken' = overtaken
    BY <1>1, <1>7, <1>17 DEF Monitor!LimitsUpdated, MonitorSet
  <2>2. Owned' /\ Monitor!ForgottenIsEnded' /\ Truthful'
    BY <1>13, <2>1
  <2>3. AccountTrue'
    <3>1. ~overtaken /\ Unchanged(rest) => ReadTrue(monitor, refresh, account)
      BY <1>3, <1>17, <1>20 DEF AccountTrue, Owned
    <3>2. ~overtaken /\ Unchanged(rest) => ReadTrue(monitor', refresh', account)
      BY <1>14, <1>17, <2>1, <3>1 DEF ReadTrue
    <3> QED BY <1>1, <1>12, <1>17, <2>1, <3>2 DEF AccountTrue
  <2> QED BY <1>1, <1>9, <1>12, <2>1, <2>2, <2>3 DEF MonitorTypeInv
<1>18. CASE c = monitor.child /\ line.kind = "broken" /\ Monitor!FailProtocol /\ told
  <2>1. /\ monitor' \in MonitorSet /\ monitor'.child = monitor.child /\ monitor'.closed = monitor.closed
        /\ monitor'.phase = "unavailable" /\ overtaken' = overtaken /\ refresh' = Monitor!RejectPending(refresh)
    BY <1>1, <1>18 DEF Monitor!FailProtocol, MonitorSet, Monitor!None
  <2>2. /\ refresh' \in RefreshSet /\ refresh'.at = refresh.at /\ refresh'.read = refresh.read
        /\ refresh'.result.kind = "failed" \/ refresh'.result = refresh.result
        /\ Meant(children', refresh')
    BY <1>1, <1>9, <1>12, <2>1, FailedType
  <2>3. Owned' /\ Monitor!ForgottenIsEnded' /\ Truthful'
    BY <1>13, <1>18, <2>1
  <2>4. AccountTrue'
    <3>1. ~overtaken /\ Unchanged(rest) => ReadTrue(monitor, refresh, account)
      BY <1>3, <1>18, <1>20 DEF AccountTrue, Owned
    <3>2. ~overtaken /\ Unchanged(rest) => ReadTrue(monitor', refresh', account)
      BY <2>1, <2>2, <3>1 DEF ReadTrue
    <3> QED BY <1>1, <1>12, <1>18, <2>1, <2>2, <3>2 DEF AccountTrue
  <2> QED BY <1>1, <1>12, <2>1, <2>2, <2>3, <2>4 DEF MonitorTypeInv
<1>19. CASE /\ c = monitor.child /\ line.kind \notin {"updated", "announced", "broken"} /\ Monitor!Response(line)
            /\ Monitor!Expected(line)
  <2>1. /\ monitor' = monitor /\ overtaken' = overtaken /\ refresh' = [refresh EXCEPT !.result = line]
        /\ refresh.at # "none" /\ refresh.result.kind = "waiting" /\ line.id = refresh.id
    BY <1>19 DEF Monitor!Response, Monitor!Expected, Monitor!Waiting
  <2>2. line.kind = refresh.at
    BY <1>3, <1>19, <2>1 DEF LineSet, Answering
  <2>3. /\ refresh' \in RefreshSet /\ refresh'.at = refresh.at /\ refresh'.read = refresh.read
        /\ refresh'.result = line /\ refresh'.id = refresh.id
    BY <1>1, <1>3, <2>1 DEF RefreshSet, ResultSet
  <2>4. line.kind # "waiting" /\ line.kind # "none"
    BY <1>3 DEF LineSet, Asked
  <2>5. Meant(children', refresh')
    <3>1. Later(refresh, refresh')
      BY <2>3, <2>4 DEF Later
    <3> QED BY <1>1, <1>9, <1>12, <2>3, <3>1, KidsMeantLater
  <2>6. Owned' /\ Monitor!ForgottenIsEnded' /\ Truthful'
    BY <1>1, <1>13, <2>1
  <2>7. AccountTrue'
    <3>1. ~overtaken /\ Unchanged(rest) => ReadTrue(monitor, refresh, account)
      BY <1>3, <1>19, <1>20 DEF AccountTrue, Owned
    <3>2. ~overtaken /\ Unchanged(rest) => ReadTrue(monitor', refresh', account)
      BY <1>14, <1>19, <2>1, <2>2, <2>3, <3>1 DEF ReadTrue
    <3> QED BY <1>1, <1>12, <1>19, <2>1, <2>2, <2>3, <3>2 DEF AccountTrue
  <2> QED BY <1>1, <1>12, <2>1, <2>3, <2>5, <2>6, <2>7 DEF MonitorTypeInv
<1> QED
  <2>1. CASE c # monitor.child
    BY <1>5, <1>15, <2>1
  <2>2. CASE c = monitor.child /\ line.kind \notin {"updated", "announced", "broken"} /\ Monitor!Response(line) /\ ~Monitor!Expected(line)
    BY <1>15, <2>2 DEF Monitor!Response
  <2> QED BY <1>6, <1>16, <1>17, <1>18, <1>19, <2>1, <2>2

------------------------

LEMMA MonitorIsInvariant == Monitor!Spec => []MonitorInv
<1>1. Monitor!Init => MonitorInv
  <2>1. ASSUME Monitor!Init PROVE MonitorInv
    <3>1. Monitor!None \in Maybe /\ Monitor!None \in Nat /\ 0 \in Nat /\ 1 \in Nat
      BY DEF Maybe, Monitor!None
    <3>2. /\ monitor \in MonitorSet /\ monitor.child = Monitor!None
      BY <2>1, <3>1 DEF Monitor!Init, Monitor!Initial, MonitorSet
    <3>3. [kind |-> "waiting"] \in ResultSet
      BY DEF ResultSet
    <3>4. /\ refresh \in RefreshSet /\ refresh.at = "none"
      BY <2>1, <3>1, <3>3 DEF Monitor!Init, Monitor!NoRefresh, RefreshSet
    <3>5. Monitor!Unborn \in ChildSet /\ Monitor!Unborn.requests = <<>> /\ Monitor!Unborn.lines = <<>> /\ Monitor!Unborn.phase = "unborn"
      BY DEF Monitor!Unborn, ChildSet
    <3>6. /\ children \in [Monitor!Children -> ChildSet]
          /\ \A c \in Monitor!Children : children[c] = Monitor!Unborn
      BY <2>1, <3>5 DEF Monitor!Init
    <3>7. RequestsMeant(<<>>, refresh) /\ LinesMeant(<<>>, refresh)
      BY DEF RequestsMeant, LinesMeant
    <3>8. MonitorTypeInv
      BY <2>1, <3>2, <3>4, <3>6 DEF Monitor!Init, MonitorTypeInv
    <3>9. Owned /\ Truthful /\ AccountTrue /\ Monitor!ForgottenIsEnded
      BY <3>2, <3>4, <3>5, <3>6 DEF Owned, Truthful, AccountTrue, Monitor!ForgottenIsEnded,
         Monitor!Live
    <3>10. Meant(children, refresh)
      BY <3>5, <3>6, <3>7 DEF Meant
    <3> QED BY <3>8, <3>9, <3>10 DEF MonitorInv
  <2> QED BY <2>1
<1>2. MonitorInv /\ [Monitor!Next]_(Monitor!monitorVars) => MonitorInv'
  <2>1. ASSUME MonitorInv, UNCHANGED Monitor!monitorVars PROVE MonitorInv'
    BY <2>1 DEF Monitor!monitorVars, MonitorInv, MonitorTypeInv, Owned, Truthful, Meant,
       AccountTrue, Monitor!ForgottenIsEnded, Monitor!Live
  <2>2. ASSUME MonitorInv, Monitor!Next PROVE MonitorInv'
    BY <2>2, RefreshStep, ContinueStep, TimeoutStep, CloseStep, ChangeAccountStep, AcceptLineStep,
       ExitStep, InputBreaksStep, ServeStep, AnnounceStep, GarbleStep DEF Monitor!Next
  <2> QED BY <2>1, <2>2
<1> QED BY <1>1, <1>2, PTL DEF Monitor!Spec

LEMMA QuietIsTrueHolds == Monitor!Spec => []Monitor!QuietIsTrue
<1>1. MonitorInv => Monitor!QuietIsTrue
  <2>1. ASSUME MonitorInv PROVE Monitor!QuietIsTrue
    <3>1. Unchanged(<<>>)
      BY DEF Unchanged
    <3> QED BY <2>1, <3>1 DEF MonitorInv, AccountTrue, ReadTrue, Monitor!QuietIsTrue, Monitor!Live
  <2> QED BY <2>1
<1> QED BY <1>1, MonitorIsInvariant, PTL

LEMMA ForgottenIsEndedHolds == Monitor!Spec => []Monitor!ForgottenIsEnded
<1>1. MonitorInv => Monitor!ForgottenIsEnded
  BY DEF MonitorInv
<1> QED BY <1>1, MonitorIsInvariant, PTL

------------------------
(* The tabs of the web UI, for any tabs, sessions and bounds *)

Modes == {"closed", "initializing", "read-only", "writable", "terminal", "stopped"}
Kinds == {"exchange", "resume", "load", "poll", "change", "shutdown"}
Bys == {"writable", "read-only", "refresh", "resume", "change"} \union Kinds
Answers == {"none", "ok", "failed", "refused"}
DataSet == [status : Nat, rest : Nat]
TabSet ==
  [mode : Modes, terminal : BOOLEAN, csrf : Nat, workspace : DataSet, error : BOOLEAN,
   pending : BOOLEAN, sequence : Nat, wrote : Nat]
RequestSet ==
  [tab : Tabs, kind : Kinds, by : Bys, sequence : Nat, cookie : Nat, csrf : Nat, read : DataSet,
   sets : Nat, clears : BOOLEAN, answer : Answers]

TabTypeInv ==
  /\ tabs \in [Tabs -> TabSet]
  /\ requests \in SUBSET RequestSet
  /\ version \in Nat /\ version # Ui!None /\ cookie \in Nat /\ issued \in Nat

------------------------
(* What holds of a tab and of the requests that it has on their way. *)

Mine(t) == {r \in requests : r.tab = t}

\* No tab that has ended its work, or had it ended, works again, but for one that never wrote.
Over(tab) == tab.mode \in {"terminal", "stopped"}
\* The data are at least as new as the last change of the tab, where they are read.
Recent(data, tab) ==
  (data.status = Ui!None \/ data.status >= tab.wrote) /\ (data.rest = Ui!None \/ data.rest >= tab.wrote)

Initial(r) == r.kind = "exchange" \/ (r.kind = "load" /\ r.by \in {"writable", "read-only"})

TabOk(tab, v) ==
  /\ tab.wrote <= v
  /\ tab.mode \in {"closed", "initializing", "read-only"} => tab.wrote = Ui!None

Shown(tab, mine) ==
  ~Over(tab) /\ tab.workspace # Ui!NoData /\ ~tab.error /\ (\A r \in mine : r.kind # "load")
    => tab.workspace.status >= tab.wrote /\ tab.workspace.rest >= tab.wrote

\* What a request of a kind says of the mode of its tab.
KindOk(r, tab) ==
  /\ tab.mode # "closed"
  /\ Initial(r) <=> tab.mode = "initializing"
  /\ r.kind = "load" /\ r.by \in {"resume", "change"} => tab.mode # "read-only"
  /\ r.kind = "resume" =>
       /\ tab.mode \in {"read-only", "terminal"} /\ tab.wrote = Ui!None
       /\ tab.mode = "read-only" => tab.pending
  /\ r.kind = "change" => (tab.mode = "writable" /\ Ui!MutationAllowed(tab)) \/ Over(tab)
  /\ r.kind = "shutdown" => tab.mode = "writable" \/ Over(tab)

\* What a request has read.
ReadOk(r, tab, v) ==
  /\ r.kind = "load" => Over(tab) \/ Recent(r.read, tab)
  /\ r.kind = "load" /\ r.answer = "ok" => r.read.status # Ui!None /\ r.read.rest # Ui!None
  /\ r.kind = "poll" => r.sequence <= tab.sequence
  /\ r.kind = "poll" /\ r.sequence = tab.sequence => Over(tab) \/ Recent(r.read, tab)
  /\ r.kind = "poll" /\ r.answer = "ok" => r.read.status # Ui!None
  /\ r.kind = "change" /\ r.answer = "ok" => r.read.rest <= v

RequestOk(r, tab, v) == KindOk(r, tab) /\ ReadOk(r, tab, v)

\* The first request of a tab is its only one; so is its resume, among what may write.
PairOk(r, o) ==
  /\ Initial(r) => o = r
  /\ r.kind = "resume" => o.kind \notin {"change", "shutdown"} /\ (o.kind = "resume" => o = r)

TabInv(tab, mine, v) ==
  /\ TabOk(tab, v) /\ Shown(tab, mine)
  /\ \A r \in mine : RequestOk(r, tab, v)
  /\ \A r, o \in mine : PairOk(r, o)

ConsoleInv == TabTypeInv /\ \A t \in Tabs : TabInv(tabs[t], Mine(t), version)

------------------------
(* One tab: what the steps keep of it. *)

LEMMA LaterReads ==
  ASSUME NEW tab \in TabSet, NEW v \in Nat, NEW later \in Nat, v <= later,
         NEW r \in RequestSet, ReadOk(r, tab, v)
  PROVE  ReadOk(r, tab, later)
BY DEF ReadOk, RequestSet, DataSet

\* The requests of a tab are answered or fail, while the data change.
LEMMA MappedPart ==
  ASSUME NEW tab \in TabSet, NEW mine \in SUBSET RequestSet, NEW v \in Nat, NEW later \in Nat, v <= later,
         TabInv(tab, mine, v), NEW f \in [mine -> RequestSet],
         \A o \in mine : f[o].kind = o.kind /\ f[o].by = o.by /\ ReadOk(f[o], tab, later)
  PROVE  TabInv(tab, {f[o] : o \in mine}, later)
<1>1. TabOk(tab, later)
  BY DEF TabInv, TabOk, TabSet
<1>2. Shown(tab, {f[o] : o \in mine})
  BY DEF TabInv, Shown
<1>3. \A o \in mine : Initial(f[o]) <=> Initial(o)
  BY DEF Initial
<1>4. \A o \in mine : RequestOk(f[o], tab, later)
  BY <1>3 DEF TabInv, RequestOk, KindOk
<1>5. \A o, q \in mine : PairOk(f[o], f[q])
  BY <1>3 DEF TabInv, PairOk
<1> QED BY <1>1, <1>2, <1>4, <1>5 DEF TabInv

\* No request is left, of a tab that has written nothing.
LEMMA EmptyPart ==
  ASSUME NEW tab \in TabSet, NEW v \in Nat, tab.wrote = Ui!None
  PROVE  TabInv(tab, {}, v)
BY DEF TabInv, TabOk, Shown, TabSet, DataSet, Ui!None

\* The only request, of a tab that shows nothing new.
LEMMA AlonePart ==
  ASSUME NEW tab \in TabSet, NEW v \in Nat, NEW r \in RequestSet, TabOk(tab, v), KindOk(r, tab),
         r.answer = "none", r.read = Ui!NoData, (r.kind = "exchange" /\ tab.wrote = Ui!None) \/ r.kind = "load"
  PROVE  TabInv(tab, {r}, v)
<1>1. ReadOk(r, tab, v)
  BY DEF ReadOk, Recent, Ui!NoData
<1>2. Shown(tab, {r})
  BY DEF Shown, TabSet, DataSet, Ui!None
<1>3. PairOk(r, r)
  BY DEF PairOk
<1> QED BY <1>1, <1>2, <1>3 DEF TabInv, RequestOk

\* Requests that are no loads are forgotten; the tab ends to wait, or shows an error.
LEMMA KeptPart ==
  ASSUME NEW tab \in TabSet, NEW mine \in SUBSET RequestSet, NEW v \in Nat, TabInv(tab, mine, v),
         NEW next \in TabSet, NEW kept \in SUBSET mine, \A o \in mine \ kept : o.kind # "load",
         next.mode = tab.mode, next.terminal = tab.terminal, next.csrf = tab.csrf,
         next.sequence = tab.sequence, next.wrote = tab.wrote,
         next.error \/ (next.workspace = tab.workspace /\ next.error = tab.error),
         next.pending = tab.pending \/ (\A o \in kept : o.kind # "resume")
  PROVE  TabInv(next, kept, v)
<1>1. TabOk(next, v)
  BY DEF TabInv, TabOk
<1>2. Shown(next, kept)
  BY DEF TabInv, Shown, Over
<1>3. \A o \in kept : KindOk(o, next)
  BY DEF TabInv, RequestOk, KindOk, Ui!MutationAllowed, Over
<1>4. \A o \in kept : ReadOk(o, next, v)
  BY DEF TabInv, RequestOk, ReadOk, Recent, Over
<1> QED BY <1>1, <1>2, <1>3, <1>4 DEF TabInv, RequestOk

\* A load or a poll is shown.
LEMMA ShownPart ==
  ASSUME NEW tab \in TabSet, NEW mine \in SUBSET RequestSet, NEW v \in Nat, TabInv(tab, mine, v),
         NEW next \in TabSet, NEW kept \in SUBSET mine,
         next.mode = tab.mode, next.terminal = tab.terminal, next.csrf = tab.csrf,
         next.sequence = tab.sequence, next.wrote = tab.wrote,
         next.pending = tab.pending \/ (tab.mode # "read-only"),
         Shown(next, kept)
  PROVE  TabInv(next, kept, v)
<1>1. TabOk(next, v)
  BY DEF TabInv, TabOk
<1>3. \A o \in kept : KindOk(o, next)
  BY DEF TabInv, RequestOk, KindOk, Ui!MutationAllowed, Over
<1>4. \A o \in kept : ReadOk(o, next, v)
  BY DEF TabInv, RequestOk, ReadOk, Recent, Over
<1> QED BY <1>1, <1>3, <1>4 DEF TabInv, RequestOk

\* The tab is over.
LEMMA OverPart ==
  ASSUME NEW tab \in TabSet, NEW mine \in SUBSET RequestSet, NEW v \in Nat, TabInv(tab, mine, v),
         tab.mode # "initializing", NEW next \in TabSet, NEW kept \in SUBSET mine,
         Over(next), next.wrote <= v, next.sequence >= tab.sequence,
         \/ \A o \in kept : o.kind # "resume"
         \/ next.mode = "terminal" /\ next.wrote = tab.wrote
  PROVE  TabInv(next, kept, v)
<1>1. TabOk(next, v) /\ Shown(next, kept)
  BY DEF TabOk, Shown, Over
<1>2. \A o \in kept : ~Initial(o)
  BY DEF TabInv, RequestOk, KindOk
<1>3. \A o \in kept : KindOk(o, next)
  BY <1>2 DEF TabInv, RequestOk, KindOk, Over
<1>4. \A o \in kept : ReadOk(o, next, v)
  BY DEF TabInv, RequestOk, ReadOk, Over, TabSet, RequestSet
<1> QED BY <1>1, <1>3, <1>4 DEF TabInv, RequestOk

\* A load is begun, and cuts off those before it.
LEMMA BeginPart ==
  ASSUME NEW tab \in TabSet, NEW mine \in SUBSET RequestSet, NEW v \in Nat, TabInv(tab, mine, v),
         NEW next \in TabSet, NEW load \in RequestSet, NEW kept \in SUBSET mine,
         \A o \in kept : o.kind # "load", tab.mode # "initializing",
         load.kind = "load", load.read = Ui!NoData, load.answer = "none", KindOk(load, next),
         next.mode = tab.mode, next.terminal = tab.terminal, next.csrf = tab.csrf,
         next.sequence = tab.sequence + 1, TabOk(next, v),
         (next.wrote = tab.wrote /\ (next.pending = tab.pending \/ tab.mode # "read-only"))
           \/ (\A o \in kept : o.kind # "resume")
  PROVE  TabInv(next, kept \union {load}, v)
<1>1. Shown(next, kept \union {load})
  BY DEF Shown
<1>2. ReadOk(load, next, v)
  BY DEF ReadOk, Recent, Ui!NoData
<1>3. \A o \in kept : KindOk(o, next)
  BY DEF TabInv, RequestOk, KindOk, Ui!MutationAllowed, Over
<1>4. \A o \in kept : ReadOk(o, next, v)
  <2>1. ASSUME NEW o \in kept PROVE (o.sequence # next.sequence /\ o.sequence <= next.sequence) \/ o.kind # "poll"
    BY DEF TabInv, RequestOk, ReadOk, TabSet, RequestSet
  <2> QED BY <2>1 DEF TabInv, RequestOk, ReadOk
<1>5. \A o \in kept : ~Initial(o) /\ ~Initial(load)
  BY DEF TabInv, RequestOk, KindOk
<1>6. \A o, q \in kept \union {load} : PairOk(o, q)
  BY <1>5 DEF TabInv, PairOk
<1> QED BY <1>1, <1>2, <1>3, <1>4, <1>6 DEF TabInv, RequestOk

\* The user asks for something.
LEMMA AskedPart ==
  ASSUME NEW tab \in TabSet, NEW mine \in SUBSET RequestSet, NEW v \in Nat, TabInv(tab, mine, v),
         NEW next \in TabSet, NEW r \in RequestSet, r.answer = "none", r.read = Ui!NoData,
         next.mode = tab.mode, next.terminal = tab.terminal, next.csrf = tab.csrf,
         next.sequence = tab.sequence, next.wrote = tab.wrote,
         next.workspace = tab.workspace, next.error = tab.error, next.pending \/ next.pending = tab.pending,
         \/ r.kind = "poll" /\ r.sequence = tab.sequence /\ tab.mode \in {"read-only", "writable"}
         \/ r.kind \in {"change", "shutdown"} /\ tab.mode = "writable" /\ Ui!MutationAllowed(tab)
         \/ r.kind = "resume" /\ tab.mode = "read-only" /\ ~tab.pending /\ next.pending
  PROVE  TabInv(next, mine \union {r}, v)
<1>1. TabOk(next, v)
  BY DEF TabInv, TabOk
<1>2. Shown(next, mine \union {r})
  BY DEF TabInv, Shown, Over
<1>3. \A o \in mine : KindOk(o, next)
  BY DEF TabInv, RequestOk, KindOk, Ui!MutationAllowed, Over
<1>4. \A o \in mine : ReadOk(o, next, v)
  BY DEF TabInv, RequestOk, ReadOk, Recent, Over
<1>5. KindOk(r, next)
  BY <1>1 DEF KindOk, Initial, Ui!MutationAllowed, TabOk
<1>6. ReadOk(r, next, v)
  BY DEF ReadOk, Recent, Ui!NoData, TabSet, RequestSet
<1>7. \A o \in mine \union {r} : ~Initial(o)
  BY DEF TabInv, RequestOk, KindOk, Initial
<1>8. r.kind = "resume" => \A o \in mine : o.kind \notin {"change", "shutdown", "resume"}
  BY DEF TabInv, RequestOk, KindOk, Over
<1>9. r.kind \in {"change", "shutdown"} => \A o \in mine : o.kind # "resume"
  BY DEF TabInv, RequestOk, KindOk
<1>10. \A o, q \in mine \union {r} : PairOk(o, q)
  BY <1>7, <1>8, <1>9 DEF TabInv, PairOk
<1> QED BY <1>1, <1>2, <1>3, <1>4, <1>5, <1>6, <1>10 DEF TabInv, RequestOk

------------------------
(* The steps. *)

LEMMA ConsoleInit == Ui!Init => ConsoleInv
<1> SUFFICES ASSUME Ui!Init PROVE ConsoleInv
  OBVIOUS
<1>1. Ui!Fresh \in TabSet /\ Ui!Fresh.wrote = Ui!None
  BY DEF Ui!Fresh, Ui!NoData, TabSet, DataSet, Modes, Ui!None
<1>2. TabTypeInv
  BY <1>1 DEF Ui!Init, TabTypeInv, Ui!None
<1>3. \A t \in Tabs : Mine(t) = {} /\ tabs[t] = Ui!Fresh
  BY DEF Ui!Init, Mine
<1> QED BY <1>1, <1>2, <1>3, EmptyPart DEF ConsoleInv, TabTypeInv

LEMMA MineIs ==
  ASSUME ConsoleInv, NEW t \in Tabs
  PROVE  /\ tabs[t] \in TabSet /\ Mine(t) \in SUBSET RequestSet /\ TabInv(tabs[t], Mine(t), version)
         /\ version \in Nat
BY DEF ConsoleInv, TabTypeInv, Mine

LEMMA RequestIs ==
  ASSUME ConsoleInv, NEW r \in requests
  PROVE  /\ r \in RequestSet /\ r.tab \in Tabs /\ r \in Mine(r.tab)
         /\ RequestOk(r, tabs[r.tab], version)
<1>1. r \in RequestSet
  BY DEF ConsoleInv, TabTypeInv
<1>2. r.tab \in Tabs /\ r \in Mine(r.tab)
  BY <1>1 DEF RequestSet, Mine
<1> QED BY <1>1, <1>2, MineIs DEF TabInv

\* A step of one tab.
LEMMA TabHolds ==
  ASSUME ConsoleInv, NEW t \in Tabs, NEW next, next \in TabSet, tabs' = [tabs EXCEPT ![t] = next],
         NEW mine, mine \in SUBSET RequestSet, \A q \in mine : q.tab = t,
         \A q : q \in requests' <=> (q \in requests /\ q.tab # t) \/ q \in mine,
         TabInv(next, mine, version), version' = version, cookie' \in Nat, issued' \in Nat
  PROVE  ConsoleInv'
<1>1. tabs' \in [Tabs -> TabSet] /\ tabs'[t] = next /\ \A u \in Tabs : u # t => tabs'[u] = tabs[u]
  BY DEF ConsoleInv, TabTypeInv
<1>2. requests' \in SUBSET RequestSet
  BY DEF ConsoleInv, TabTypeInv
<1>3. TabTypeInv'
  BY <1>1, <1>2 DEF ConsoleInv, TabTypeInv
<1>4. Mine(t)' = mine /\ \A u \in Tabs : u # t => Mine(u)' = Mine(u)
  BY DEF Mine
<1>5. \A u \in Tabs : TabInv(tabs[u], Mine(u), version)'
  BY <1>1, <1>4 DEF ConsoleInv
<1> QED BY <1>3, <1>5 DEF ConsoleInv

\* A step of the server or of the network: requests are answered, the data change.
LEMMA MappedHolds ==
  ASSUME ConsoleInv, UNCHANGED tabs, version' \in Nat, version' # Ui!None, version <= version', cookie' \in Nat, issued' \in Nat,
         NEW f, f \in [requests -> RequestSet], requests' = {f[o] : o \in requests},
         \A o \in requests :
           /\ f[o].tab = o.tab /\ f[o].kind = o.kind /\ f[o].by = o.by
           /\ ReadOk(f[o], tabs[o.tab], version')
  PROVE  ConsoleInv'
<1>1. TabTypeInv'
  BY DEF ConsoleInv, TabTypeInv
<1>2. ASSUME NEW t \in Tabs PROVE TabInv(tabs[t], Mine(t), version)'
  <2>1. /\ tabs[t] \in TabSet /\ Mine(t) \in SUBSET RequestSet /\ TabInv(tabs[t], Mine(t), version)
        /\ version \in Nat
    BY MineIs
  <2> DEFINE g == [o \in Mine(t) |-> f[o]]
  <2>2. /\ g \in [Mine(t) -> RequestSet]
        /\ \A o \in Mine(t) : g[o].kind = o.kind /\ g[o].by = o.by /\ ReadOk(g[o], tabs[t], version')
    BY DEF Mine
  <2>3. Mine(t)' = {g[o] : o \in Mine(t)}
    <3>1. \A o \in requests : o.tab = t <=> o \in Mine(t)
      BY DEF Mine
    <3>2. \A q : q \in Mine(t)' <=> \E o \in requests : q = f[o] /\ o.tab = t
      BY DEF Mine
    <3>3. \A o \in Mine(t) : o \in requests /\ g[o] = f[o]
      BY DEF Mine
    <3>4. \A q : q \in Mine(t)' <=> \E o \in Mine(t) : q = g[o]
      BY <3>1, <3>2, <3>3
    <3> QED BY <3>4
  <2> HIDE DEF g
  <2>4. TabInv(tabs[t], {g[o] : o \in Mine(t)}, version')
    BY <2>1, <2>2, MappedPart
  <2> QED BY <2>3, <2>4
<1> QED BY <1>1, <1>2 DEF ConsoleInv

LEMMA ReadsLater ==
  ASSUME ConsoleInv, NEW o \in requests, version' \in Nat, version <= version'
  PROVE  ReadOk(o, tabs[o.tab], version')
<1>1. /\ o \in RequestSet /\ o.tab \in Tabs /\ ReadOk(o, tabs[o.tab], version) /\ tabs[o.tab] \in TabSet
      /\ version \in Nat
  BY RequestIs, MineIs DEF RequestOk
<1> QED BY <1>1, LaterReads

\* One request is answered.
LEMMA AnswerHolds ==
  ASSUME ConsoleInv, UNCHANGED tabs, version' \in Nat, version' # Ui!None, version <= version', cookie' \in Nat, issued' \in Nat,
         NEW r \in requests, NEW as, as \in RequestSet, Ui!Answer(r, as),
         as.tab = r.tab, as.kind = r.kind, as.by = r.by, ReadOk(as, tabs[r.tab], version')
  PROVE  ConsoleInv'
<1> DEFINE f == [o \in requests |-> IF o = r THEN as ELSE o]
<1>1. f \in [requests -> RequestSet] /\ requests' = {f[o] : o \in requests}
  BY DEF Ui!Answer, ConsoleInv, TabTypeInv
<1>2. \A o \in requests :
           /\ f[o].tab = o.tab /\ f[o].kind = o.kind /\ f[o].by = o.by
           /\ ReadOk(f[o], tabs[o.tab], version')
  BY ReadsLater
<1> HIDE DEF f
<1> QED BY <1>1, <1>2, MappedHolds

\* The same requests, older data.
LEMMA SameHolds ==
  ASSUME ConsoleInv, UNCHANGED <<tabs, requests>>, version' \in Nat, version' # Ui!None, version <= version', cookie' \in Nat, issued' \in Nat
  PROVE  ConsoleInv'
<1> DEFINE f == [o \in requests |-> o]
<1>1. f \in [requests -> RequestSet] /\ requests' = {f[o] : o \in requests}
  BY DEF ConsoleInv, TabTypeInv
<1>2. \A o \in requests :
           /\ f[o].tab = o.tab /\ f[o].kind = o.kind /\ f[o].by = o.by
           /\ ReadOk(f[o], tabs[o.tab], version')
  BY ReadsLater
<1> HIDE DEF f
<1> QED BY <1>1, <1>2, MappedHolds

\* The data that a request has read do not change with its answer.
LEMMA AnswerReads ==
  ASSUME NEW tab, NEW v, NEW r, NEW as, ReadOk(r, tab, v), as.kind = r.kind, as.sequence = r.sequence,
         as.read = r.read, as.answer # "ok"
  PROVE  ReadOk(as, tab, v)
BY DEF ReadOk

------------------------
(* The server. *)

LEMMA RefuseHolds ==
  ASSUME ConsoleInv, NEW r \in requests, Ui!Refuse(r), UNCHANGED <<tabs, cookie>>
  PROVE  ConsoleInv'
<1> DEFINE clears == Ui!Session(r.cookie) # Ui!Valid(r.cookie)
           as == [r EXCEPT !.answer = "refused", !.clears = clears]
<1>1. /\ r \in RequestSet /\ ReadOk(r, tabs[r.tab], version) /\ version' = version /\ issued' = issued
      /\ Ui!Answer(r, as) /\ clears \in BOOLEAN
  BY RequestIs DEF Ui!Refuse, RequestOk
<1> HIDE DEF clears
<1>2. /\ as \in RequestSet /\ as.tab = r.tab /\ as.kind = r.kind /\ as.by = r.by /\ as.sequence = r.sequence
      /\ as.read = r.read /\ as.answer = "refused"
  BY <1>1 DEF RequestSet, Answers
<1> HIDE DEF as
<1>3. ReadOk(as, tabs[r.tab], version')
  BY <1>1, <1>2, AnswerReads
<1>4. version' \in Nat /\ version' # Ui!None /\ version <= version' /\ cookie' \in Nat /\ issued' \in Nat
  BY <1>1 DEF ConsoleInv, TabTypeInv
<1> QED BY <1>1, <1>2, <1>3, <1>4, AnswerHolds

\* A session is issued: to an exchange or a resume, which read nothing.
LEMMA IssueHolds ==
  ASSUME ConsoleInv, NEW r \in requests, r.kind \in {"exchange", "resume"},
         NEW login, NEW expires, NEW kept, Ui!Issue(r, login, expires, kept), UNCHANGED <<tabs, cookie>>
  PROVE  ConsoleInv'
<1> DEFINE as == [r EXCEPT !.answer = "ok", !.sets = issued']
<1>1. r \in RequestSet /\ version' = version /\ issued' \in Nat /\ Ui!Answer(r, as)
  BY RequestIs DEF Ui!Issue, ConsoleInv, TabTypeInv
<1>2. as \in RequestSet /\ as.tab = r.tab /\ as.kind = r.kind /\ as.by = r.by
  BY <1>1 DEF RequestSet, Answers
<1> HIDE DEF as
<1>3. ReadOk(as, tabs[r.tab], version')
  BY <1>2 DEF ReadOk
<1>4. version' \in Nat /\ version' # Ui!None /\ version <= version' /\ cookie' \in Nat
  BY <1>1 DEF ConsoleInv, TabTypeInv
<1> QED BY <1>1, <1>2, <1>3, <1>4, AnswerHolds

LEMMA ReadDataHolds ==
  ASSUME ConsoleInv, NEW r \in requests, Ui!ReadData(r), r.answer = "none", UNCHANGED <<tabs, cookie>>
  PROVE  ConsoleInv'
<1>1. CASE Ui!Refuse(r)
  BY <1>1, RefuseHolds
<1>2. CASE ~Ui!Refuse(r)
  <2> DEFINE Part(half) == [r.read EXCEPT ![half] = version]
             Whole(half) == r.kind = "poll" \/ (Part(half).status # Ui!None /\ Part(half).rest # Ui!None)
             As(half) == [r EXCEPT !.read = Part(half), !.answer = IF Whole(half) THEN "ok" ELSE "none"]
  <2>1. PICK half \in {"status", "rest"} : (r.kind = "poll" => half = "status") /\ Ui!Answer(r, As(half))
    BY <1>2 DEF Ui!ReadData
  <2>2. /\ r.kind \in {"load", "poll"} /\ version' = version /\ issued' = issued
        /\ r \in RequestSet /\ ReadOk(r, tabs[r.tab], version) /\ r.tab \in Tabs
        /\ tabs[r.tab] \in TabSet /\ TabOk(tabs[r.tab], version) /\ version \in Nat
    BY <1>2, RequestIs, MineIs DEF Ui!ReadData, RequestOk, TabInv
  <2>3. r.read \in DataSet
    BY <2>2 DEF RequestSet
  <2>4. /\ Part(half) \in DataSet
        /\ Part(half).status \in {version, r.read.status} /\ Part(half).rest \in {version, r.read.rest}
        /\ half = "status" => Part(half).status = version
    BY <2>1, <2>2, <2>3 DEF DataSet
  <2>5. Recent(r.read, tabs[r.tab]) => Recent(Part(half), tabs[r.tab])
    BY <2>4, <2>2 DEF Recent, TabOk, TabSet
  <2>6. version # Ui!None
    BY DEF ConsoleInv, TabTypeInv
  <2>7. Whole(half) \in BOOLEAN /\ (Whole(half) /\ r.kind = "load" => Part(half).status # Ui!None /\ Part(half).rest # Ui!None)
        /\ (Whole(half) /\ r.kind = "poll" => Part(half).status # Ui!None)
    BY <2>1, <2>4, <2>6 DEF TabTypeInv
  <2> HIDE DEF Part, Whole
  <2>8. /\ As(half) \in RequestSet /\ As(half).tab = r.tab /\ As(half).kind = r.kind /\ As(half).by = r.by
        /\ As(half).sequence = r.sequence /\ As(half).read = Part(half)
        /\ As(half).answer = "ok" => Whole(half)
    BY <2>2, <2>4, <2>7 DEF RequestSet, Answers
  <2> HIDE DEF As
  <2>9. ReadOk(As(half), tabs[r.tab], version')
    BY <2>2, <2>5, <2>7, <2>8 DEF ReadOk
  <2>10. version' \in Nat /\ version' # Ui!None /\ version <= version' /\ cookie' \in Nat /\ issued' \in Nat
    BY <2>2 DEF ConsoleInv, TabTypeInv
  <2> QED BY <2>1, <2>8, <2>9, <2>10, AnswerHolds
<1> QED BY <1>1, <1>2

LEMMA HandleChangeHolds ==
  ASSUME ConsoleInv, NEW r \in requests, Ui!HandleChange(r), UNCHANGED <<tabs, cookie>>
  PROVE  ConsoleInv'
<1>1. CASE Ui!Refuse(r)
  BY <1>1, RefuseHolds
<1>2. CASE ~Ui!Refuse(r)
  <2> DEFINE later == version + 1
             as == [r EXCEPT !.answer = "ok", !.read.rest = version']
  <2>1. r.kind = "change" /\ version' = version + 1 /\ issued' = issued /\ Ui!Answer(r, as)
    BY <1>2 DEF Ui!HandleChange
  <2>2. r \in RequestSet /\ version \in Nat /\ version' \in Nat /\ version' # Ui!None /\ r.read \in DataSet
    BY <2>1, RequestIs DEF ConsoleInv, TabTypeInv, RequestSet, Ui!None
  <2>3. /\ as \in RequestSet /\ as.tab = r.tab /\ as.kind = r.kind /\ as.by = r.by
        /\ as.read.rest = version'
    BY <2>2 DEF RequestSet, DataSet, Answers
  <2> HIDE DEF as
  <2>4. ReadOk(as, tabs[r.tab], version')
    BY <2>1, <2>2, <2>3 DEF ReadOk
  <2>5. version <= version' /\ cookie' \in Nat /\ issued' \in Nat
    BY <2>1, <2>2 DEF ConsoleInv, TabTypeInv
  <2> QED BY <2>1, <2>2, <2>3, <2>4, <2>5, AnswerHolds
<1> QED BY <1>1, <1>2

\* What was not answered fails; f is what becomes of the rest.
LEMMA RestartedHolds ==
  ASSUME ConsoleInv, NEW f, f \in [requests -> RequestSet],
         \A o \in requests :
           /\ f[o].tab = o.tab /\ f[o].kind = o.kind /\ f[o].by = o.by
           /\ ReadOk(f[o], tabs[o.tab], version),
         Ui!Restarted({f[o] : o \in requests}), UNCHANGED <<tabs, cookie>>
  PROVE  ConsoleInv'
<1> DEFINE failed(o) == [o EXCEPT !.answer = "failed"]
           g == [o \in requests |-> IF f[o].answer = "none" THEN failed(f[o]) ELSE f[o]]
<1>1. /\ version' = version /\ issued' = issued
      /\ requests' = {IF o.answer = "none" THEN failed(o) ELSE o : o \in {f[o] : o \in requests}}
  BY DEF Ui!Restarted
<1>2. requests' = {g[o] : o \in requests}
  <2>1. \A q : q \in requests' <=> \E o \in requests : q = (IF f[o].answer = "none" THEN failed(f[o]) ELSE f[o])
    BY <1>1
  <2> QED BY <2>1
<1>3. \A q \in RequestSet : /\ failed(q) \in RequestSet /\ failed(q).tab = q.tab /\ failed(q).kind = q.kind
                            /\ failed(q).by = q.by /\ failed(q).sequence = q.sequence
                            /\ failed(q).read = q.read /\ failed(q).answer = "failed"
  BY DEF RequestSet, Answers
<1> HIDE DEF failed
<1>4. \A o \in requests : f[o] \in RequestSet /\ (g[o] = f[o] \/ g[o] = failed(f[o]))
  OBVIOUS
<1>5. g \in [requests -> RequestSet]
  BY <1>3
<1> HIDE DEF g
<1>6. ASSUME NEW o \in requests
      PROVE  /\ g[o].tab = o.tab /\ g[o].kind = o.kind /\ g[o].by = o.by
             /\ ReadOk(g[o], tabs[o.tab], version')
  <2>1. CASE g[o] = f[o]
    BY <1>1, <2>1
  <2>2. CASE g[o] = failed(f[o])
    <3>1. /\ failed(f[o]).tab = o.tab /\ failed(f[o]).kind = o.kind /\ failed(f[o]).by = o.by
      BY <1>3, <1>4
    <3>2. ReadOk(failed(f[o]), tabs[o.tab], version)
      BY <1>3, <1>4, AnswerReads
    <3> QED BY <1>1, <2>2, <3>1, <3>2
  <2> QED BY <1>4, <2>1, <2>2
<1>7. version' \in Nat /\ version' # Ui!None /\ version <= version' /\ cookie' \in Nat /\ issued' \in Nat
  BY <1>1 DEF ConsoleInv, TabTypeInv
<1>8. version' # Ui!None /\ UNCHANGED tabs
  BY <1>1 DEF ConsoleInv, TabTypeInv
<1> QED BY <1>2, <1>5, <1>6, <1>7, <1>8, MappedHolds

LEMMA HandleShutdownHolds ==
  ASSUME ConsoleInv, NEW r \in requests, Ui!HandleShutdown(r), UNCHANGED <<tabs, cookie>>
  PROVE  ConsoleInv'
<1>1. CASE Ui!Refuse(r)
  BY <1>1, RefuseHolds
<1>2. CASE ~Ui!Refuse(r)
  <2> DEFINE as == [r EXCEPT !.answer = "ok"]
             f == [o \in requests |-> IF o = r THEN as ELSE o]
  <2>1. r.kind = "shutdown" /\ Ui!Restarted((requests \ {r}) \union {as})
    BY <1>2 DEF Ui!HandleShutdown
  <2>2. r \in RequestSet
    BY RequestIs
  <2>3. as \in RequestSet /\ as.tab = r.tab /\ as.kind = r.kind /\ as.by = r.by
    BY <2>2 DEF RequestSet, Answers
  <2> HIDE DEF as
  <2>4. f \in [requests -> RequestSet] /\ (requests \ {r}) \union {as} = {f[o] : o \in requests}
    BY <2>3 DEF ConsoleInv, TabTypeInv
  <2>5. \A o \in requests :
           /\ f[o].tab = o.tab /\ f[o].kind = o.kind /\ f[o].by = o.by
           /\ ReadOk(f[o], tabs[o.tab], version)
    <3>1. ReadOk(as, tabs[r.tab], version)
      BY <2>1, <2>3 DEF ReadOk
    <3>2. \A o \in requests : ReadOk(o, tabs[o.tab], version)
      BY RequestIs DEF RequestOk
    <3> QED BY <2>3, <3>1, <3>2
  <2> HIDE DEF f
  <2> QED BY <2>1, <2>4, <2>5, RestartedHolds
<1> QED BY <1>1, <1>2

LEMMA RestartHolds == ASSUME ConsoleInv, Ui!Restart PROVE ConsoleInv'
<1> DEFINE f == [o \in requests |-> o]
<1>1. f \in [requests -> RequestSet] /\ requests = {f[o] : o \in requests}
  BY DEF ConsoleInv, TabTypeInv
<1>2. \A o \in requests : ReadOk(o, tabs[o.tab], version)
  BY RequestIs DEF RequestOk
<1>3. \A o \in requests :
           /\ f[o].tab = o.tab /\ f[o].kind = o.kind /\ f[o].by = o.by
           /\ ReadOk(f[o], tabs[o.tab], version)
  BY <1>2
<1>4. Ui!Restarted(requests) /\ UNCHANGED <<tabs, cookie>>
  BY DEF Ui!Restart
<1> HIDE DEF f
<1>5. Ui!Restarted({f[o] : o \in requests})
  BY <1>1, <1>4
<1> QED BY <1>1, <1>3, <1>4, <1>5, RestartedHolds

LEMMA HandleHolds == ASSUME ConsoleInv, NEW r \in requests, Ui!Handle(r) PROVE ConsoleInv'
<1>1. UNCHANGED <<tabs, cookie>> /\ r.answer = "none"
  BY DEF Ui!Handle
<1>2. ASSUME Ui!CreateBrowserSession(r) PROVE ConsoleInv'
  BY <1>1, <1>2, IssueHolds DEF Ui!CreateBrowserSession
<1>3. ASSUME Ui!ResumeBrowserSession(r) PROVE ConsoleInv'
  <2>1. r.kind = "resume"
    BY <1>3 DEF Ui!ResumeBrowserSession
  <2>2. CASE Ui!Refuse(r)
    BY <1>1, <2>2, RefuseHolds
  <2>3. CASE \E s \in Ui!Valid(r.cookie) : Ui!Issue(r, s.login, s.expires, Ui!Replaced(s))
    BY <1>1, <2>1, <2>3, IssueHolds
  <2> QED BY <1>3, <2>2, <2>3 DEF Ui!ResumeBrowserSession
<1> QED BY <1>1, <1>2, <1>3, ReadDataHolds, HandleChangeHolds, HandleShutdownHolds DEF Ui!Handle

LEMMA FailHolds == ASSUME ConsoleInv, NEW r \in requests, Ui!Fail(r) PROVE ConsoleInv'
<1> DEFINE as == [r EXCEPT !.answer = "failed", !.sets = Ui!None, !.clears = FALSE]
<1>1. r \in RequestSet /\ ReadOk(r, tabs[r.tab], version) /\ Ui!Answer(r, as)
      /\ UNCHANGED <<tabs, cookie, version, issued>>
  BY RequestIs DEF Ui!Fail, RequestOk
<1>2. /\ as \in RequestSet /\ as.tab = r.tab /\ as.kind = r.kind /\ as.by = r.by /\ as.sequence = r.sequence
      /\ as.read = r.read /\ as.answer = "failed"
  BY <1>1 DEF RequestSet, Answers, Ui!None
<1> HIDE DEF as
<1>3. ReadOk(as, tabs[r.tab], version')
  BY <1>1, <1>2, AnswerReads
<1>4. version' \in Nat /\ version' # Ui!None /\ version <= version' /\ cookie' \in Nat /\ issued' \in Nat
  BY <1>1 DEF ConsoleInv, TabTypeInv
<1> QED BY <1>1, <1>2, <1>3, <1>4, AnswerHolds

------------------------
(* Requests of a tab. *)

LEMMA TabRequestType ==
  ASSUME ConsoleInv, NEW t \in Tabs, NEW kind \in Kinds, NEW by \in Bys
  PROVE  /\ Ui!Request(t, kind, by) \in RequestSet
         /\ Ui!Request(t, kind, by).tab = t /\ Ui!Request(t, kind, by).kind = kind /\ Ui!Request(t, kind, by).by = by
         /\ Ui!Request(t, kind, by).sequence = tabs[t].sequence
         /\ Ui!Request(t, kind, by).read = Ui!NoData /\ Ui!Request(t, kind, by).answer = "none"
<1>1. tabs[t] \in TabSet /\ cookie \in Nat
  BY DEF ConsoleInv, TabTypeInv
<1>2. tabs[t].sequence \in Nat /\ tabs[t].csrf \in Nat /\ Ui!NoData \in DataSet
  BY <1>1 DEF TabSet, Ui!NoData, DataSet, Ui!None
<1> QED BY <1>1, <1>2 DEF Ui!Request, RequestSet, Answers, Ui!None

\* A load that begins, and the tab that it belongs to.
FreshLoad(load, t, by) ==
  load \in RequestSet /\ load.tab = t /\ load.kind = "load" /\ load.by = by
    /\ load.read = Ui!NoData /\ load.answer = "none"
Onward(next, tab) ==
  /\ next \in TabSet /\ next.mode = tab.mode /\ next.terminal = tab.terminal /\ next.csrf = tab.csrf
  /\ next.workspace = tab.workspace /\ next.error = tab.error /\ next.wrote = tab.wrote
  /\ next.sequence = tab.sequence + 1

LEMMA BeginLoadHolds ==
  ASSUME ConsoleInv, NEW t \in Tabs, NEW tab, tab \in TabSet, NEW by, by \in Bys, NEW others,
         Ui!BeginLoad(t, tab, by, others), others \in SUBSET requests, \A q \in requests \ others : q.tab = t,
         cookie' \in Nat, UNCHANGED <<version, issued>>,
         tab.terminal =>
           /\ Ui!Loaded([tab EXCEPT !.error = TRUE], by) \in TabSet
           /\ TabInv(Ui!Loaded([tab EXCEPT !.error = TRUE], by), {q \in others : q.tab = t}, version),
         ~tab.terminal => \A load, next :
           FreshLoad(load, t, by) /\ Onward(next, tab)
             /\ (\/ next.pending = tab.pending
                 \/ by = "refresh" /\ \E o \in Mine(t) : o.kind = "load" /\ o.by \in {"resume", "change"})
             => TabInv(next, {q \in others : q.tab = t /\ q.kind # "load"} \union {load}, version)
  PROVE  ConsoleInv'
<1>1. requests \in SUBSET RequestSet /\ version' = version /\ issued' \in Nat
  BY DEF ConsoleInv, TabTypeInv
<1>2. CASE tab.terminal
  <2> DEFINE next == Ui!Loaded([tab EXCEPT !.error = TRUE], by)
             mine == {q \in others : q.tab = t}
  <2>1. tabs' = [tabs EXCEPT ![t] = next] /\ requests' = others
    BY <1>2 DEF Ui!BeginLoad
  <2>2. next \in TabSet /\ TabInv(next, mine, version)
    BY <1>2
  <2> HIDE DEF next
  <2>3. /\ mine \in SUBSET RequestSet /\ \A q \in mine : q.tab = t
        /\ \A q : q \in requests' <=> (q \in requests /\ q.tab # t) \/ q \in mine
    BY <1>1, <2>1
  <2> HIDE DEF mine
  <2> QED BY <1>1, <2>1, <2>2, <2>3, TabHolds
<1>3. CASE ~tab.terminal
  <2> DEFINE onward == [tab EXCEPT !.sequence = @ + 1]
             freed == {r \in Ui!Superseded(t) : r.by \in {"resume", "change"}} # {} /\ by = "refresh"
             idle == [onward EXCEPT !.pending = FALSE]
             next == IF freed THEN idle ELSE onward
             load == [Ui!Request(t, "load", by) EXCEPT !.sequence = onward.sequence]
             mine == {q \in others : q.tab = t /\ q.kind # "load"} \union {load}
  <2>1. tabs' = [tabs EXCEPT ![t] = next] /\ requests' = (others \ Ui!Superseded(t)) \union {load}
    BY <1>3 DEF Ui!BeginLoad
  <2>2. Onward(onward, tab) /\ Onward(idle, tab) /\ onward.pending = tab.pending
    <3>1. /\ onward \in TabSet /\ onward.sequence = tab.sequence + 1
          /\ onward.mode = tab.mode /\ onward.terminal = tab.terminal /\ onward.csrf = tab.csrf
          /\ onward.workspace = tab.workspace /\ onward.error = tab.error /\ onward.wrote = tab.wrote
          /\ onward.pending = tab.pending
      BY DEF TabSet
    <3> HIDE DEF onward
    <3>2. /\ idle \in TabSet /\ idle.sequence = onward.sequence
          /\ idle.mode = onward.mode /\ idle.terminal = onward.terminal /\ idle.csrf = onward.csrf
          /\ idle.workspace = onward.workspace /\ idle.error = onward.error /\ idle.wrote = onward.wrote
      BY <3>1 DEF TabSet
    <3> HIDE DEF idle
    <3> QED BY <3>1, <3>2 DEF Onward
  <2>3. FreshLoad(load, t, by)
    <3>1. /\ Ui!Request(t, "load", by) \in RequestSet
          /\ Ui!Request(t, "load", by).tab = t /\ Ui!Request(t, "load", by).kind = "load" /\ Ui!Request(t, "load", by).by = by
          /\ Ui!Request(t, "load", by).read = Ui!NoData /\ Ui!Request(t, "load", by).answer = "none"
      BY TabRequestType DEF Kinds
    <3>2. onward.sequence \in Nat
      BY <2>2 DEF Onward, TabSet
    <3> HIDE DEF onward
    <3> DEFINE request == Ui!Request(t, "load", by)
               sent == [request EXCEPT !.sequence = onward.sequence]
    <3>3. request \in RequestSet /\ request.tab = t /\ request.kind = "load" /\ request.by = by
          /\ request.read = Ui!NoData /\ request.answer = "none"
      BY <3>1
    <3> HIDE DEF request
    <3>4. FreshLoad(sent, t, by)
      BY <3>2, <3>3 DEF FreshLoad, RequestSet
    <3>5. load = sent
      BY DEF request
    <3> QED BY <3>4, <3>5
  <2>4. freed => by = "refresh" /\ \E o \in Mine(t) : o.kind = "load" /\ o.by \in {"resume", "change"}
    BY DEF Ui!Superseded, Ui!Loads, Mine
  <2> HIDE DEF onward, freed, idle, load
  <2>5. Onward(next, tab) /\ (next.pending = tab.pending \/ freed)
    BY <2>2
  <2> HIDE DEF next
  <2>6. TabInv(next, mine, version)
    BY <1>3, <2>3, <2>4, <2>5
  <2>7. /\ mine \in SUBSET RequestSet /\ \A q \in mine : q.tab = t
    BY <1>1, <2>3 DEF FreshLoad
  <2>8. \A q \in requests : q \in Ui!Superseded(t) <=> q.tab = t /\ q.kind = "load"
    BY DEF Ui!Superseded, Ui!Loads
  <2>9. \A q : q \in requests' <=> (q \in requests /\ q.tab # t) \/ q \in mine
    BY <2>1, <2>3, <2>8 DEF FreshLoad
  <2>10. next \in TabSet
    BY <2>5 DEF Onward
  <2> HIDE DEF mine
  <2> QED BY <1>1, <2>1, <2>6, <2>7, <2>9, <2>10, TabHolds
<1> QED BY <1>2, <1>3

\* The tab changes and forgets requests of its own.
LEMMA KeepHolds ==
  ASSUME ConsoleInv, NEW t \in Tabs, NEW next, next \in TabSet, NEW others, Ui!Keep(t, next, others),
         others \in SUBSET requests, \A q \in requests \ others : q.tab = t,
         cookie' \in Nat, UNCHANGED <<version, issued>>,
         TabInv(next, {q \in others : q.tab = t}, version)
  PROVE  ConsoleInv'
<1> DEFINE mine == {q \in others : q.tab = t}
<1>1. tabs' = [tabs EXCEPT ![t] = next] /\ requests' = others
  BY DEF Ui!Keep
<1>2. requests \in SUBSET RequestSet /\ version' = version /\ issued' \in Nat
  BY DEF ConsoleInv, TabTypeInv
<1>3. /\ mine \in SUBSET RequestSet /\ \A q \in mine : q.tab = t
      /\ \A q : q \in requests' <=> (q \in requests /\ q.tab # t) \/ q \in mine
  BY <1>1, <1>2
<1> HIDE DEF mine
<1> QED BY <1>1, <1>2, <1>3, TabHolds DEF mine

------------------------
(* The user. *)

LEMMA OpenHolds == ASSUME ConsoleInv, NEW t \in Tabs, Ui!Open(t) PROVE ConsoleInv'
<1> DEFINE tab == [tabs[t] EXCEPT !.mode = "initializing"]
<1>1. /\ tabs[t].mode = "closed" /\ tabs[t] \in TabSet /\ TabInv(tabs[t], Mine(t), version)
      /\ version \in Nat /\ Mine(t) \in SUBSET RequestSet
      /\ UNCHANGED <<cookie, version, issued>> /\ cookie' \in Nat /\ issued' \in Nat
  BY MineIs DEF Ui!Open, ConsoleInv, TabTypeInv
<1>2. Mine(t) = {} /\ tabs[t].wrote = Ui!None
  BY <1>1 DEF TabInv, TabOk, RequestOk, KindOk
<1>3. tab \in TabSet /\ tab.mode = "initializing" /\ tab.wrote = Ui!None
  BY <1>1, <1>2 DEF TabSet, Modes
<1>4. TabOk(tab, version)
  BY <1>1, <1>3 DEF TabOk, Ui!None
<1>5. CASE tabs' = [tabs EXCEPT ![t].mode = "initializing"]
            /\ requests' = requests \union {Ui!Request(t, "exchange", "writable")}
  <2> DEFINE r == Ui!Request(t, "exchange", "writable")
  <2>1. r \in RequestSet /\ r.tab = t /\ r.kind = "exchange" /\ r.read = Ui!NoData /\ r.answer = "none"
    BY TabRequestType DEF Kinds, Bys
  <2>2. tabs' = [tabs EXCEPT ![t] = tab] /\ requests' = requests \union {r}
    BY <1>5 DEF ConsoleInv, TabTypeInv
  <2> HIDE DEF r, tab
  <2>3. KindOk(r, tab)
    BY <1>3, <2>1 DEF KindOk, Initial
  <2>4. TabInv(tab, {r}, version)
    BY <1>1, <1>3, <1>4, <2>1, <2>3, AlonePart
  <2> DEFINE mine == {r}
  <2>5. /\ \A q : q \in requests' <=> (q \in requests /\ q.tab # t) \/ q \in mine
        /\ \A q \in mine : q.tab = t
        /\ mine \in SUBSET RequestSet /\ TabInv(tab, mine, version)
    BY <1>2, <2>1, <2>2, <2>4 DEF Mine
  <2> HIDE DEF mine
  <2> QED BY <1>1, <1>3, <2>2, <2>5, TabHolds
<1>6. CASE Ui!BeginLoad(t, tab, "read-only", requests)
  <2>1. {q \in requests : q.tab = t} = {}
    BY <1>2 DEF Mine
  <2>2. Ui!Loaded([tab EXCEPT !.error = TRUE], "read-only") \in TabSet
        /\ Ui!Loaded([tab EXCEPT !.error = TRUE], "read-only").wrote = Ui!None
    BY <1>3 DEF Ui!Loaded, TabSet, Modes
  <2> HIDE DEF tab
  <2>3. TabInv(Ui!Loaded([tab EXCEPT !.error = TRUE], "read-only"), {q \in requests : q.tab = t}, version)
    BY <1>1, <2>1, <2>2, EmptyPart
  <2>4. ASSUME NEW load, NEW next, FreshLoad(load, t, "read-only"), Onward(next, tab)
        PROVE  TabInv(next, {q \in requests : q.tab = t /\ q.kind # "load"} \union {load}, version)
    <3>1. {q \in requests : q.tab = t /\ q.kind # "load"} \union {load} = {load}
      BY <2>1
    <3>2. next \in TabSet /\ TabOk(next, version) /\ KindOk(load, next)
      BY <1>3, <1>4, <2>4 DEF Onward, FreshLoad, TabOk, KindOk, Initial
    <3>3. TabInv(next, {load}, version)
      BY <1>1, <2>4, <3>2, AlonePart DEF FreshLoad
    <3> QED BY <3>1, <3>3
  <2>5. "read-only" \in Bys
    BY DEF Bys
  <2> QED BY <1>1, <1>3, <1>6, <2>2, <2>3, <2>4, <2>5, BeginLoadHolds
<1> QED BY <1>5, <1>6 DEF Ui!Open

LEMMA RefreshHolds == ASSUME ConsoleInv, NEW t \in Tabs, Ui!Refresh(t) PROVE ConsoleInv'
<1> DEFINE tab == tabs[t]
           failed == [tab EXCEPT !.error = TRUE]
<1>1. /\ tab.mode \in {"writable", "read-only"} /\ tab \in TabSet /\ TabInv(tab, Mine(t), version)
      /\ version \in Nat /\ Mine(t) \in SUBSET RequestSet
      /\ UNCHANGED <<cookie, version, issued>> /\ cookie' \in Nat /\ issued' \in Nat
      /\ Ui!BeginLoad(t, tab, "refresh", requests)
  BY MineIs DEF Ui!Refresh, Ui!Ready, ConsoleInv, TabTypeInv
<1>2. /\ failed \in TabSet /\ failed.error
      /\ failed.mode = tab.mode /\ failed.terminal = tab.terminal /\ failed.csrf = tab.csrf
      /\ failed.sequence = tab.sequence /\ failed.wrote = tab.wrote /\ failed.pending = tab.pending
  BY <1>1 DEF TabSet
<1>3. Ui!Loaded(failed, "refresh") = failed /\ {q \in requests : q.tab = t} = Mine(t)
  BY DEF Ui!Loaded, Mine
<1> HIDE DEF failed
<1>4. TabInv(failed, Mine(t), version)
  BY <1>1, <1>2, KeptPart
<1>5. ASSUME NEW load, NEW next, FreshLoad(load, t, "refresh"), Onward(next, tab),
             \/ next.pending = tab.pending
             \/ \E o \in Mine(t) : o.kind = "load" /\ o.by \in {"resume", "change"}
      PROVE  TabInv(next, {q \in requests : q.tab = t /\ q.kind # "load"} \union {load}, version)
  <2> DEFINE kept == {q \in requests : q.tab = t /\ q.kind # "load"}
  <2>1. kept \in SUBSET Mine(t) /\ \A o \in kept : o.kind # "load"
    BY DEF Mine
  <2>2. next \in TabSet /\ TabOk(next, version) /\ KindOk(load, next)
    BY <1>1, <1>5 DEF Onward, FreshLoad, TabInv, TabOk, KindOk, Initial
  <2>3. next.pending = tab.pending \/ tab.mode # "read-only"
    BY <1>1, <1>5 DEF TabInv, RequestOk, KindOk
  <2> HIDE DEF kept
  <2>4. TabInv(next, kept \union {load}, version)
    BY <1>1, <1>5, <2>1, <2>2, <2>3, BeginPart DEF Onward, FreshLoad
  <2> QED BY <2>4 DEF kept
<1>6. "refresh" \in Bys
  BY DEF Bys
<1>7. Ui!Loaded([tab EXCEPT !.error = TRUE], "refresh") = failed
  BY <1>3 DEF failed
<1> HIDE DEF tab
<1> QED BY <1>1, <1>2, <1>3, <1>4, <1>5, <1>6, <1>7, BeginLoadHolds

\* A request is sent.
LEMMA SentHolds ==
  ASSUME ConsoleInv, NEW t \in Tabs, NEW kind \in Kinds, NEW by \in Bys,
         requests' = requests \union {Ui!Request(t, kind, by)},
         NEW next, next \in TabSet, tabs' = [tabs EXCEPT ![t] = next], UNCHANGED <<cookie, version, issued>>,
         next.mode = tabs[t].mode, next.terminal = tabs[t].terminal, next.csrf = tabs[t].csrf,
         next.sequence = tabs[t].sequence, next.wrote = tabs[t].wrote,
         next.workspace = tabs[t].workspace, next.error = tabs[t].error,
         next.pending \/ next.pending = tabs[t].pending,
         \/ kind = "poll" /\ tabs[t].mode \in {"read-only", "writable"}
         \/ kind \in {"change", "shutdown"} /\ tabs[t].mode = "writable" /\ Ui!MutationAllowed(tabs[t])
         \/ kind = "resume" /\ tabs[t].mode = "read-only" /\ ~tabs[t].pending /\ next.pending
  PROVE  ConsoleInv'
<1> DEFINE r == Ui!Request(t, kind, by)
<1>1. /\ r \in RequestSet /\ r.tab = t /\ r.kind = kind /\ r.sequence = tabs[t].sequence
      /\ r.read = Ui!NoData /\ r.answer = "none"
  BY TabRequestType
<1>2. /\ tabs[t] \in TabSet /\ TabInv(tabs[t], Mine(t), version) /\ version' = version
      /\ version \in Nat /\ Mine(t) \in SUBSET RequestSet /\ cookie' \in Nat /\ issued' \in Nat
  BY MineIs DEF ConsoleInv, TabTypeInv
<1>3. requests' = requests \union {r}
  OBVIOUS
<1> HIDE DEF r
<1>4. TabInv(next, Mine(t) \union {r}, version)
  BY <1>1, <1>2, AskedPart
<1>5. /\ Mine(t) \union {r} \in SUBSET RequestSet /\ \A q \in Mine(t) \union {r} : q.tab = t
      /\ \A q : q \in requests' <=> (q \in requests /\ q.tab # t) \/ q \in Mine(t) \union {r}
  BY <1>1, <1>2, <1>3 DEF Mine
<1> QED BY <1>2, <1>4, <1>5, TabHolds

LEMMA PollHolds == ASSUME ConsoleInv, NEW t \in Tabs, Ui!Poll(t) PROVE ConsoleInv'
<1>1. /\ tabs[t].mode \in {"read-only", "writable"} /\ tabs[t] \in TabSet
      /\ requests' = requests \union {Ui!Request(t, "poll", "poll")}
      /\ tabs' = [tabs EXCEPT ![t] = tabs[t]] /\ UNCHANGED <<cookie, version, issued>>
  BY MineIs DEF Ui!Poll, Ui!Ready, ConsoleInv, TabTypeInv
<1>2. "poll" \in Kinds /\ "poll" \in Bys
  BY DEF Kinds, Bys
<1> QED BY <1>1, <1>2, SentHolds

LEMMA SubmitHolds ==
  ASSUME ConsoleInv, NEW t \in Tabs, NEW kind \in {"resume", "change", "shutdown"}, Ui!Submit(t, kind),
         \/ kind \in {"change", "shutdown"} /\ tabs[t].mode = "writable" /\ Ui!MutationAllowed(tabs[t])
         \/ kind = "resume" /\ tabs[t].mode = "read-only"
  PROVE  ConsoleInv'
<1> DEFINE next == [tabs[t] EXCEPT !.pending = TRUE]
<1>1. /\ tabs[t] \in TabSet /\ ~tabs[t].pending
      /\ requests' = requests \union {Ui!Request(t, kind, kind)}
      /\ tabs' = [tabs EXCEPT ![t] = next] /\ UNCHANGED <<cookie, version, issued>>
  BY MineIs DEF Ui!Submit, ConsoleInv, TabTypeInv
<1>2. kind \in Kinds /\ kind \in Bys
  BY DEF Kinds, Bys
<1>3. /\ next \in TabSet /\ next.mode = tabs[t].mode /\ next.terminal = tabs[t].terminal
      /\ next.csrf = tabs[t].csrf /\ next.sequence = tabs[t].sequence /\ next.wrote = tabs[t].wrote
      /\ next.workspace = tabs[t].workspace /\ next.error = tabs[t].error /\ next.pending
  BY <1>1 DEF TabSet
<1> HIDE DEF next
<1> QED BY <1>1, <1>2, <1>3, SentHolds

LEMMA ReloadHolds == ASSUME ConsoleInv, NEW t \in Tabs, Ui!Reload(t) PROVE ConsoleInv'
<1>1. Ui!Fresh \in TabSet /\ Ui!Fresh.wrote = Ui!None
  BY DEF Ui!Fresh, Ui!NoData, TabSet, DataSet, Modes, Ui!None
<1>2. /\ tabs' = [tabs EXCEPT ![t] = Ui!Fresh] /\ requests' = {r \in requests : r.tab # t}
      /\ UNCHANGED <<cookie, version, issued>> /\ version \in Nat /\ cookie' \in Nat /\ issued' \in Nat
  BY DEF Ui!Reload, ConsoleInv, TabTypeInv
<1>3. TabInv(Ui!Fresh, {}, version)
  BY <1>1, <1>2, EmptyPart
<1> DEFINE mine == {}
<1>4. /\ \A q : q \in requests' <=> (q \in requests /\ q.tab # t) \/ q \in mine
      /\ \A q \in mine : q.tab = t
      /\ mine \in SUBSET RequestSet /\ TabInv(Ui!Fresh, mine, version)
  BY <1>2, <1>3
<1> HIDE DEF mine
<1> QED BY <1>1, <1>2, <1>3, <1>4, TabHolds

------------------------
(* Answers. *)

\* The tab of an answer: as it is, or ended by a refusal.
Answered(r) == IF r.answer = "refused" THEN Ui!Terminate(tabs[r.tab]) ELSE tabs[r.tab]

LEMMA TerminateType ==
  ASSUME NEW tab \in TabSet
  PROVE  /\ Ui!Terminate(tab) \in TabSet /\ Ui!Terminate(tab).wrote = tab.wrote
         /\ Ui!Terminate(tab).sequence = tab.sequence /\ Ui!Terminate(tab).terminal
         /\ Ui!Terminate(tab) = tab \/ Ui!Terminate(tab).mode = "terminal"
BY DEF Ui!Terminate, TabSet, Modes, Ui!NoData, DataSet, Ui!None

LEMMA AnsweredIs ==
  ASSUME ConsoleInv, NEW r \in requests
  PROVE  /\ Answered(r) \in TabSet /\ Answered(r).wrote = tabs[r.tab].wrote
         /\ r.answer = "ok" => Answered(r) = tabs[r.tab]
         /\ tabs[r.tab].mode # "initializing" =>
              TabInv(Answered(r), Mine(r.tab), version) /\ Answered(r).mode # "initializing"
<1>1. /\ r.tab \in Tabs /\ tabs[r.tab] \in TabSet /\ Mine(r.tab) \in SUBSET RequestSet /\ version \in Nat
      /\ TabInv(tabs[r.tab], Mine(r.tab), version)
  BY RequestIs, MineIs
<1> DEFINE tab == tabs[r.tab]
           mine == Mine(r.tab)
<1>2. /\ Ui!Terminate(tab) \in TabSet /\ Ui!Terminate(tab).wrote = tab.wrote /\ Ui!Terminate(tab).sequence = tab.sequence
      /\ Ui!Terminate(tab) = tab \/ Ui!Terminate(tab).mode = "terminal"
  BY <1>1, TerminateType
<1>3. tab.mode # "initializing" /\ Ui!Terminate(tab).mode = "terminal" => TabInv(Ui!Terminate(tab), mine, version)
  <2> SUFFICES ASSUME tab.mode # "initializing", Ui!Terminate(tab).mode = "terminal"
               PROVE  TabInv(Ui!Terminate(tab), mine, version)
    OBVIOUS
  <2> DEFINE next == Ui!Terminate(tab)
  <2>1. next \in TabSet /\ Over(next) /\ next.mode = "terminal" /\ next.wrote = tab.wrote /\ next.sequence >= tab.sequence
        /\ next.wrote <= version
    BY <1>1, <1>2 DEF Over, TabSet, TabInv, TabOk
  <2>2. tab \in TabSet /\ mine \in SUBSET RequestSet /\ version \in Nat /\ TabInv(tab, mine, version)
        /\ tab.mode # "initializing" /\ mine \in SUBSET mine
    BY <1>1
  <2> HIDE DEF next, mine, tab
  <2>3. TabInv(next, mine, version)
    BY <2>1, <2>2, OverPart
  <2> QED BY <2>3 DEF next
<1> QED BY <1>1, <1>2, <1>3 DEF Answered

LEMMA MineButOne ==
  ASSUME ConsoleInv, NEW r \in requests
  PROVE  {q \in requests \ {r} : q.tab = r.tab} = Mine(r.tab) \ {r}
BY DEF Mine

\* Before the first load of a tab has ended, it has written nothing and has no other request.
LEMMA InitialIs ==
  ASSUME ConsoleInv, NEW r \in requests, Initial(r)
  PROVE  /\ tabs[r.tab].mode = "initializing" /\ tabs[r.tab].wrote = Ui!None
         /\ Mine(r.tab) \ {r} = {}
<1>1. /\ r.tab \in Tabs /\ r \in Mine(r.tab) /\ KindOk(r, tabs[r.tab])
      /\ TabInv(tabs[r.tab], Mine(r.tab), version)
  BY RequestIs, MineIs DEF RequestOk
<1> QED BY <1>1 DEF KindOk, TabInv, TabOk, PairOk

LEMMA ExchangedHolds ==
  ASSUME ConsoleInv, NEW r \in requests, r.kind = "exchange", Ui!Exchanged(r, Answered(r)),
         cookie' \in Nat, UNCHANGED <<version, issued>>
  PROVE  ConsoleInv'
<1> DEFINE t == r.tab
           others == requests \ {r}
<1>1. /\ t \in Tabs /\ version \in Nat /\ r \in RequestSet /\ tabs[t] \in TabSet
      /\ tabs[t].mode = "initializing" /\ tabs[t].wrote = Ui!None
      /\ {q \in others : q.tab = t} = {}
      /\ others \in SUBSET requests /\ \A q \in requests \ others : q.tab = t
  BY RequestIs, MineIs, InitialIs, MineButOne DEF Initial
<1>2. CASE r.answer = "ok"
  <2> DEFINE tab == [tabs[t] EXCEPT !.csrf = r.sets]
             failed == [tab EXCEPT !.error = TRUE]
  <2>1. Ui!BeginLoad(t, tab, "writable", others)
    BY <1>2, AnsweredIs DEF Ui!Exchanged
  <2>2. tab \in TabSet /\ tab.mode = "initializing" /\ tab.wrote = Ui!None
    BY <1>1 DEF TabSet, RequestSet
  <2> HIDE DEF tab
  <2>3. Ui!Loaded(failed, "writable") \in TabSet /\ Ui!Loaded(failed, "writable").wrote = Ui!None
    BY <2>2 DEF Ui!Loaded, TabSet, Modes
  <2> HIDE DEF failed
  <2>4. TabInv(Ui!Loaded(failed, "writable"), {q \in others : q.tab = t}, version)
    BY <1>1, <2>3, EmptyPart
  <2>5. ASSUME NEW load, NEW next, FreshLoad(load, t, "writable"), Onward(next, tab)
        PROVE  TabInv(next, {q \in others : q.tab = t /\ q.kind # "load"} \union {load}, version)
    <3>1. {q \in others : q.tab = t /\ q.kind # "load"} \union {load} = {load}
      BY <1>1
    <3>2. next \in TabSet /\ TabOk(next, version) /\ KindOk(load, next)
      BY <1>1, <2>2, <2>5 DEF Onward, FreshLoad, TabOk, KindOk, Initial, Ui!None
    <3>3. TabInv(next, {load}, version)
      BY <1>1, <2>5, <3>2, AlonePart DEF FreshLoad
    <3> QED BY <3>1, <3>3
  <2>6. "writable" \in Bys
    BY DEF Bys
  <2>7. failed = [tab EXCEPT !.error = TRUE]
    BY DEF failed
  <2> HIDE DEF others, t
  <2> QED BY <1>1, <2>1, <2>2, <2>3, <2>4, <2>5, <2>6, <2>7, BeginLoadHolds
<1>3. CASE r.answer # "ok"
  <2> DEFINE next == Ui!Terminate(Answered(r))
  <2>1. Ui!Keep(t, next, others)
    BY <1>3 DEF Ui!Exchanged
  <2>2. next \in TabSet /\ next.wrote = Ui!None
    BY <1>1, AnsweredIs, TerminateType
  <2> HIDE DEF next
  <2>3. TabInv(next, {q \in others : q.tab = t}, version)
    BY <1>1, <2>2, EmptyPart
  <2> HIDE DEF others, t
  <2> QED BY <1>1, <2>1, <2>2, <2>3, KeepHolds
<1> QED BY <1>2, <1>3

\* What stays of a tab's requests: all but the polls of another mode.
LEMMA OthersAre ==
  ASSUME ConsoleInv, NEW r \in requests, NEW tab
  PROVE  /\ Ui!Others(r, tab) \in SUBSET requests
         /\ \A q \in requests \ Ui!Others(r, tab) : q.tab = r.tab
         /\ {q \in Ui!Others(r, tab) : q.tab = r.tab} \in SUBSET (Mine(r.tab) \ {r})
         /\ \A q \in (Mine(r.tab) \ {r}) \ {q \in Ui!Others(r, tab) : q.tab = r.tab} : q.kind = "poll"
         /\ tab.mode # tabs[r.tab].mode => \A q \in Ui!Others(r, tab) : q.tab = r.tab => q.kind # "poll"
BY DEF Ui!Others, Mine

\* Any answer but the first of a tab.
LEMMA LaterIs ==
  ASSUME ConsoleInv, NEW r \in requests, ~Initial(r)
  PROVE  /\ r.tab \in Tabs /\ r \in RequestSet /\ r \in Mine(r.tab) /\ version \in Nat
         /\ Answered(r) \in TabSet /\ Mine(r.tab) \in SUBSET RequestSet
         /\ TabInv(Answered(r), Mine(r.tab), version) /\ Answered(r).mode # "initializing"
         /\ RequestOk(r, Answered(r), version)
         /\ \A q \in Mine(r.tab) : ~Initial(q)
<1>1. /\ r.tab \in Tabs /\ r \in RequestSet /\ r \in Mine(r.tab) /\ KindOk(r, tabs[r.tab])
      /\ Mine(r.tab) \in SUBSET RequestSet /\ version \in Nat
  BY RequestIs, MineIs DEF RequestOk
<1>2. tabs[r.tab].mode # "initializing"
  BY <1>1 DEF KindOk
<1>3. Answered(r) \in TabSet /\ TabInv(Answered(r), Mine(r.tab), version) /\ Answered(r).mode # "initializing"
  BY <1>2, AnsweredIs
<1> QED BY <1>1, <1>3 DEF TabInv, RequestOk, KindOk

\* The tab ends to wait for an answer that was no load.
LEMMA WaitedHolds ==
  ASSUME ConsoleInv, NEW r \in requests, r.kind \in {"resume", "shutdown"},
         Ui!Keep(r.tab, [Answered(r) EXCEPT !.pending = FALSE], Ui!Others(r, Answered(r))),
         cookie' \in Nat, UNCHANGED <<version, issued>>
  PROVE  ConsoleInv'
<1> DEFINE t == r.tab
           tab == Answered(r)
           next == [tab EXCEPT !.pending = FALSE]
           others == Ui!Others(r, tab)
           kept == {q \in others : q.tab = t}
           mine == Mine(t)
<1>1. /\ t \in Tabs /\ r \in mine /\ tab \in TabSet /\ mine \in SUBSET RequestSet /\ version \in Nat
      /\ TabInv(tab, mine, version)
  BY LaterIs DEF Initial
<1>2. /\ others \in SUBSET requests /\ \A q \in requests \ others : q.tab = t
      /\ kept \in SUBSET mine /\ r \notin kept /\ \A o \in mine \ kept : o.kind = "poll" \/ o = r
  BY OthersAre
<1>3. Ui!Keep(t, next, others)
  OBVIOUS
<1>4. /\ next \in TabSet /\ next.mode = tab.mode /\ next.terminal = tab.terminal /\ next.csrf = tab.csrf
      /\ next.sequence = tab.sequence /\ next.wrote = tab.wrote
      /\ next.workspace = tab.workspace /\ next.error = tab.error
  BY <1>1 DEF TabSet
<1>5. \A o \in kept : o.kind # "resume"
  BY <1>1, <1>2 DEF TabInv, PairOk
<1>6. \A o \in mine \ kept : o.kind # "load"
  BY <1>2
<1> HIDE DEF next, tab, mine, kept
<1>7. TabInv(next, kept, version)
  BY <1>1, <1>2, <1>4, <1>5, <1>6, KeptPart
<1>8. TabInv(next, {q \in others : q.tab = t}, version)
  BY <1>7 DEF kept
<1> HIDE DEF others, t
<1> QED BY <1>1, <1>2, <1>3, <1>4, <1>8, KeepHolds

LEMMA ResumedHolds ==
  ASSUME ConsoleInv, NEW r \in requests, r.kind = "resume", Ui!Resumed(r, Answered(r)),
         cookie' \in Nat, UNCHANGED <<version, issued>>
  PROVE  ConsoleInv'
<1>1. CASE r.answer # "ok"
  BY <1>1, WaitedHolds DEF Ui!Resumed
<1>2. CASE r.answer = "ok"
  <2> DEFINE t == r.tab
             tab == tabs[t]
             writable == [tab EXCEPT !.csrf = r.sets, !.mode = "writable"]
             others == Ui!Others(r, writable)
             mine == Mine(t)
             failed == [writable EXCEPT !.error = TRUE]
             kept == {q \in others : q.tab = t}
  <2>1. Ui!BeginLoad(t, writable, "resume", others)
    BY <1>2, AnsweredIs DEF Ui!Resumed
  <2>2. /\ t \in Tabs /\ r \in mine /\ r \in RequestSet /\ tab \in TabSet /\ mine \in SUBSET RequestSet
        /\ version \in Nat /\ TabInv(tab, mine, version) /\ \A q \in mine : ~Initial(q)
    BY <1>2, LaterIs, AnsweredIs DEF Initial
  <2>3. tab.mode \in {"read-only", "terminal"} /\ tab.wrote = Ui!None
        /\ \A q \in mine : RequestOk(q, tab, version) /\ PairOk(r, q)
    BY <2>2 DEF TabInv, RequestOk, KindOk
  <2>4. /\ writable \in TabSet /\ writable.mode = "writable" /\ writable.wrote = Ui!None
    BY <2>2, <2>3 DEF TabSet, Modes, RequestSet
  <2>5. /\ others \in SUBSET requests /\ \A q \in requests \ others : q.tab = t
        /\ kept \in SUBSET mine /\ r \notin kept /\ \A q \in kept : q.kind # "poll"
    <3> HIDE DEF writable
    <3>1. writable.mode # tabs[t].mode
      BY <2>3, <2>4
    <3>2. /\ others \in SUBSET requests /\ \A q \in requests \ others : q.tab = t
          /\ kept \in SUBSET (mine \ {r})
      BY OthersAre
    <3>3. \A q \in others : q.tab = r.tab => q.kind # "poll"
      BY <3>1, OthersAre
    <3> QED BY <3>2, <3>3
  <2>6. \A q \in kept : q.kind = "load" /\ RequestOk(q, tab, version) /\ ~Initial(q)
    BY <2>2, <2>3, <2>5 DEF PairOk, RequestSet, Kinds, Initial
  <2> HIDE DEF writable
  <2>7. /\ Ui!Loaded(failed, "resume") \in TabSet /\ Ui!Loaded(failed, "resume").wrote = Ui!None
        /\ Ui!Loaded(failed, "resume").mode = "writable" /\ Ui!Loaded(failed, "resume").error
    BY <2>4 DEF Ui!Loaded, TabSet
  <2>8. TabInv(Ui!Loaded(failed, "resume"), kept, version)
    <3> DEFINE next == Ui!Loaded(failed, "resume")
    <3>1. next.wrote = Ui!None /\ next.mode = "writable" /\ next.error
      BY <2>7
    <3> HIDE DEF next
    <3>2. TabOk(next, version) /\ Shown(next, kept)
      BY <2>2, <3>1 DEF TabOk, Shown, Ui!None
    <3>3. ASSUME NEW q \in kept PROVE RequestOk(q, next, version)
      <4>1. q.read \in DataSet
        BY <2>2, <2>5 DEF RequestSet
      <4>2. Recent(q.read, next)
        BY <3>1, <4>1 DEF Recent, DataSet, Ui!None
      <4> QED BY <2>6, <3>1, <4>2 DEF RequestOk, KindOk, ReadOk
    <3>4. \A q, o \in kept : PairOk(q, o)
      BY <2>6 DEF PairOk
    <3>5. TabInv(next, kept, version)
      BY <3>2, <3>3, <3>4 DEF TabInv
    <3> QED BY <3>5 DEF next
  <2>9. ASSUME NEW load, NEW next, FreshLoad(load, t, "resume"), Onward(next, writable)
        PROVE  TabInv(next, {q \in others : q.tab = t /\ q.kind # "load"} \union {load}, version)
    <3>1. {q \in others : q.tab = t /\ q.kind # "load"} \union {load} = {load}
      BY <2>6
    <3>2. next \in TabSet /\ TabOk(next, version) /\ KindOk(load, next)
      BY <2>2, <2>4, <2>9 DEF Onward, FreshLoad, TabOk, KindOk, Initial, Ui!None
    <3>3. TabInv(next, {load}, version)
      BY <2>2, <2>9, <3>2, AlonePart DEF FreshLoad
    <3> QED BY <3>1, <3>3
  <2>10. "resume" \in Bys
    BY DEF Bys
  <2>11. failed = [writable EXCEPT !.error = TRUE] /\ TabInv(Ui!Loaded(failed, "resume"), {q \in others : q.tab = t}, version)
    BY <2>8
  <2> HIDE DEF failed, others, kept, t, mine, tab
  <2> QED BY <2>1, <2>2, <2>4, <2>5, <2>7, <2>9, <2>10, <2>11, BeginLoadHolds
<1> QED BY <1>1, <1>2

LEMMA LoadEndsHolds ==
  ASSUME ConsoleInv, NEW r \in requests, r.kind = "load", Ui!LoadEnds(r, Answered(r)),
         cookie' \in Nat, UNCHANGED <<version, issued>>
  PROVE  ConsoleInv'
<1> DEFINE t == r.tab
           tab == Answered(r)
           read == IF r.answer # "ok" THEN [tab EXCEPT !.error = TRUE]
                   ELSE [tab EXCEPT !.workspace = r.read, !.error = FALSE]
           next == Ui!Loaded(read, r.by)
           others == Ui!Others(r, next)
           kept == {q \in others : q.tab = t}
           mine == Mine(t)
<1>1. Ui!Keep(t, next, others)
  BY DEF Ui!LoadEnds
<1>2. /\ t \in Tabs /\ r \in RequestSet /\ version \in Nat /\ tab \in TabSet
      /\ mine \in SUBSET RequestSet /\ r \in mine
  BY RequestIs, AnsweredIs, MineIs
<1>3. /\ others \in SUBSET requests /\ \A q \in requests \ others : q.tab = t
      /\ kept \in SUBSET (mine \ {r})
  BY OthersAre
<1>4. /\ read \in TabSet /\ read.mode = tab.mode /\ read.terminal = tab.terminal /\ read.csrf = tab.csrf
      /\ read.sequence = tab.sequence /\ read.wrote = tab.wrote /\ read.pending = tab.pending
      /\ r.answer # "ok" => read.error
      /\ r.answer = "ok" => read.workspace = r.read
  <2>1. r.read \in DataSet
    BY <1>2 DEF RequestSet
  <2> HIDE DEF tab
  <2> QED BY <1>2, <2>1 DEF TabSet
<1> HIDE DEF read
<1>5. CASE Initial(r)
  <2>1. tab.wrote = Ui!None /\ kept = {}
    BY <1>3, <1>5, InitialIs, AnsweredIs
  <2>2. next \in TabSet /\ next.wrote = Ui!None
    BY <1>4, <2>1 DEF Ui!Loaded, TabSet, Modes
  <2> HIDE DEF next
  <2>3. TabInv(next, kept, version)
    BY <1>2, <2>1, <2>2, EmptyPart
  <2>4. TabInv(next, {q \in others : q.tab = t}, version)
    BY <2>3
  <2> HIDE DEF t, tab, others, kept, mine
  <2> QED BY <1>1, <1>2, <1>3, <2>2, <2>4, KeepHolds
<1>6. CASE ~Initial(r)
  <2>1. TabInv(tab, mine, version) /\ RequestOk(r, tab, version)
    BY <1>6, LaterIs
  <2>2. /\ next \in TabSet /\ next.mode = tab.mode /\ next.terminal = tab.terminal /\ next.csrf = tab.csrf
        /\ next.sequence = tab.sequence /\ next.wrote = tab.wrote
        /\ next.workspace = read.workspace /\ next.error = read.error
        /\ next.pending = tab.pending \/ r.by \in {"resume", "change"}
    BY <1>4, <1>6 DEF Ui!Loaded, TabSet, Initial
  <2>3. next.pending = tab.pending \/ tab.mode # "read-only"
    BY <2>1, <2>2 DEF RequestOk, KindOk
  <2>4. r.answer = "ok" /\ ~Over(tab) => r.read.status >= tab.wrote /\ r.read.rest >= tab.wrote
    BY <2>1 DEF RequestOk, ReadOk, Recent
  <2>5. Shown(next, kept)
    BY <1>4, <2>2, <2>4 DEF Shown, Over
  <2>6. kept \in SUBSET mine
    BY <1>3
  <2> HIDE DEF next, tab, mine, kept
  <2>7. TabInv(next, kept, version)
    BY <1>2, <2>1, <2>2, <2>3, <2>5, <2>6, ShownPart
  <2>8. TabInv(next, {q \in others : q.tab = t}, version)
    BY <2>7 DEF kept
  <2> HIDE DEF t, others
  <2> QED BY <1>1, <1>2, <1>3, <2>2, <2>8, KeepHolds
<1> QED BY <1>5, <1>6

LEMMA PollEndsHolds ==
  ASSUME ConsoleInv, NEW r \in requests, r.kind = "poll", Ui!PollEnds(r, Answered(r)),
         cookie' \in Nat, UNCHANGED <<version, issued>>
  PROVE  ConsoleInv'
<1> DEFINE t == r.tab
           tab == Answered(r)
           shown == r.answer = "ok" /\ r.sequence = tab.sequence /\ tab.workspace # Ui!NoData
           next == IF shown THEN [tab EXCEPT !.workspace.status = r.read.status] ELSE tab
           others == Ui!Others(r, tab)
           kept == {q \in others : q.tab = t}
           mine == Mine(t)
<1>1. Ui!Keep(t, next, others)
  BY DEF Ui!PollEnds
<1>2. /\ t \in Tabs /\ r \in RequestSet /\ version \in Nat /\ tab \in TabSet
      /\ mine \in SUBSET RequestSet /\ r \in mine
      /\ TabInv(tab, mine, version) /\ RequestOk(r, tab, version)
  BY LaterIs DEF Initial
<1>3. /\ others \in SUBSET requests /\ \A q \in requests \ others : q.tab = t
      /\ kept \in SUBSET mine /\ \A o \in mine \ kept : o.kind = "poll"
  BY OthersAre
<1>4. /\ next \in TabSet /\ next.mode = tab.mode /\ next.terminal = tab.terminal /\ next.csrf = tab.csrf
      /\ next.sequence = tab.sequence /\ next.wrote = tab.wrote /\ next.pending = tab.pending
      /\ next.error = tab.error
      /\ next.workspace = tab.workspace
           \/ (shown /\ next.workspace.status = r.read.status /\ next.workspace.rest = tab.workspace.rest)
  <2>1. r.read.status \in Nat /\ tab.workspace \in DataSet
    BY <1>2 DEF RequestSet, TabSet, DataSet
  <2> HIDE DEF tab
  <2> QED BY <1>2, <2>1 DEF TabSet, DataSet
<1>5. shown /\ ~Over(tab) => r.read.status >= tab.wrote
  BY <1>2 DEF RequestOk, ReadOk, Recent
<1>6. Shown(tab, mine) /\ (shown => tab.workspace # Ui!NoData)
  BY <1>2 DEF TabInv
<1> HIDE DEF next, shown
<1>7. Shown(next, kept)
  BY <1>3, <1>4, <1>5, <1>6 DEF Shown, Over
<1> HIDE DEF tab, mine, kept
<1>8. TabInv(next, kept, version)
  BY <1>2, <1>3, <1>4, <1>7, ShownPart
<1>9. TabInv(next, {q \in others : q.tab = t}, version)
  BY <1>8 DEF kept
<1> HIDE DEF t, others
<1> QED BY <1>1, <1>2, <1>3, <1>4, <1>9, KeepHolds

LEMMA MutationEndsHolds ==
  ASSUME ConsoleInv, NEW r \in requests, r.kind = "change", Ui!MutationEnds(r, Answered(r)),
         cookie' \in Nat, UNCHANGED <<version, issued>>
  PROVE  ConsoleInv'
<1> DEFINE t == r.tab
           tab == Answered(r)
           next == IF r.answer = "ok" THEN [tab EXCEPT !.wrote = r.read.rest] ELSE tab
           mine == Mine(t)
<1>1. /\ t \in Tabs /\ r \in RequestSet /\ version \in Nat /\ tab \in TabSet
      /\ mine \in SUBSET RequestSet /\ r \in mine
      /\ TabInv(tab, mine, version) /\ RequestOk(r, tab, version) /\ \A q \in mine : ~Initial(q)
  BY LaterIs DEF Initial
<1>2. \A o \in mine : o.kind # "resume"
  BY <1>1 DEF TabInv, PairOk
<1>3. (tab.mode = "writable" /\ Ui!MutationAllowed(tab)) \/ Over(tab)
  BY <1>1 DEF RequestOk, KindOk
<1>4. /\ next \in TabSet /\ next.mode = tab.mode /\ next.terminal = tab.terminal /\ next.csrf = tab.csrf
      /\ next.sequence = tab.sequence /\ next.wrote <= version
  <2>1. r.read.rest \in Nat /\ (r.answer = "ok" => r.read.rest <= version)
    BY <1>1 DEF RequestSet, DataSet, RequestOk, ReadOk
  <2>2. tab.wrote <= version
    BY <1>1 DEF TabInv, TabOk
  <2> HIDE DEF tab
  <2> QED BY <1>1, <2>1, <2>2 DEF TabSet
<1>5. Ui!MutationEnds(r, tab)
  OBVIOUS
<1>6. CASE Ui!MutationAllowed(tab)
  <2> DEFINE others == requests \ {r}
             kept == {q \in others : q.tab = t /\ q.kind # "load"}
  <2>1. Ui!BeginLoad(t, next, "change", others)
    BY <1>5, <1>6 DEF Ui!MutationEnds
  <2>2. ~next.terminal /\ "change" \in Bys
    BY <1>4, <1>6 DEF Ui!MutationAllowed, Bys, Kinds
  <2>3. /\ others \in SUBSET requests /\ \A q \in requests \ others : q.tab = t
        /\ kept \in SUBSET mine /\ \A q \in kept : q.kind # "load"
    BY DEF Mine
  <2> HIDE DEF next, tab, mine, kept
  <2>4. ASSUME NEW load, NEW onward, FreshLoad(load, t, "change"), Onward(onward, next)
        PROVE  TabInv(onward, kept \union {load}, version)
    <3>1. /\ onward \in TabSet /\ load \in RequestSet
          /\ load.kind = "load" /\ load.read = Ui!NoData /\ load.answer = "none" /\ load.by = "change"
          /\ onward.mode = tab.mode /\ onward.terminal = tab.terminal /\ onward.csrf = tab.csrf
          /\ onward.sequence = tab.sequence + 1 /\ onward.wrote = next.wrote
      BY <1>4, <2>4 DEF FreshLoad, Onward
    <3>2. tab.mode \in {"writable", "terminal", "stopped"} /\ tab.mode # "initializing"
      BY <1>3 DEF Over
    <3>3. TabOk(onward, version) /\ KindOk(load, onward)
      BY <1>4, <3>1, <3>2 DEF TabOk, KindOk, Initial
    <3>4. \A o \in kept : o.kind # "resume"
      BY <1>2, <2>3
    <3> QED BY <1>1, <2>3, <3>1, <3>2, <3>3, <3>4, BeginPart
  <2>5. \A load, onward : FreshLoad(load, t, "change") /\ Onward(onward, next)
          => TabInv(onward, {q \in others : q.tab = t /\ q.kind # "load"} \union {load}, version)
    BY <2>4 DEF kept
  <2> HIDE DEF others, t
  <2> QED BY <1>1, <1>4, <2>1, <2>2, <2>3, <2>5, BeginLoadHolds
<1>7. CASE ~Ui!MutationAllowed(tab)
  <2> DEFINE idle == [next EXCEPT !.pending = FALSE]
             others == Ui!Others(r, tab)
             kept == {q \in others : q.tab = t}
  <2>1. Ui!Keep(t, idle, others)
    BY <1>5, <1>7 DEF Ui!MutationEnds
  <2>2. /\ others \in SUBSET requests /\ \A q \in requests \ others : q.tab = t
        /\ kept \in SUBSET mine
    BY OthersAre
  <2> HIDE DEF next
  <2>3. /\ idle \in TabSet /\ idle.mode = next.mode /\ idle.wrote = next.wrote /\ idle.sequence = next.sequence
    BY <1>4 DEF TabSet
  <2>4. Over(idle) /\ tab.mode # "initializing" /\ idle.wrote <= version /\ idle.sequence >= tab.sequence
    BY <1>1, <1>3, <1>4, <1>7, <2>3 DEF Over, TabSet
  <2>5. \A o \in kept : o.kind # "resume"
    BY <1>2, <2>2
  <2> HIDE DEF idle, tab, mine, kept
  <2>6. TabInv(idle, kept, version)
    BY <1>1, <2>2, <2>3, <2>4, <2>5, OverPart
  <2>7. TabInv(idle, {q \in others : q.tab = t}, version)
    BY <2>6 DEF kept
  <2> HIDE DEF others, t
  <2> QED BY <1>1, <2>1, <2>2, <2>3, <2>7, KeepHolds
<1> QED BY <1>6, <1>7

LEMMA ShutdownEndsHolds ==
  ASSUME ConsoleInv, NEW r \in requests, r.kind = "shutdown", Ui!ShutdownEnds(r, Answered(r)),
         cookie' \in Nat, UNCHANGED <<version, issued>>
  PROVE  ConsoleInv'
<1>1. CASE r.answer # "ok"
  BY <1>1, WaitedHolds DEF Ui!ShutdownEnds
<1>2. CASE r.answer = "ok"
  <2> DEFINE t == r.tab
             tab == Answered(r)
             stopped == [tab EXCEPT !.mode = "stopped", !.workspace = Ui!NoData, !.sequence = @ + 1, !.pending = FALSE]
             others == Ui!Others(r, stopped) \ Ui!Loads(t)
             kept == {q \in others : q.tab = t}
             mine == Mine(t)
  <2>1. Ui!Keep(t, stopped, others)
    BY <1>2 DEF Ui!ShutdownEnds
  <2>2. /\ t \in Tabs /\ r \in RequestSet /\ version \in Nat /\ tab \in TabSet
        /\ mine \in SUBSET RequestSet /\ r \in mine
        /\ TabInv(tab, mine, version) /\ tab.mode # "initializing"
    BY LaterIs DEF Initial
  <2>3. \A o \in mine : o.kind # "resume"
    BY <2>2 DEF TabInv, PairOk
  <2>4. /\ others \in SUBSET requests /\ \A q \in requests \ others : q.tab = t
        /\ kept \in SUBSET mine
    BY OthersAre DEF Ui!Loads
  <2>5. /\ stopped \in TabSet /\ stopped.mode = "stopped" /\ stopped.wrote = tab.wrote
        /\ stopped.sequence = tab.sequence + 1
    <3>1. Ui!NoData \in DataSet
      BY DEF Ui!NoData, DataSet, Ui!None
    <3> HIDE DEF tab
    <3>2. tab.sequence + 1 \in Nat
      BY <2>2 DEF TabSet
    <3>3. /\ stopped.mode = "stopped" /\ stopped.wrote = tab.wrote /\ stopped.sequence = tab.sequence + 1
          /\ stopped.workspace = Ui!NoData /\ stopped.pending = FALSE
      BY <2>2 DEF TabSet
    <3>4. stopped \in TabSet
      BY <2>2, <3>1, <3>2 DEF TabSet, Modes
    <3> QED BY <3>3, <3>4
  <2>6. Over(stopped) /\ stopped.wrote <= version /\ stopped.sequence >= tab.sequence
    BY <2>2, <2>5 DEF Over, TabSet, TabInv, TabOk
  <2>7. \A o \in kept : o.kind # "resume"
    BY <2>3, <2>4
  <2> HIDE DEF stopped, tab, mine, kept
  <2>8. TabInv(stopped, kept, version)
    BY <2>2, <2>4, <2>5, <2>6, <2>7, OverPart
  <2>9. TabInv(stopped, {q \in others : q.tab = t}, version)
    BY <2>8 DEF kept
  <2> HIDE DEF others, t
  <2> QED BY <2>1, <2>2, <2>4, <2>5, <2>9, KeepHolds
<1> QED BY <1>1, <1>2

LEMMA DeliverHolds == ASSUME ConsoleInv, NEW r \in requests, Ui!Deliver(r) PROVE ConsoleInv'
<1>1. /\ UNCHANGED <<version, issued>>
      /\ cookie' = (IF r.sets # Ui!None THEN r.sets ELSE IF r.clears THEN Ui!None ELSE cookie)
  BY DEF Ui!Deliver
<1>2. cookie' \in Nat
  <2>1. r \in RequestSet /\ cookie \in Nat
    BY RequestIs DEF ConsoleInv, TabTypeInv
  <2> QED BY <1>1, <2>1 DEF RequestSet, Ui!None
<1>3. \/ r.kind = "exchange" /\ Ui!Exchanged(r, Answered(r))
      \/ r.kind = "resume" /\ Ui!Resumed(r, Answered(r))
      \/ r.kind = "load" /\ Ui!LoadEnds(r, Answered(r))
      \/ r.kind = "poll" /\ Ui!PollEnds(r, Answered(r))
      \/ r.kind = "change" /\ Ui!MutationEnds(r, Answered(r))
      \/ r.kind = "shutdown" /\ Ui!ShutdownEnds(r, Answered(r))
  BY DEF Ui!Deliver, Answered
<1> QED BY <1>1, <1>2, <1>3, ExchangedHolds, ResumedHolds, LoadEndsHolds, PollEndsHolds,
           MutationEndsHolds,
           ShutdownEndsHolds

------------------------
(* The theorems. *)

LEMMA ConsoleStep == ConsoleInv /\ [Ui!Next]_(Ui!consoleVars) => ConsoleInv'
<1> SUFFICES ASSUME ConsoleInv, [Ui!Next]_(Ui!consoleVars) PROVE ConsoleInv'
  OBVIOUS
<1>1. ASSUME NEW t \in Tabs, Ui!ResumeManagement(t) PROVE ConsoleInv'
  BY <1>1, SubmitHolds DEF Ui!ResumeManagement
<1>2. ASSUME NEW t \in Tabs, Ui!ExecuteMutation(t) PROVE ConsoleInv'
  BY <1>2, SubmitHolds DEF Ui!ExecuteMutation
<1>3. ASSUME NEW t \in Tabs, Ui!ShutdownSupervisor(t) PROVE ConsoleInv'
  BY <1>3, SubmitHolds DEF Ui!ShutdownSupervisor
<1>4. version \in Nat /\ version # Ui!None /\ cookie \in Nat /\ issued \in Nat
  BY DEF ConsoleInv, TabTypeInv
<1>5. ASSUME Ui!OtherChange PROVE ConsoleInv'
  <2>1. /\ UNCHANGED <<tabs, requests>> /\ version' \in Nat /\ version' # Ui!None /\ version <= version'
        /\ cookie' \in Nat /\ issued' \in Nat
    BY <1>4, <1>5 DEF Ui!OtherChange, Ui!None
  <2> QED BY <2>1, SameHolds
<1>6. ASSUME Ui!Tick \/ UNCHANGED Ui!consoleVars PROVE ConsoleInv'
  <2>1. /\ UNCHANGED <<tabs, requests>> /\ version' \in Nat /\ version' # Ui!None /\ version <= version'
        /\ cookie' \in Nat /\ issued' \in Nat
    BY <1>4, <1>6 DEF Ui!Tick, Ui!consoleVars
  <2> QED BY <2>1, SameHolds
<1> QED BY <1>1, <1>2, <1>3, <1>5, <1>6, OpenHolds, RefreshHolds, PollHolds, ReloadHolds,
           HandleHolds, DeliverHolds, FailHolds, RestartHolds DEF Ui!Next

LEMMA ConsoleIsInvariant == Ui!Spec => []ConsoleInv
BY ConsoleInit, ConsoleStep, PTL DEF Ui!Spec

LEMMA ReadsOwnChangesHolds == Ui!Spec => []Ui!ReadsOwnChanges
<1>1. ConsoleInv => Ui!ReadsOwnChanges
  <2> SUFFICES ASSUME ConsoleInv, NEW t \in Tabs, tabs[t].mode = "writable", ~tabs[t].error,
                      tabs[t].workspace # Ui!NoData, Ui!Loads(t) = {}
               PROVE  tabs[t].workspace.status >= tabs[t].wrote /\ tabs[t].workspace.rest >= tabs[t].wrote
    BY DEF Ui!ReadsOwnChanges
  <2>1. Shown(tabs[t], Mine(t))
    BY MineIs DEF TabInv
  <2>2. \A r \in Mine(t) : r.kind # "load"
    BY DEF Mine, Ui!Loads
  <2> QED BY <2>1, <2>2 DEF Shown, Over
<1> QED BY <1>1, ConsoleIsInvariant, PTL

------------------------
(* The theorems *)

\* supervisor.json names the Supervisor that serves, or a removal that renamed the file has it
\* in hand: whichever Supervisors and commands start, close, crash and clear up after each
\* other, as long as no two removals ran at once and none was cut off.
THEOREM ServingIsNamed == Spec => []RunningIsNamed
<1>1. RunningIsNamed <=> (part = "lifecycle" => Lifecycle!RunningIsNamed)
  BY DEF RunningIsNamed
<1>2. [Next]_vars => ((part = "lifecycle")' <=> (part = "lifecycle"))
  BY PartStays
<1> QED
  BY <1>1, <1>2, RunningIsNamedHolds, LifecyclePart, PTL DEF Spec

\* An update that reports success leaves a Supervisor of the new version, one that reports a
\* rollback a Supervisor of the old one, unless another Supervisor than the one it knows ran
\* while it installed a version.
THEOREM UpdatesAreTrue == Spec => []UpdateKeepsItsWord
<1>1. UpdateKeepsItsWord <=> (part = "lifecycle" => Lifecycle!UpdateKeepsItsWord)
  BY DEF UpdateKeepsItsWord
<1>2. [Next]_vars => ((part = "lifecycle")' <=> (part = "lifecycle"))
  BY PartStays
<1> QED
  BY <1>1, <1>2, UpdateKeepsItsWordHolds, LifecyclePart, PTL DEF Spec

\* When nothing is on its way, the account that the monitor shows is the one Codex has, and
\* the limits are those of that account, unless an announcement overtook a refresh: in
\* whatever order answers, announcements, timeouts and exits come.
THEOREM MonitorIsTrue == Spec => []QuietIsTrue
<1>1. QuietIsTrue <=> (part = "monitor" => Monitor!QuietIsTrue)
  BY DEF QuietIsTrue
<1>2. [Next]_vars => ((part = "monitor")' <=> (part = "monitor"))
  BY PartStays
<1> QED
  BY <1>1, <1>2, QuietIsTrueHolds, MonitorPart, PTL DEF Spec

\* An app-server that the monitor no longer has was told to end, unless its input broke.
THEOREM NoChildIsForgotten == Spec => []ForgottenIsEnded
<1>1. ForgottenIsEnded <=> (part = "monitor" => Monitor!ForgottenIsEnded)
  BY DEF ForgottenIsEnded
<1>2. [Next]_vars => ((part = "monitor")' <=> (part = "monitor"))
  BY PartStays
<1> QED
  BY <1>1, <1>2, ForgottenIsEndedHolds, MonitorPart, PTL DEF Spec

\* A writable tab at rest shows data at least as new as its own last change, whatever polls,
\* loads, refusals and faults came in between.
THEOREM TabsReadTheirChanges == Spec => []ReadsOwnChanges
<1>1. ReadsOwnChanges <=> (part = "ui" => Ui!ReadsOwnChanges)
  BY DEF ReadsOwnChanges
<1>2. [Next]_vars => ((part = "ui")' <=> (part = "ui"))
  BY PartStays
<1> QED
  BY <1>1, <1>2, ReadsOwnChangesHolds, UiPart, PTL DEF Spec
=============================================================================
