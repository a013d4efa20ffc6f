---------------------------- MODULE StorageProofs ----------------------------
(***************************************************************************)
(* Theorems about the stores, in the composition that TLC runs: whatever   *)
(* the other components are, a behaviour of MCStorage that is one of a     *)
(* component has that component's theorems.  Those of the registry are     *)
(* proved in RegistryProofs.  Four inductive invariants are stated here:   *)
(* StoreInv of the files under a lock, GrantsInv of the client keys,       *)
(* CaptureInv of the Forwarding Records, ItemInv of the login startup item.*)
(***************************************************************************)
EXTENDS MCStorage, Sequences, TLAPS

\* The part is chosen at the start.
LEMMA PartStays == ASSUME NEW name PROVE [Next]_vars => ((part = name)' <=> (part = name))
BY DEF Next, vars

LEMMA LockedPart == Spec /\ part = "locked" => Locked!Spec
<1>1. Init /\ part = "locked" => Locked!Init
  BY DEF Init
<1>2. [Next]_vars /\ part = "locked" => [Locked!Next]_(Locked!vars)
  BY DEF Next, vars, lockedVars, Locked!vars
<1>3. [Next]_vars => ((part = "locked")' <=> (part = "locked"))
  BY PartStays
<1> QED
  BY <1>1, <1>2, <1>3, PTL DEF Spec, Locked!Spec

LEMMA AccessPart == Spec /\ part = "access" => Access!Spec
<1>1. Init /\ part = "access" => Access!Init
  BY DEF Init
<1>2. [Next]_vars /\ part = "access" => [Access!Next]_(Access!keyVars)
  BY DEF Next, vars, accessVars, Access!keyVars
<1>3. [Next]_vars => ((part = "access")' <=> (part = "access"))
  BY PartStays
<1> QED
  BY <1>1, <1>2, <1>3, PTL DEF Spec, Access!Spec

LEMMA CapturePart == Spec /\ part = "capture" => Capture!Spec
<1>1. Init /\ part = "capture" => Capture!Init
  BY DEF Init
<1>2. [Next]_vars /\ part = "capture" => [Capture!Next]_(Capture!captureVars)
  BY DEF Next, vars, captureVars, Capture!captureVars
<1>3. [Next]_vars => ((part = "capture")' <=> (part = "capture"))
  BY PartStays
<1> QED
  BY <1>1, <1>2, <1>3, PTL DEF Spec, Capture!Spec

LEMMA AutoStartPart == Spec /\ part = "autostart" => AutoStart!Spec
<1>1. Init /\ part = "autostart" => AutoStart!Init
  BY DEF Init
<1>2. [Next]_vars /\ part = "autostart" => [AutoStart!Next]_(AutoStart!vars)
  BY DEF Next, vars, autostartVars, AutoStart!vars
<1>3. [Next]_vars => ((part = "autostart")' <=> (part = "autostart"))
  BY PartStays
<1> QED
  BY <1>1, <1>2, <1>3, PTL DEF Spec, AutoStart!Spec

------------------------
(* The files under a lock, for any processes, changes, entries, faults and crashes, and for
   all four stores *)

\* Between the making of the lock and its removal.
Critical == {"token", "load", "persist", "releaseGate", "gateBlock", "close", "remove", "unlink"}

\* Between the making of the gate and its removal.
Gated == {"open", "token", "load", "persist", "releaseGate", "gateBlock", "busyGate", "busyBlock"}

Claiming == {"compare", "restore"}

LockFile == [by : Processes \cup {"nobody", "marker"}, written : BOOLEAN]

\* What a process or its store can say that a lock or the gate may be left.
Knows(me) == me.residual \/ me.degraded
AnswersForLock(me) == Knows(me) \/ me.pc \in Critical
AnswersForGate(me) == Knows(me) \/ (protocol = "credential" /\ me.pc \in Gated)

\* The state of a process that is consistent by itself.
Consistent(me) ==
  /\ DOMAIN me = DOMAIN Locked!Idle
  /\ me.claim \in LockFile
  /\ me.pc \in Claiming => me.claim # Locked!Absent
  /\ me.degraded => me.pc = "idle"
  /\ me.pc \in {"idle", "gate", "open"} => ~me.residual
  /\ me.pc \in {"gateBlock", "busyBlock", "restore"} => me.residual
  /\ me.pc = "gate" => protocol = "credential"

\* One process at a time is between the making and the removal of the lock, and what it
\* has read is still what the file is.
OneWriter ==
  /\ \A p \in Processes : proc[p].pc \in Critical => lock # Locked!Absent
  /\ \A p, q \in Processes : proc[p].pc \in Critical /\ proc[q].pc \in Critical => p = q
  /\ \A p \in Processes : proc[p].pc = "persist" => proc[p].seen = doc

\* Until a process dies, each lock and gate has somebody who answers for it.
Answered ==
  crashes = 0 =>
    /\ lock # Locked!Absent => \E p \in Processes : AnswersForLock(proc[p])
    /\ gate # "absent" => \E p \in Processes : AnswersForGate(proc[p])

StoreInv ==
  /\ lock \in LockFile /\ crashes \in Nat
  /\ \A p \in Processes : Consistent(proc[p])
  /\ DOMAIN proc = Processes
  /\ OneWriter
  /\ Answered

\* What a step of p from proc[p] to me must not do.
Allowed(p, me) ==
  /\ Consistent(me)
  /\ lock' \in LockFile
  /\ lock' = Locked!Absent => lock = Locked!Absent \/ proc[p].pc \in Critical
  /\ me.pc \in Critical => lock' # Locked!Absent /\ (lock = Locked!Absent \/ proc[p].pc \in Critical)
  /\ doc' # doc => proc[p].pc \in Critical
  /\ me.pc = "persist" => me.seen = doc'
  /\ lock' # Locked!Absent =>
       AnswersForLock(me) \/ (lock # Locked!Absent /\ ~AnswersForLock(proc[p]))
  /\ gate' # "absent" =>
       AnswersForGate(me) \/ (gate # "absent" /\ ~AnswersForGate(proc[p]))

------------------------

\* A step that is allowed leaves the invariant.
LEMMA AllowedKeeps ==
  ASSUME StoreInv, NEW p \in Processes, NEW me, Locked!Update(p, me), Allowed(p, me),
         UNCHANGED <<protocol, crashes>>
  PROVE  StoreInv'
<1>1. /\ DOMAIN proc' = Processes
      /\ proc'[p] = me
      /\ \A q \in Processes : q # p => proc'[q] = proc[q]
  BY DEF Locked!Update, StoreInv
<1> HIDE DEF Locked!Update
<1>2. \A q \in Processes : Consistent(proc[q])'
  BY <1>1 DEF StoreInv, Allowed, Consistent, LockFile, Locked!Idle, Locked!Absent
<1>3. OneWriter'
  <2>1. \A q \in Processes : proc'[q].pc \in Critical => lock' # Locked!Absent
    BY <1>1 DEF StoreInv, Allowed, OneWriter, Locked!Absent
  <2>2. \A q \in Processes : proc'[q].pc \in Critical /\ proc'[p].pc \in Critical => p = q
    BY <1>1 DEF StoreInv, Allowed, OneWriter
  <2>3. \A q, r \in Processes : proc'[q].pc \in Critical /\ proc'[r].pc \in Critical => q = r
    BY <1>1, <2>2 DEF StoreInv, OneWriter
  <2>4. \A q \in Processes : proc'[q].pc = "persist" => proc'[q].seen = doc'
    <3>1. "persist" \in Critical
      BY DEF Critical
    <3> QED BY <1>1, <3>1 DEF StoreInv, Allowed, OneWriter
  <2> QED BY <2>1, <2>3, <2>4 DEF OneWriter, Locked!Absent
<1>4. Answered'
  <2> SUFFICES ASSUME crashes = 0
               PROVE  /\ lock' # Locked!Absent => \E q \in Processes : AnswersForLock(proc'[q])
                      /\ gate' # "absent" => \E q \in Processes : AnswersForGate(proc'[q])
    BY DEF Answered, AnswersForLock, AnswersForGate, Knows, Locked!Absent
  <2>1. ASSUME lock' # Locked!Absent PROVE \E q \in Processes : AnswersForLock(proc'[q])
    <3>1. CASE AnswersForLock(me)
      BY <1>1, <3>1
    <3>2. CASE ~AnswersForLock(me)
      BY <1>1, <2>1, <3>2 DEF StoreInv, Allowed, Answered
    <3> QED BY <3>1, <3>2
  <2>2. ASSUME gate' # "absent" PROVE \E q \in Processes : AnswersForGate(proc'[q])
    <3>1. CASE AnswersForGate(me)
      BY <1>1, <3>1
    <3>2. CASE ~AnswersForGate(me)
      BY <1>1, <2>2, <3>2 DEF StoreInv, Allowed, Answered
    <3> QED BY <3>1, <3>2
  <2> QED BY <2>1, <2>2
<1> QED
  BY <1>1, <1>2, <1>3, <1>4 DEF StoreInv, Allowed, LockFile

LEMMA IdleConsistent ==
  ASSUME NEW reply
  PROVE  Consistent([Locked!Idle EXCEPT !.reply = reply])
BY DEF Consistent, Locked!Idle, LockFile, Locked!Absent, Claiming

LEMMA LeftBehindFields ==
  ASSUME NEW me, DOMAIN me = DOMAIN Locked!Idle
  PROVE  LET left == Locked!LeftBehind(me)
         IN /\ DOMAIN left = DOMAIN Locked!Idle
            /\ left.residual
            /\ left.pc = me.pc /\ left.claim = me.claim /\ left.degraded = me.degraded
            /\ left.seen = me.seen
BY DEF Locked!LeftBehind, Locked!Idle

LEMMA EndedConsistent ==
  ASSUME NEW me
  PROVE  Consistent(Locked!Ended(me)) /\ Locked!Ended(me).degraded = me.residual
BY DEF Consistent, Locked!Ended, Locked!Idle, LockFile, Locked!Absent, Claiming

\* A step that ends the change of p.
LEMMA EndKeeps ==
  ASSUME StoreInv, NEW p \in Processes, NEW me, Locked!End(p, me),
         UNCHANGED <<protocol, doc, crashes>>, lock' \in LockFile,
         lock' = Locked!Absent => lock = Locked!Absent \/ proc[p].pc \in Critical,
         lock' # Locked!Absent => me.residual \/ (lock # Locked!Absent /\ ~AnswersForLock(proc[p])),
         gate' # "absent" => me.residual \/ (gate # "absent" /\ ~AnswersForGate(proc[p]))
  PROVE  StoreInv'
<1> DEFINE next == Locked!Ended(me)
<1>1. Consistent(next) /\ next.degraded = me.residual /\ next.pc = "idle"
  BY EndedConsistent DEF Locked!Ended, Locked!Idle
<1>2. Locked!Update(p, next)
  BY DEF Locked!End
<1> HIDE DEF next
<1>3. Allowed(p, next)
  BY <1>1 DEF Allowed, AnswersForLock, AnswersForGate, Knows, Critical
<1> QED
  BY <1>2, <1>3, AllowedKeeps

\* A step of p between the making of the lock and its removal.
LEMMA StaysCritical ==
  ASSUME StoreInv, NEW p \in Processes, proc[p].pc \in Critical,
         NEW me, Locked!Update(p, me), DOMAIN me = DOMAIN Locked!Idle, me.pc \in Critical,
         me.claim = proc[p].claim, me.degraded = proc[p].degraded,
         proc[p].residual => me.residual,
         me.pc = "gateBlock" => me.residual,
         me.pc = "persist" => me.seen = doc',
         UNCHANGED <<protocol, crashes>>, lock' \in LockFile, lock' # Locked!Absent,
         gate' # "absent" =>
           \/ me.residual
           \/ gate # "absent" /\ ~(protocol = "credential" /\ proc[p].pc \in Gated /\ me.pc \notin Gated)
  PROVE  StoreInv'
<1>1. Consistent(proc[p]) /\ ~proc[p].degraded
  BY DEF StoreInv, Consistent, Critical
<1>2. Consistent(me)
  BY <1>1 DEF Consistent, Critical, Claiming
<1>3. Allowed(p, me)
  BY <1>1, <1>2 DEF Allowed, AnswersForLock, AnswersForGate, Knows
<1> QED
  BY <1>3, AllowedKeeps

------------------------
(* The steps *)

LEMMA StoreBeginKeeps ==
  ASSUME StoreInv, NEW p \in Processes, NEW change \in Locked!Changes, Locked!Begin(p, change)
  PROVE  StoreInv'
<1> DEFINE me == [Locked!Idle EXCEPT !.pc = IF protocol = "credential" THEN "gate" ELSE "open",
                                     !.change = change, !.version = changes + 1]
<1>1. /\ proc[p].pc = "idle" /\ ~proc[p].degraded
      /\ Locked!Update(p, me)
      /\ UNCHANGED <<protocol, doc, lock, gate, crashes>>
  BY DEF Locked!Begin
<1>2. Consistent(me) /\ ~me.residual /\ ~me.degraded /\ me.pc \in {"gate", "open"}
  BY DEF Consistent, Locked!Idle, LockFile, Locked!Absent, Claiming
<1> HIDE DEF me
<1>3. ~AnswersForLock(proc[p]) /\ ~AnswersForGate(proc[p])
  BY <1>1 DEF StoreInv, Consistent, AnswersForLock, AnswersForGate, Knows, Critical, Gated
<1>4. Allowed(p, me)
  BY <1>1, <1>2, <1>3 DEF StoreInv, Allowed, Critical
<1> QED
  BY <1>1, <1>4, AllowedKeeps

LEMMA AcquireGateKeeps ==
  ASSUME StoreInv, NEW p \in Processes, Locked!AcquireGate(p)
  PROVE  StoreInv'
<1>1. proc[p].pc = "gate" /\ Consistent(proc[p]) /\ ~proc[p].degraded /\ ~proc[p].residual
      /\ UNCHANGED <<protocol, doc, lock, crashes>> /\ lock \in LockFile
  BY DEF Locked!AcquireGate, Locked!Same, StoreInv, Consistent
<1>2. ~AnswersForLock(proc[p]) /\ ~AnswersForGate(proc[p])
  BY <1>1 DEF AnswersForLock, AnswersForGate, Knows, Critical, Gated
<1>3. CASE Locked!Update(p, [Locked!Idle EXCEPT !.reply = "busy"]) /\ UNCHANGED gate
  <2> DEFINE me == [Locked!Idle EXCEPT !.reply = "busy"]
  <2>1. Consistent(me) /\ me.pc = "idle"
    BY IdleConsistent DEF Locked!Idle
  <2> HIDE DEF me
  <2>2. Allowed(p, me)
    BY <1>1, <1>2, <1>3, <2>1 DEF Allowed, Critical
  <2> QED BY <1>1, <1>3, <2>2, AllowedKeeps DEF me
<1>4. CASE gate' = p /\ Locked!Goto(p, "open")
  <2> DEFINE me == [proc[p] EXCEPT !.pc = "open"]
  <2>1. Consistent(me) /\ me.pc = "open"
    BY <1>1 DEF Consistent, Locked!Idle, Claiming
  <2> HIDE DEF me
  <2>2. Allowed(p, me)
    BY <1>1, <1>2, <1>4, <2>1 DEF Allowed, Critical, AnswersForGate, Gated, Consistent
  <2> QED BY <1>1, <1>4, <2>2, AllowedKeeps DEF me, Locked!Goto
<1>5. CASE gate' = p /\ Locked!End(p, Locked!LeftBehind([proc[p] EXCEPT !.failed = TRUE]))
  <2> DEFINE me == Locked!Ended(Locked!LeftBehind([proc[p] EXCEPT !.failed = TRUE]))
  <2>1. DOMAIN [proc[p] EXCEPT !.failed = TRUE] = DOMAIN Locked!Idle
    BY <1>1 DEF Consistent
  <2>2. Consistent(me) /\ me.degraded
    BY <2>1, EndedConsistent, LeftBehindFields
  <2> HIDE DEF me
  <2>3. Allowed(p, me)
    BY <1>1, <1>2, <1>5, <2>2 DEF Allowed, AnswersForLock, AnswersForGate, Knows, Consistent,
          Critical
  <2> QED BY <1>1, <1>5, <2>3, AllowedKeeps DEF me, Locked!End
<1> QED
  BY <1>3, <1>4, <1>5 DEF Locked!AcquireGate

LEMMA OpenLockKeeps ==
  ASSUME Locked!NamesApart, StoreInv, NEW p \in Processes, Locked!OpenLock(p)
  PROVE  StoreInv'
<1>1. proc[p].pc = "open" /\ Consistent(proc[p]) /\ ~proc[p].residual /\ ~proc[p].degraded
      /\ UNCHANGED <<protocol, doc, gate, crashes>> /\ lock \in LockFile
  BY DEF Locked!OpenLock, Locked!Same, StoreInv, Consistent
<1>2. ~AnswersForLock(proc[p]) /\ (AnswersForGate(proc[p]) <=> protocol = "credential")
  BY <1>1 DEF AnswersForLock, AnswersForGate, Knows, Critical, Gated
<1>3. CASE lock = Locked!Absent
  <2> DEFINE me == [proc[p] EXCEPT !.pc = "token"]
  <2>1. Locked!Update(p, me) /\ lock' = [by |-> p, written |-> FALSE]
    BY <1>3 DEF Locked!OpenLock, Locked!Goto
  <2>2. lock' \in LockFile /\ lock' # Locked!Absent
    BY <2>1 DEF LockFile, Locked!Absent, Locked!NamesApart
  <2>3. Consistent(me) /\ me.pc = "token"
    BY <1>1 DEF Consistent, Locked!Idle, Claiming
  <2> HIDE DEF me
  <2>4. Allowed(p, me)
    BY <1>1, <1>2, <1>3, <2>2, <2>3 DEF Allowed, Critical, AnswersForLock, AnswersForGate, Gated
  <2> QED BY <1>1, <2>1, <2>4, AllowedKeeps
<1>4. CASE lock # Locked!Absent /\ protocol = "credential"
  <2> DEFINE me == [proc[p] EXCEPT !.pc = "busyGate"]
  <2>1. Locked!Update(p, me) /\ lock' = lock
    BY <1>4 DEF Locked!OpenLock, Locked!Goto
  <2>2. Consistent(me) /\ me.pc = "busyGate"
    BY <1>1 DEF Consistent, Locked!Idle, Claiming
  <2> HIDE DEF me
  <2>3. Allowed(p, me)
    BY <1>1, <1>2, <1>4, <2>1, <2>2 DEF Allowed, Critical, AnswersForGate, Gated
  <2> QED BY <1>1, <2>1, <2>3, AllowedKeeps
<1>5. CASE lock # Locked!Absent /\ protocol # "credential"
  <2> DEFINE me == [Locked!Idle EXCEPT !.reply = "busy"]
  <2>1. Locked!Update(p, me) /\ lock' = lock
    BY <1>5 DEF Locked!OpenLock
  <2>2. Consistent(me) /\ me.pc = "idle"
    BY IdleConsistent DEF Locked!Idle
  <2> HIDE DEF me
  <2>3. Allowed(p, me)
    BY <1>1, <1>2, <1>5, <2>1, <2>2 DEF Allowed, Critical
  <2> QED BY <1>1, <2>1, <2>3, AllowedKeeps
<1> QED
  BY <1>3, <1>4, <1>5

\* What holds of a process between the making of the lock and its removal.
LEMMA InCritical ==
  ASSUME StoreInv, NEW p \in Processes, proc[p].pc \in Critical
  PROVE  /\ DOMAIN proc[p] = DOMAIN Locked!Idle
         /\ ~proc[p].degraded
         /\ lock \in LockFile /\ lock # Locked!Absent
BY DEF StoreInv, Consistent, OneWriter, Critical

LEMMA WriteTokenKeeps ==
  ASSUME StoreInv, NEW p \in Processes, Locked!WriteToken(p)
  PROVE  StoreInv'
<1>1. proc[p].pc = "token" /\ UNCHANGED <<protocol, doc, gate, crashes>>
  BY DEF Locked!WriteToken, Locked!Same
<1>2. proc[p].pc \in Critical
  BY <1>1 DEF Critical
<1>3. lock' \in LockFile /\ lock' # Locked!Absent
  <2>1. CASE UNCHANGED lock
    BY <1>2, <2>1, InCritical
  <2>2. CASE lock' = [lock EXCEPT !.written = TRUE]
    BY <1>2, <2>2, InCritical DEF LockFile, Locked!Absent
  <2> QED BY <2>1, <2>2 DEF Locked!WriteToken
<1>4. ASSUME NEW me, Locked!Update(p, me), me.pc \in {"load", Locked!FirstRelease}, DOMAIN me = DOMAIN Locked!Idle,
             me.claim = proc[p].claim, me.degraded = proc[p].degraded,
             me.residual = proc[p].residual
      PROVE  StoreInv'
  BY <1>1, <1>2, <1>3, <1>4, StaysCritical DEF Critical, Gated, Locked!FirstRelease
<1>5. CASE Locked!Update(p, [proc[p] EXCEPT !.pc = "load"])
  BY <1>2, <1>4, <1>5, InCritical DEF Locked!Idle
<1>6. CASE Locked!Update(p, [proc[p] EXCEPT !.failed = TRUE, !.pc = Locked!FirstRelease])
  BY <1>2, <1>4, <1>6, InCritical DEF Locked!Idle
<1> QED
  BY <1>5, <1>6 DEF Locked!WriteToken, Locked!Goto

LEMMA LoadKeeps ==
  ASSUME StoreInv, NEW p \in Processes, Locked!Load(p)
  PROVE  StoreInv'
<1>1. proc[p].pc = "load" /\ UNCHANGED <<protocol, doc, lock, gate, crashes>>
  BY DEF Locked!Load, Locked!Same
<1>2. proc[p].pc \in Critical
  BY <1>1 DEF Critical
<1>3. ASSUME NEW me, Locked!Update(p, me), DOMAIN me = DOMAIN Locked!Idle,
             me.pc = Locked!FirstRelease \/ (me.pc = "persist" /\ me.seen = doc),
             me.claim = proc[p].claim, me.degraded = proc[p].degraded,
             me.residual = proc[p].residual
      PROVE  StoreInv'
  BY <1>1, <1>2, <1>3, InCritical, StaysCritical DEF Critical, Gated, Locked!FirstRelease
<1>4. CASE Locked!Update(p, [proc[p] EXCEPT !.failed = TRUE, !.pc = Locked!FirstRelease])
  BY <1>2, <1>3, <1>4, InCritical DEF Locked!Idle
<1>5. CASE Locked!Update(p, [proc[p] EXCEPT !.pc = Locked!FirstRelease])
  BY <1>2, <1>3, <1>5, InCritical DEF Locked!Idle
<1>6. CASE Locked!Update(p, [proc[p] EXCEPT !.seen = doc, !.pc = "persist"])
  BY <1>2, <1>3, <1>6, InCritical DEF Locked!Idle
<1> QED
  BY <1>4, <1>5, <1>6 DEF Locked!Load

LEMMA PersistKeeps ==
  ASSUME StoreInv, NEW p \in Processes, Locked!Persist(p)
  PROVE  StoreInv'
<1>1. proc[p].pc = "persist" /\ UNCHANGED <<protocol, lock, gate, crashes>>
  BY DEF Locked!Persist, Locked!Same
<1>2. proc[p].pc \in Critical
  BY <1>1 DEF Critical
<1>3. ASSUME NEW me, Locked!Update(p, me), me.pc = Locked!FirstRelease, DOMAIN me = DOMAIN Locked!Idle,
             me.claim = proc[p].claim, me.degraded = proc[p].degraded,
             proc[p].residual => me.residual
      PROVE  StoreInv'
  BY <1>1, <1>2, <1>3, InCritical, StaysCritical DEF Critical, Gated, Locked!FirstRelease
<1>4. CASE Locked!Update(p, [proc[p] EXCEPT !.committed = TRUE, !.pc = Locked!FirstRelease])
  BY <1>2, <1>3, <1>4, InCritical DEF Locked!Idle
<1>5. CASE Locked!Update(p, [proc[p] EXCEPT !.failed = TRUE, !.pc = Locked!FirstRelease])
  BY <1>2, <1>3, <1>5, InCritical DEF Locked!Idle
<1>6. CASE Locked!Update(p, [proc[p] EXCEPT !.failed = TRUE, !.residual = TRUE, !.pc = Locked!FirstRelease])
  BY <1>2, <1>3, <1>6, InCritical DEF Locked!Idle
<1> QED
  BY <1>4, <1>5, <1>6 DEF Locked!Persist

\* The gate is given back, or p knows that it may not be.
LEMMA AfterGateKeeps ==
  ASSUME StoreInv, NEW p \in Processes,
         proc[p].pc \in {"releaseGate", "busyGate", "gateBlock", "busyBlock"},
         NEW me, Locked!AfterGate(p, me), DOMAIN me = DOMAIN Locked!Idle,
         me.pc = "busyGate" <=> proc[p].pc \in {"busyGate", "busyBlock"},
         me.claim = proc[p].claim, me.degraded = proc[p].degraded,
         proc[p].residual => me.residual,
         UNCHANGED <<protocol, doc, lock, crashes>>,
         gate' # "absent" => me.residual
  PROVE  StoreInv'
<1>1. CASE me.pc = "busyGate"
  <2> DEFINE next == [Locked!Ended(me) EXCEPT !.reply = "busy"]
  <2>1. Locked!Update(p, next)
    BY <1>1 DEF Locked!AfterGate
  <2>2. Consistent(next) /\ next.pc = "idle" /\ next.degraded = me.residual
    BY EndedConsistent DEF Consistent, Locked!Ended, Locked!Idle, Claiming
  <2> HIDE DEF next
  <2>3. Consistent(proc[p]) /\ lock \in LockFile
    BY DEF StoreInv
  <2>4. ~proc[p].degraded /\ proc[p].pc \notin Critical
    BY <1>1, <2>3 DEF Consistent, Critical
  <2>5. AnswersForLock(proc[p]) => me.residual
    BY <2>4 DEF AnswersForLock, Knows
  <2>6. Allowed(p, next)
    BY <2>2, <2>3, <2>4, <2>5 DEF Allowed, AnswersForLock, AnswersForGate, Knows, Critical
  <2> QED BY <2>1, <2>6, AllowedKeeps
<1>2. CASE me.pc # "busyGate"
  <2> DEFINE next == [me EXCEPT !.pc = "close"]
  <2>1. Locked!Update(p, next)
    BY <1>2 DEF Locked!AfterGate
  <2>2. /\ DOMAIN next = DOMAIN Locked!Idle /\ next.pc = "close" /\ next.claim = proc[p].claim
        /\ next.degraded = proc[p].degraded /\ next.residual = me.residual
    BY DEF Locked!Idle
  <2> HIDE DEF next
  <2>3. proc[p].pc \in Critical /\ next.pc \in Critical
    BY <1>2, <2>2 DEF Critical
  <2> QED BY <2>1, <2>2, <2>3, InCritical, StaysCritical
<1> QED
  BY <1>1, <1>2

LEMMA ReleaseGateKeeps ==
  ASSUME StoreInv, NEW p \in Processes, Locked!ReleaseGate(p)
  PROVE  StoreInv'
<1>1. proc[p].pc \in {"releaseGate", "busyGate"} /\ UNCHANGED <<protocol, doc, lock, crashes>>
  BY DEF Locked!ReleaseGate, Locked!Same
<1>2. DOMAIN proc[p] = DOMAIN Locked!Idle
  BY DEF StoreInv, Consistent
<1>3. CASE gate' = "absent" /\ Locked!AfterGate(p, proc[p])
  BY <1>1, <1>2, <1>3, AfterGateKeeps
<1>4. CASE Locked!AfterGate(p, Locked!LeftBehind(proc[p]))
  BY <1>1, <1>2, <1>4, AfterGateKeeps, LeftBehindFields
<1>5. CASE /\ gate' = "absent"
           /\ Locked!Update(p, [Locked!LeftBehind(proc[p]) EXCEPT
                                  !.pc = IF proc[p].pc = "busyGate" THEN "busyBlock" ELSE "gateBlock"])
  <2> DEFINE left == Locked!LeftBehind(proc[p])
             me == [left EXCEPT !.pc = IF proc[p].pc = "busyGate" THEN "busyBlock" ELSE "gateBlock"]
  <2>1. Locked!Update(p, me)
    BY <1>5
  <2>2. /\ DOMAIN left = DOMAIN Locked!Idle /\ left.residual /\ left.claim = proc[p].claim
        /\ left.degraded = proc[p].degraded
    BY <1>2, LeftBehindFields
  <2> HIDE DEF left
  <2>3. /\ DOMAIN me = DOMAIN Locked!Idle /\ me.residual /\ me.claim = proc[p].claim
        /\ me.degraded = proc[p].degraded
        /\ me.pc = IF proc[p].pc = "busyGate" THEN "busyBlock" ELSE "gateBlock"
    BY <2>2 DEF Locked!Idle
  <2> HIDE DEF me
  <2>4. CASE proc[p].pc = "busyGate"
    <3>1. Consistent(proc[p]) /\ lock \in LockFile
      BY DEF StoreInv
    <3>2. Consistent(me)
      BY <2>3, <2>4, <3>1 DEF Consistent, Claiming
    <3>3. Allowed(p, me)
      BY <1>1, <1>5, <2>3, <2>4, <3>1, <3>2
         DEF Allowed, AnswersForLock, AnswersForGate, Knows, Critical
    <3> QED BY <1>1, <2>1, <3>3, AllowedKeeps
  <2>5. CASE proc[p].pc = "releaseGate"
    BY <1>1, <1>5, <2>1, <2>3, <2>5, InCritical, StaysCritical DEF Critical
  <2> QED BY <1>1, <2>4, <2>5
<1> QED
  BY <1>3, <1>4, <1>5 DEF Locked!ReleaseGate

LEMMA EnsureGateBlockedKeeps ==
  ASSUME StoreInv, NEW p \in Processes, Locked!EnsureGateBlocked(p)
  PROVE  StoreInv'
<1> DEFINE me == proc[p]
           next == [me EXCEPT !.pc = IF me.pc = "busyBlock" THEN "busyGate" ELSE "releaseGate"]
<1>1. me.pc \in {"busyBlock", "gateBlock"} /\ UNCHANGED <<protocol, doc, lock, crashes>>
  BY DEF Locked!EnsureGateBlocked, Locked!Same
<1>2. DOMAIN me = DOMAIN Locked!Idle /\ me.residual /\ lock \in LockFile
  BY <1>1 DEF StoreInv, Consistent
<1>3. /\ DOMAIN next = DOMAIN Locked!Idle /\ next.residual /\ next.claim = me.claim
      /\ next.degraded = me.degraded
      /\ next.pc = IF me.pc = "busyBlock" THEN "busyGate" ELSE "releaseGate"
  BY <1>2 DEF Locked!Idle
<1>4. Locked!AfterGate(p, next) \/ (UNCHANGED gate /\ Locked!End(p, me))
  BY DEF Locked!EnsureGateBlocked
<1> HIDE DEF next
<1>5. CASE Locked!AfterGate(p, next)
  BY <1>1, <1>2, <1>3, <1>5, AfterGateKeeps
<1>6. CASE UNCHANGED gate /\ Locked!End(p, me)
  BY <1>1, <1>2, <1>6, EndKeeps
<1> QED
  BY <1>4, <1>5, <1>6

LEMMA CloseLockKeeps ==
  ASSUME StoreInv, NEW p \in Processes, Locked!CloseLock(p)
  PROVE  StoreInv'
<1>1. proc[p].pc = "close" /\ UNCHANGED <<protocol, doc, lock, gate, crashes>>
  BY DEF Locked!CloseLock, Locked!Same
<1>2. proc[p].pc \in Critical /\ proc[p].pc \notin Gated
  BY <1>1 DEF Critical, Gated
<1>3. ASSUME NEW me, Locked!Update(p, me), DOMAIN me = DOMAIN Locked!Idle, me.pc = "remove",
             me.claim = proc[p].claim, me.degraded = proc[p].degraded,
             me.residual = proc[p].residual
      PROVE  StoreInv'
  BY <1>1, <1>2, <1>3, InCritical, StaysCritical DEF Critical
<1> DEFINE me == [proc[p] EXCEPT !.pc = "remove"]
<1>4. /\ DOMAIN me = DOMAIN Locked!Idle /\ me.pc = "remove" /\ me.claim = proc[p].claim
      /\ me.degraded = proc[p].degraded /\ me.residual = proc[p].residual
  BY <1>2, InCritical DEF Locked!Idle
<1>5. CASE Locked!Update(p, me)
  BY <1>3, <1>4, <1>5
<1>6. CASE Locked!Update(p, [me EXCEPT !.clean = FALSE])
  <2> HIDE DEF me
  <2> QED BY <1>3, <1>4, <1>6 DEF Locked!Idle
<1> QED
  BY <1>5, <1>6 DEF Locked!CloseLock

\* A change whose lock is claimed or found to be another's: the gate was given back, or p
\* knows that it was not.
LEMMA ClaimLockKeeps ==
  ASSUME StoreInv, NEW p \in Processes, Locked!ClaimLock(p)
  PROVE  StoreInv'
<1> DEFINE me == proc[p]
<1>1. me.pc = "remove" /\ UNCHANGED <<protocol, doc, gate, crashes>>
  BY DEF Locked!ClaimLock, Locked!Same
<1>2. me.pc \in Critical /\ me.pc \notin Gated
  BY <1>1 DEF Critical, Gated
<1>3. DOMAIN me = DOMAIN Locked!Idle /\ ~me.degraded /\ lock \in LockFile /\ lock # Locked!Absent
  BY <1>2, InCritical
<1>4. CASE lock' = Locked!Absent /\ Locked!Update(p, [me EXCEPT !.claim = lock, !.pc = "compare"])
  <2> DEFINE next == [me EXCEPT !.claim = lock, !.pc = "compare"]
  <2>1. /\ DOMAIN next = DOMAIN Locked!Idle /\ next.pc = "compare" /\ next.claim = lock
        /\ next.degraded = me.degraded /\ next.residual = me.residual
    BY <1>3 DEF Locked!Idle
  <2>2. Locked!Update(p, next)
    BY <1>4
  <2> HIDE DEF next
  <2>3. lock' \in LockFile
    BY <1>4 DEF LockFile, Locked!Absent
  <2>4. Allowed(p, next)
    BY <1>1, <1>2, <1>3, <1>4, <2>1, <2>3
       DEF Allowed, Consistent, AnswersForGate, Knows, Claiming, Critical
  <2> QED BY <1>1, <2>2, <2>4, AllowedKeeps
<1>5. CASE UNCHANGED lock /\ Locked!End(p, Locked!LeftBehind(me))
  BY <1>1, <1>3, <1>5, LeftBehindFields, EndKeeps
<1> QED
  BY <1>3, <1>4, <1>5 DEF Locked!ClaimLock

LEMMA CompareClaimKeeps ==
  ASSUME StoreInv, NEW p \in Processes, Locked!CompareClaim(p)
  PROVE  StoreInv'
<1> DEFINE me == proc[p]
<1>1. me.pc = "compare" /\ UNCHANGED <<protocol, doc, lock, gate, crashes>>
  BY DEF Locked!CompareClaim, Locked!Same
<1>2. /\ DOMAIN me = DOMAIN Locked!Idle /\ ~me.degraded /\ lock \in LockFile
      /\ me.claim \in LockFile /\ me.claim # Locked!Absent
  BY <1>1 DEF StoreInv, Consistent, Claiming
<1>3. (AnswersForLock(me) <=> me.residual) /\ (AnswersForGate(me) <=> me.residual)
  BY <1>1, <1>2 DEF AnswersForLock, AnswersForGate, Knows, Critical, Gated
<1>4. CASE Locked!End(p, me)
  BY <1>1, <1>2, <1>3, <1>4, EndKeeps
<1>5. CASE Locked!Update(p, [Locked!LeftBehind(me) EXCEPT !.pc = "restore"])
  <2> DEFINE left == Locked!LeftBehind(me)
             next == [left EXCEPT !.pc = "restore"]
  <2>1. /\ DOMAIN left = DOMAIN Locked!Idle /\ left.residual /\ left.claim = me.claim
        /\ left.degraded = me.degraded
    BY <1>2, LeftBehindFields
  <2>2. Locked!Update(p, next)
    BY <1>5
  <2> HIDE DEF left
  <2>3. /\ DOMAIN next = DOMAIN Locked!Idle /\ next.pc = "restore" /\ next.claim = me.claim
        /\ next.residual /\ next.degraded = me.degraded
    BY <2>1 DEF Locked!Idle
  <2> HIDE DEF next
  <2>4. Allowed(p, next)
    BY <1>1, <1>2, <2>3
       DEF Allowed, Consistent, AnswersForLock, AnswersForGate, Knows, Claiming, Critical
  <2> QED BY <1>1, <2>2, <2>4, AllowedKeeps
<1> QED
  BY <1>4, <1>5 DEF Locked!CompareClaim

LEMMA RestoreKeeps ==
  ASSUME StoreInv, NEW p \in Processes, Locked!RestoreClaim(p) \/ Locked!EnsureCanonicalBlocked(p)
  PROVE  StoreInv'
<1>1. /\ proc[p].pc = "restore" /\ Locked!End(p, proc[p])
      /\ UNCHANGED <<protocol, doc, gate, crashes>>
      /\ lock' \in {lock, proc[p].claim} \/ (lock = Locked!Absent /\ lock' \in {Locked!Absent, Locked!Marker})
  BY DEF Locked!RestoreClaim, Locked!EnsureCanonicalBlocked, Locked!Same
<1>2. /\ proc[p].residual /\ lock \in LockFile
      /\ proc[p].claim \in LockFile /\ proc[p].claim # Locked!Absent
  BY <1>1 DEF StoreInv, Consistent, Claiming
<1>3. Locked!Marker \in LockFile /\ Locked!Absent \in LockFile
  BY DEF Locked!Marker, Locked!Absent, LockFile
<1>4. lock' \in LockFile /\ (lock' = Locked!Absent => lock = Locked!Absent)
  BY <1>1, <1>2, <1>3
<1> QED
  BY <1>1, <1>2, <1>4, EndKeeps

LEMMA CompareLockKeeps ==
  ASSUME StoreInv, NEW p \in Processes, Locked!CompareLock(p)
  PROVE  StoreInv'
<1> DEFINE me == proc[p]
<1>1. me.pc = "remove" /\ UNCHANGED <<protocol, doc, lock, gate, crashes>>
  BY DEF Locked!CompareLock, Locked!Same
<1>2. me.pc \in Critical /\ me.pc \notin Gated
  BY <1>1 DEF Critical, Gated
<1>3. DOMAIN me = DOMAIN Locked!Idle /\ lock \in LockFile /\ lock # Locked!Absent
  BY <1>2, InCritical
<1>4. CASE Locked!Update(p, [me EXCEPT !.pc = "unlink"])
  <2> DEFINE next == [me EXCEPT !.pc = "unlink"]
  <2>1. /\ DOMAIN next = DOMAIN Locked!Idle /\ next.pc = "unlink" /\ next.claim = me.claim
        /\ next.degraded = me.degraded /\ next.residual = me.residual
    BY <1>3 DEF Locked!Idle
  <2>2. Locked!Update(p, next)
    BY <1>4
  <2> HIDE DEF next
  <2> QED BY <1>1, <1>2, <1>3, <2>1, <2>2, StaysCritical DEF Critical
<1>5. CASE Locked!End(p, Locked!LeftBehind(me))
  BY <1>1, <1>3, <1>5, LeftBehindFields, EndKeeps
<1> QED
  BY <1>3, <1>4, <1>5 DEF Locked!CompareLock, Locked!Goto

LEMMA RemoveLockKeeps ==
  ASSUME StoreInv, NEW p \in Processes, Locked!RemoveLock(p)
  PROVE  StoreInv'
<1>1. proc[p].pc = "unlink" /\ UNCHANGED <<protocol, doc, gate, crashes>>
  BY DEF Locked!RemoveLock, Locked!Same
<1>2. proc[p].pc \in Critical /\ proc[p].pc \notin Gated
  BY <1>1 DEF Critical, Gated
<1>3. DOMAIN proc[p] = DOMAIN Locked!Idle /\ ~proc[p].degraded /\ lock \in LockFile /\ lock # Locked!Absent
  BY <1>2, InCritical
<1>4. AnswersForGate(proc[p]) <=> proc[p].residual
  BY <1>2, <1>3 DEF AnswersForGate, Knows
<1>5. CASE lock' = Locked!Absent /\ Locked!End(p, proc[p])
  <2>1. lock' \in LockFile
    BY <1>5 DEF LockFile, Locked!Absent
  <2> QED BY <1>1, <1>2, <1>4, <1>5, <2>1, EndKeeps
<1>6. CASE UNCHANGED lock /\ Locked!End(p, Locked!LeftBehind(proc[p]))
  BY <1>1, <1>3, <1>6, LeftBehindFields, EndKeeps
<1> QED
  BY <1>5, <1>6 DEF Locked!RemoveLock

LEMMA StoreCrashKeeps ==
  ASSUME StoreInv, NEW p \in Processes, Locked!Crash(p)
  PROVE  StoreInv'
<1>1. Locked!Update(p, Locked!Idle) /\ UNCHANGED <<protocol, doc, lock, gate>> /\ crashes' = crashes + 1
  BY DEF Locked!Crash
<1>2. /\ DOMAIN proc' = Processes
      /\ proc'[p] = Locked!Idle
      /\ \A q \in Processes : q # p => proc'[q] = proc[q]
  BY <1>1 DEF Locked!Update, StoreInv
<1>3. Consistent(Locked!Idle) /\ Locked!Idle.pc = "idle"
  BY DEF Consistent, Locked!Idle, LockFile, Locked!Absent, Claiming
<1>4. ASSUME NEW q \in Processes PROVE Consistent(proc[q])'
  <2>1. protocol' = protocol /\ Consistent(proc[q])
    BY <1>1 DEF StoreInv
  <2>2. proc[q]' = proc[q] \/ proc[q]' = Locked!Idle
    BY <1>2
  <2> QED
    BY <1>3, <2>1, <2>2 DEF Consistent, LockFile
<1>5. OneWriter'
  BY <1>1, <1>2, <1>3 DEF StoreInv, OneWriter, Critical, Locked!Absent
<1>6. crashes' \in Nat /\ crashes' # 0
  BY <1>1 DEF StoreInv
<1> QED
  BY <1>1, <1>2, <1>4, <1>5, <1>6 DEF StoreInv, Answered, LockFile

LEMMA StoreInit == Locked!Init => StoreInv
<1> SUFFICES ASSUME Locked!Init PROVE StoreInv
  OBVIOUS
<1>1. Consistent(Locked!Idle) /\ Locked!Idle.pc = "idle"
  BY DEF Consistent, Locked!Idle, LockFile, Locked!Absent, Claiming
<1> QED
  BY <1>1 DEF Locked!Init, StoreInv, OneWriter, Answered, LockFile, Locked!Absent, Critical

LEMMA StoreStep == Locked!NamesApart /\ StoreInv /\ [Locked!Next]_(Locked!vars) => StoreInv'
<1> SUFFICES ASSUME Locked!NamesApart, StoreInv, [Locked!Next]_(Locked!vars) PROVE StoreInv'
  OBVIOUS
<1>1. ASSUME NEW p \in Processes, Locked!Step(p) PROVE StoreInv'
  BY <1>1, StoreBeginKeeps, AcquireGateKeeps, OpenLockKeeps, WriteTokenKeeps, LoadKeeps,
     PersistKeeps, ReleaseGateKeeps, EnsureGateBlockedKeeps, CloseLockKeeps, ClaimLockKeeps,
     CompareClaimKeeps, RestoreKeeps, CompareLockKeeps, RemoveLockKeeps, StoreCrashKeeps
     DEF Locked!Step
<1>2. CASE UNCHANGED Locked!vars
  BY <1>2 DEF Locked!vars, StoreInv, Consistent, OneWriter, Answered, AnswersForLock,
     AnswersForGate,
              Knows, Locked!Absent, LockFile
<1> QED
  BY <1>1, <1>2 DEF Locked!Next

------------------------

\* The file is only replaced by what the change of one process makes of the file as it is:
\* the lock is put back over a newer one, or removed after it was compared, only when no
\* other process is at work under it.
LEMMA WritersKeepChanges == Locked!NamesApart => (Locked!Spec => [][Locked!NoLostWrite]_(Locked!vars))
<1> SUFFICES ASSUME Locked!NamesApart PROVE Locked!Spec => [][Locked!NoLostWrite]_(Locked!vars)
  OBVIOUS
<1>1. StoreInv /\ [Locked!Next]_(Locked!vars) => [Locked!NoLostWrite]_(Locked!vars)
  <2> SUFFICES ASSUME StoreInv, Locked!Next, doc' # doc
               PROVE  \E p \in Processes : doc' = Locked!Changed(doc, proc[p])
    BY DEF Locked!NoLostWrite, Locked!vars
  <2>1. PICK p \in Processes : Locked!Step(p)
    BY DEF Locked!Next
  <2>2. Locked!Persist(p)
    BY <2>1 DEF Locked!Step, Locked!Begin, Locked!AcquireGate, Locked!OpenLock, Locked!WriteToken,
       Locked!Load, Locked!ReleaseGate,
       Locked!EnsureGateBlocked, Locked!CloseLock, Locked!ClaimLock, Locked!CompareClaim,
       Locked!RestoreClaim,
       Locked!EnsureCanonicalBlocked, Locked!CompareLock, Locked!RemoveLock, Locked!Crash
  <2>3. proc[p].seen = doc /\ doc' = Locked!Changed(proc[p].seen, proc[p])
    BY <2>2 DEF Locked!Persist, StoreInv, OneWriter
  <2> QED BY <2>3
<1> QED
  BY <1>1, StoreInit, StoreStep, PTL DEF Locked!Spec

\* A lock, or the gate, that stays while no process is at work is known: a process has died,
\* or the store of some process refuses to go on and says so.
LEMMA LocksAreAnsweredFor == Locked!NamesApart => (Locked!Spec => []Locked!LeftLockIsKnown)
<1> SUFFICES ASSUME Locked!NamesApart PROVE Locked!Spec => []Locked!LeftLockIsKnown
  OBVIOUS
<1>1. StoreInv => Locked!LeftLockIsKnown
  BY DEF StoreInv, Answered, AnswersForLock, AnswersForGate, Knows, Consistent, Critical,
         Gated, Locked!LeftLockIsKnown
<1> QED
  BY <1>1, StoreInit, StoreStep, PTL DEF Locked!Spec

------------------------
(* The registry, in each of its instances *)

LEMMA PoolPart == Spec /\ part = "pool" => Pool!Spec
<1>1. Init /\ part = "pool" => Pool!Init
  BY DEF Init
<1>2. [Next]_vars /\ part = "pool" => [Pool!Next]_(Pool!vars)
  BY DEF Next, vars, registryVars, Pool!vars
<1>3. [Next]_vars => ((part = "pool")' <=> (part = "pool"))
  BY PartStays
<1> QED
  BY <1>1, <1>2, <1>3, PTL DEF Spec, Pool!Spec

LEMMA GroupsPart == Spec /\ part = "groups" => Groups!Spec
<1>1. Init /\ part = "groups" => Groups!Init
  BY DEF Init, Groups!Init, Groups!EmptyDocument, Groups!Empty, Pool!Init, Pool!EmptyDocument, Pool!Empty
<1>2. [Next]_vars /\ part = "groups" => [Groups!Next]_(Groups!vars)
  BY DEF Next, vars, registryVars, Groups!vars
<1>3. [Next]_vars => ((part = "groups")' <=> (part = "groups"))
  BY PartStays
<1> QED
  BY <1>1, <1>2, <1>3, PTL DEF Spec, Groups!Spec

LEMMA ClocksPart == Spec /\ part = "clocks" => Clocks!Spec
<1>1. Init /\ part = "clocks" => Clocks!Init
  BY DEF Init, Clocks!Init, Clocks!EmptyDocument, Clocks!Empty, Pool!Init, Pool!EmptyDocument, Pool!Empty
<1>2. [Next]_vars /\ part = "clocks" => [Clocks!Next]_(Clocks!vars)
  BY DEF Next, vars, registryVars, Clocks!vars
<1>3. [Next]_vars => ((part = "clocks")' <=> (part = "clocks"))
  BY PartStays
<1> QED
  BY <1>1, <1>2, <1>3, PTL DEF Spec, Clocks!Spec

LEMMA ChoicesPart == Spec /\ part = "choices" => Choices!Spec
<1>1. Init /\ part = "choices" => Choices!Init
  BY DEF Init, Choices!Init, Choices!EmptyDocument, Choices!Empty, Pool!Init, Pool!EmptyDocument, Pool!Empty
<1>2. [Next]_vars /\ part = "choices" => [Choices!Next]_(Choices!vars)
  BY DEF Next, vars, registryVars, Choices!vars
<1>3. [Next]_vars => ((part = "choices")' <=> (part = "choices"))
  BY PartStays
<1> QED
  BY <1>1, <1>2, <1>3, PTL DEF Spec, Choices!Spec

LEMMA SettingsPart == Spec /\ part = "settings" => Settings!Spec
<1>1. Init /\ part = "settings" => Settings!Init
  BY DEF Init, Settings!Init, Settings!EmptyDocument, Settings!Empty, Pool!Init, Pool!EmptyDocument, Pool!Empty
<1>2. [Next]_vars /\ part = "settings" => [Settings!Next]_(Settings!vars)
  BY DEF Next, vars, registryVars, Settings!vars
<1>3. [Next]_vars => ((part = "settings")' <=> (part = "settings"))
  BY PartStays
<1> QED
  BY <1>1, <1>2, <1>3, PTL DEF Spec, Settings!Spec

------------------------
(* The client keys, for any keys, edits, requests and clock *)

KeyRow == [enabled : BOOLEAN, expires : Nat, limit : Nat, count : Nat]

KeyEdit == [kind : {"none"}, id : {"none"}]
        \cup [kind : {"update"}, id : KeyIds, row : KeyRow]
        \cup [kind : {"delete"}, id : KeyIds]

KeyTypeOK ==
  /\ rows \in UNION {[K -> KeyRow] : K \in SUBSET KeyIds}
  /\ granted \in [KeyIds -> Nat]
  /\ edit \in KeyEdit
  /\ time \in Nat

\* An edit is of a key that is there: only edits remove keys, and they are one at a time.
GrantsInv ==
  /\ KeyTypeOK
  /\ edit.kind # "none" => edit.id \in DOMAIN rows
  /\ Access!GrantsCounted

------------------------

LEMMA KeyRowsType ==
  ASSUME KeyTypeOK
  PROVE  /\ DOMAIN rows \subseteq KeyIds
         /\ \A id \in DOMAIN rows : rows[id] \in KeyRow
  BY DEF KeyTypeOK

\* A table with one more row, or with another row for a key.
LEMMA WithRowType ==
  ASSUME KeyTypeOK, NEW id \in KeyIds, NEW row \in KeyRow
  PROVE  /\ Access!WithRow(id, row) \in UNION {[K -> KeyRow] : K \in SUBSET KeyIds}
         /\ DOMAIN Access!WithRow(id, row) = DOMAIN rows \cup {id}
         /\ Access!WithRow(id, row)[id] = row
         /\ \A k \in DOMAIN rows : k # id => Access!WithRow(id, row)[k] = rows[k]
<1>1. Access!WithRow(id, row) \in [DOMAIN rows \cup {id} -> KeyRow]
  BY KeyRowsType DEF Access!WithRow
<1>2. DOMAIN rows \cup {id} \in SUBSET KeyIds
  BY KeyRowsType
<1> QED
  BY <1>1, <1>2 DEF Access!WithRow

LEMMA GrantsInit == Access!Init => GrantsInv
<1> SUFFICES ASSUME Access!Init PROVE GrantsInv
  OBVIOUS
<1>1. rows \in [{} -> KeyRow] /\ DOMAIN rows = {}
  BY DEF Access!Init
<1> QED
  BY <1>1 DEF Access!Init, GrantsInv, KeyTypeOK, KeyEdit, Access!NoEdit, Access!GrantsCounted

LEMMA GrantsStep == GrantsInv /\ [Access!Next]_(Access!keyVars) => GrantsInv'
<1> SUFFICES ASSUME GrantsInv, [Access!Next]_(Access!keyVars) PROVE GrantsInv'
  OBVIOUS
<1> USE DEF GrantsInv
<1>1. ASSUME NEW id \in KeyIds, Access!Create(id) PROVE GrantsInv'
  <2>1. PICK expires \in Access!Expiries, limit \in Access!Limits :
          /\ id \notin DOMAIN rows
          /\ rows' = Access!WithRow(id, [enabled |-> TRUE, expires |-> expires, limit |-> limit,
                                  count |-> 0])
    BY <1>1 DEF Access!Create
  <2> DEFINE row == [enabled |-> TRUE, expires |-> expires, limit |-> limit, count |-> 0]
  <2>2. expires \in Nat /\ limit \in Nat
    BY DEF Access!Expiries, Access!Limits, Access!Null, KeyTypeOK
  <2>3. row \in KeyRow
    BY <2>2 DEF KeyRow
  <2>4. edit = Access!NoEdit /\ UNCHANGED <<edit, time>> /\ granted' = [granted EXCEPT ![id] = 0]
    BY <1>1 DEF Access!Create, Access!Editing
  <2>5. KeyTypeOK'
    BY <2>1, <2>3, <2>4, WithRowType DEF KeyTypeOK
  <2>6. rows' = Access!WithRow(id, row) /\ row \in KeyRow /\ row.count = 0
    BY <2>1, <2>3
  <2>7. granted' = [granted EXCEPT ![id] = 0] /\ granted \in [KeyIds -> Nat]
    BY <2>4 DEF KeyTypeOK
  <2>8. Access!GrantsCounted'
    <3> HIDE DEF row
    <3> SUFFICES ASSUME NEW k \in DOMAIN rows' PROVE rows'[k].count = granted'[k]
      BY DEF Access!GrantsCounted
    <3>1. CASE k = id
      BY <2>6, <2>7, <3>1, WithRowType DEF KeyTypeOK
    <3>2. CASE k # id
      <4>1. DOMAIN rows' = DOMAIN rows \cup {id}
        BY <2>6, WithRowType
      <4>2. k \in DOMAIN rows /\ k \in KeyIds
        BY <3>2, <4>1, KeyRowsType
      <4>3. rows'[k] = rows[k]
        BY <2>6, <3>2, <4>2, WithRowType
      <4>4. granted'[k] = granted[k]
        BY <2>7, <3>2, <4>2
      <4> QED BY <4>2, <4>3, <4>4 DEF Access!GrantsCounted
    <3> QED BY <3>1, <3>2
  <2> QED
    BY <2>4, <2>5, <2>8 DEF Access!NoEdit
<1>2. ASSUME NEW id \in KeyIds, Access!BeginUpdate(id) PROVE GrantsInv'
  <2>1. PICK enabled \in BOOLEAN, expires \in Access!Expiries, limit \in Access!Limits :
          edit' = [kind |-> "update", id |-> id,
                   row |-> [rows[id] EXCEPT !.enabled = enabled, !.expires = expires,
                                            !.limit = limit]]
    BY <1>2 DEF Access!BeginUpdate
  <2>2. id \in DOMAIN rows /\ UNCHANGED <<rows, granted, time>>
    BY <1>2 DEF Access!BeginUpdate
  <2>3. expires \in Nat /\ limit \in Nat /\ rows[id] \in KeyRow
    BY <2>2, KeyRowsType DEF Access!Expiries, Access!Limits, Access!Null, KeyTypeOK
  <2>4. [rows[id] EXCEPT !.enabled = enabled, !.expires = expires, !.limit = limit] \in KeyRow
    BY <2>3 DEF KeyRow
  <2>5. edit' \in KeyEdit /\ edit'.id = id
    BY <2>1, <2>4 DEF KeyEdit
  <2> QED
    BY <2>2, <2>5 DEF KeyTypeOK, Access!GrantsCounted
<1>3. CASE Access!WriteUpdate
  <2> DEFINE row == [edit.row EXCEPT !.count = rows[edit.id].count]
  <2>1. edit.kind = "update" /\ rows' = Access!WithRow(edit.id, row) /\ edit' = Access!NoEdit
        /\ UNCHANGED <<granted, time>>
    BY <1>3 DEF Access!WriteUpdate
  <2>2. edit.id \in KeyIds /\ edit.row \in KeyRow
    BY <2>1 DEF KeyTypeOK, KeyEdit
  <2>3. edit.id \in DOMAIN rows /\ rows[edit.id].count \in Nat
    BY <2>1, KeyRowsType DEF KeyRow
  <2>4. row \in KeyRow /\ row.count = rows[edit.id].count
    BY <2>2, <2>3 DEF KeyRow
  <2>5. KeyTypeOK'
    BY <2>1, <2>2, <2>4, WithRowType DEF KeyTypeOK, KeyEdit, Access!NoEdit
  <2>6. Access!GrantsCounted'
    <3> HIDE DEF row
    <3> SUFFICES ASSUME NEW k \in DOMAIN rows' PROVE rows'[k].count = granted'[k]
      BY DEF Access!GrantsCounted
    <3>0. granted' = granted /\ rows[edit.id].count = granted[edit.id]
      BY <2>1, <2>3 DEF Access!GrantsCounted
    <3>1. CASE k = edit.id
      <4>1. rows'[k] = row
        BY <2>1, <2>2, <2>4, <3>1, WithRowType
      <4> QED BY <2>4, <3>0, <3>1, <4>1
    <3>2. CASE k # edit.id
      <4>1. DOMAIN rows' = DOMAIN rows \cup {edit.id}
        BY <2>1, <2>2, <2>4, WithRowType
      <4>2. k \in DOMAIN rows
        BY <3>2, <4>1
      <4>3. rows'[k] = rows[k]
        BY <2>1, <2>2, <2>4, <3>2, <4>2, WithRowType
      <4> QED BY <3>0, <4>2, <4>3 DEF Access!GrantsCounted
    <3> QED BY <3>1, <3>2
  <2> QED
    BY <2>1, <2>5, <2>6 DEF Access!NoEdit
<1>4. ASSUME NEW id \in KeyIds, Access!BeginDelete(id) PROVE GrantsInv'
  BY <1>4 DEF Access!BeginDelete, KeyTypeOK, KeyEdit, Access!GrantsCounted
<1>5. CASE Access!Delete
  <2>1. rows' = [k \in DOMAIN rows \ {edit.id} |-> rows[k]] /\ edit' = Access!NoEdit
        /\ UNCHANGED <<granted, time>>
    BY <1>5 DEF Access!Delete, Access!WithoutRow
  <2>2. rows' \in [DOMAIN rows \ {edit.id} -> KeyRow] /\ DOMAIN rows \ {edit.id} \in SUBSET KeyIds
    BY <2>1, KeyRowsType
  <2> QED
    BY <2>1, <2>2 DEF KeyTypeOK, KeyEdit, Access!NoEdit, Access!GrantsCounted
<1>6. ASSUME NEW id \in KeyIds, Access!Count(id) PROVE GrantsInv'
  <2>1. CASE Access!Usable(id)
    <3>1. /\ id \in DOMAIN rows
          /\ rows' = [rows EXCEPT ![id].count = @ + 1]
          /\ granted' = [granted EXCEPT ![id] = @ + 1]
          /\ UNCHANGED <<edit, time>>
      BY <1>6, <2>1 DEF Access!Count, Access!Usable
    <3>2. rows[id] \in KeyRow /\ DOMAIN rows \in SUBSET KeyIds /\ rows \in [DOMAIN rows -> KeyRow]
      BY <3>1, KeyRowsType DEF KeyTypeOK
    <3> DEFINE row == [rows[id] EXCEPT !.count = @ + 1]
    <3>3. row \in KeyRow /\ row.count = rows[id].count + 1
      BY <3>2 DEF KeyRow
    <3>4. rows' = [rows EXCEPT ![id] = row]
      BY <3>1
    <3>5. rows' \in [DOMAIN rows -> KeyRow] /\ DOMAIN rows' = DOMAIN rows
      <4> HIDE DEF row
      <4> QED BY <3>2, <3>3, <3>4
    <3>6. Access!GrantsCounted'
      <4> HIDE DEF row
      <4> QED BY <3>1, <3>2, <3>3, <3>4, <3>5 DEF Access!GrantsCounted, KeyTypeOK
    <3> QED
      BY <3>1, <3>2, <3>5, <3>6 DEF KeyTypeOK
  <2>2. CASE ~Access!Usable(id)
    BY <1>6, <2>2 DEF Access!Count, KeyTypeOK, Access!GrantsCounted
  <2> QED BY <2>1, <2>2
<1>7. CASE \/ Access!ApplyAccess \/ Access!Exempt \/ Access!RefuseUnread
           \/ Access!ReadReason \/ Access!Tick \/ UNCHANGED Access!keyVars
  BY <1>7
  DEF Access!ApplyAccess, Access!Exempt, Access!RefuseUnread, Access!ReadReason, Access!Tick,
      Access!keyVars, KeyTypeOK, Access!GrantsCounted
<1> QED
  BY <1>1, <1>2, <1>3, <1>4, <1>5, <1>6, <1>7 DEF Access!Next

------------------------
(* Capture, for any databases, requests, settings applied and faults *)

ThreadState == [path : Paths, alive : BOOLEAN, cancelled : BOOLEAN, unstoppable : BOOLEAN,
                settled : BOOLEAN]

\* A manager has these fields and no other.
IsManager(m) ==
  m = [desired |-> m.desired, file |-> m.file, active |-> m.active, db |-> m.db,
       accepting |-> m.accepting, state |-> m.state, restart |-> m.restart,
       preparing |-> m.preparing, threads |-> m.threads, pending |-> m.pending,
       started |-> m.started, closed |-> m.closed]

ManagerType(m) ==
  /\ IsManager(m)
  /\ m.desired \in Capture!Settings
  /\ m.db \in Paths \cup {Capture!None}
  /\ m.threads \in Seq(ThreadState)
  /\ m.preparing \in 0..Len(m.threads)
  /\ m.accepting \in BOOLEAN /\ m.restart \in BOOLEAN
  /\ m.started \in BOOLEAN /\ m.closed \in BOOLEAN

OnTheWay(m) == m.preparing # 0 \/ m.pending # Capture!NotPending

\* What is on its way is wanted: a preparation whose thread runs, or an attempt that waits
\* for the threads of others, never both.
AttemptLives(m) ==
  /\ OnTheWay(m) => m.state = "enabling"
  /\ m.preparing = 0 \/ m.pending = Capture!NotPending
  /\ m.preparing # 0 =>
       ~m.threads[m.preparing].cancelled /\ ~m.threads[m.preparing].settled

AttemptOK(m) ==
  /\ AttemptLives(m)
  /\ OnTheWay(m) => m.desired.enabled
  /\ m.preparing # 0 => m.threads[m.preparing].path = m.desired.path
  /\ m.pending # Capture!NotPending => m.pending.path = m.desired.path

\* Where the database stands, for the requests in flight.
DatabaseStands(m) ==
  /\ \A r \in Capture!Pending : m.db = record[r]
  /\ Capture!Pending # {} => m.state \in {"enabled", "disabling"}
  /\ m.state = "enabled" =>
       m.accepting /\ m.db \in Paths /\ (m.db = m.desired.path \/ m.restart)
  /\ m.state = "disabling" => m.db \in Paths /\ Capture!Pending # {}
  /\ m.state \in {"enabled", "disabling"} => m.active = m.db
  /\ m.state \notin {"enabled", "disabling"} => m.db = Capture!None

\* Where Capture stands towards the settings.
SettingsStand(m) ==
  IF m.desired.enabled THEN m.state \in {"enabled", "error"} \/ OnTheWay(m)
  ELSE m.state \in {"disabled", "disabling"}

ManagerOK(m) ==
  /\ ManagerType(m) /\ AttemptOK(m)
  /\ m.accepting => m.state = "enabled"

CaptureInv ==
  /\ ManagerOK(manager)
  /\ record \in [Records -> Paths \cup {Capture!None, "saved"}] /\ redisabled \in BOOLEAN
  /\ ~manager.started =>
       ~manager.accepting /\ manager.state = "disabled" /\ manager.db = Capture!None
       /\ manager.threads = <<>> /\ ~OnTheWay(manager) /\ Capture!Pending = {} /\ ~redisabled
  /\ ~manager.closed /\ ~redisabled =>
       DatabaseStands(manager) /\ (manager.started => SettingsStand(manager))

------------------------
(* What the calls make of a manager *)

SameDatabase(x, m) ==
  x.db = m.db /\ x.active = m.active /\ x.accepting = m.accepting /\ x.restart = m.restart

SameWorker(x, m) == x.desired = m.desired /\ x.started = m.started /\ x.closed = m.closed

SameThreads(x, m) == x.preparing = m.preparing /\ x.threads = m.threads

LEMMA CancelPendingFields ==
  ASSUME NEW m, ManagerType(m), NEW x, x = Capture!CancelPendingEnable(m)
  PROVE  /\ ManagerType(x) /\ x.pending = Capture!NotPending /\ x.state = m.state
         /\ SameDatabase(x, m) /\ SameWorker(x, m) /\ SameThreads(x, m)
<1>1. /\ IsManager(x) /\ x.pending = Capture!NotPending /\ x.state = m.state
      /\ SameDatabase(x, m) /\ SameWorker(x, m) /\ SameThreads(x, m)
  BY DEF Capture!CancelPendingEnable, ManagerType, IsManager, SameDatabase, SameWorker, SameThreads
<1> QED
  BY <1>1 DEF ManagerType, SameDatabase, SameWorker, SameThreads

\* The sequence of the threads with a thread changed.
LEMMA ThreadChanged ==
  ASSUME NEW s \in Seq(ThreadState), NEW i \in DOMAIN s, NEW t \in ThreadState
  PROVE  /\ [s EXCEPT ![i] = t] \in Seq(ThreadState)
         /\ Len([s EXCEPT ![i] = t]) = Len(s)
         /\ [s EXCEPT ![i] = t][i] = t
         /\ \A j \in DOMAIN s : j # i => [s EXCEPT ![i] = t][j] = s[j]
  OBVIOUS

LEMMA CancelIndexFields ==
  ASSUME NEW m, ManagerType(m), NEW fault, NEW x, x = Capture!CancelIndexPreparation(m, fault)
  PROVE  /\ ManagerType(x) /\ x.preparing = 0 /\ x.pending = m.pending /\ x.state = m.state
         /\ SameDatabase(x, m) /\ SameWorker(x, m)
<1>1. CASE m.preparing = 0
  BY <1>1 DEF Capture!CancelIndexPreparation, ManagerType, SameDatabase, SameWorker
<1>2. CASE m.preparing # 0
  <2> DEFINE i == m.preparing
             t == [m.threads[i] EXCEPT !.cancelled = TRUE, !.unstoppable = (fault = "terminate")]
             s == [m.threads EXCEPT ![i] = t]
  <2>1. m.threads \in Seq(ThreadState) /\ i \in DOMAIN m.threads
    BY <1>2 DEF ManagerType
  <2>2. m.threads[i] \in ThreadState
    BY <2>1
  <2>3. t \in ThreadState
    BY <2>2 DEF ThreadState
  <2>4. s \in Seq(ThreadState) /\ Len(s) = Len(m.threads)
    <3> HIDE DEF t
    <3> QED BY <2>1, <2>3, ThreadChanged
  <2>5. x = [m EXCEPT !.preparing = 0, !.threads = s]
    BY <1>2, <2>1, <2>2 DEF Capture!CancelIndexPreparation, ManagerType, IsManager, ThreadState
  <2> HIDE DEF s
  <2>6. /\ IsManager(x) /\ x.preparing = 0 /\ x.threads = s /\ x.pending = m.pending
        /\ x.state = m.state /\ SameDatabase(x, m) /\ SameWorker(x, m)
    BY <2>5 DEF ManagerType, IsManager, SameDatabase, SameWorker
  <2> QED
    BY <2>4, <2>6 DEF ManagerType, SameDatabase, SameWorker
<1> QED
  BY <1>1, <1>2

\* What was under way is called off.
LEMMA CalledOffFields ==
  ASSUME NEW m, ManagerType(m), NEW fault, NEW x,
         x = Capture!CancelIndexPreparation(Capture!CancelPendingEnable(m), fault)
  PROVE  /\ ManagerType(x) /\ ~OnTheWay(x) /\ x.state = m.state
         /\ SameDatabase(x, m) /\ SameWorker(x, m)
<1> DEFINE y == Capture!CancelPendingEnable(m)
<1>1. /\ ManagerType(y) /\ y.pending = Capture!NotPending /\ y.state = m.state
      /\ SameDatabase(y, m) /\ SameWorker(y, m)
  BY CancelPendingFields
<1> HIDE DEF y
<1>2. x = Capture!CancelIndexPreparation(y, fault)
  BY DEF y
<1> QED
  BY <1>1, <1>2, CancelIndexFields DEF OnTheWay, SameDatabase, SameWorker

\* Capture records in a database.
LEMMA FinishFields ==
  ASSUME NEW m, ManagerType(m), NEW target \in Paths, NEW x,
         x = Capture!FinishEnable(Capture!OpenDatabase(m, target), target)
  PROVE  /\ ManagerType(x) /\ SameWorker(x, m) /\ SameThreads(x, m) /\ x.pending = m.pending
         /\ x.state = "enabled" /\ x.accepting /\ x.db = target /\ x.active = target
<1>1. /\ IsManager(x) /\ SameWorker(x, m) /\ SameThreads(x, m) /\ x.pending = m.pending
      /\ x.state = "enabled" /\ x.accepting = TRUE /\ x.db = target /\ x.active = target
      /\ x.restart = FALSE
  BY DEF Capture!FinishEnable, Capture!OpenDatabase, ManagerType, IsManager, SameWorker, SameThreads
<1> QED
  BY <1>1 DEF ManagerType, SameWorker, SameThreads

\* A preparation that fails leaves the database as it is.
LEMMA FailFields ==
  ASSUME NEW m, ManagerType(m), NEW x, x = Capture!FailIndexPreparation(m)
  PROVE  /\ ManagerType(x) /\ SameWorker(x, m) /\ SameThreads(x, m) /\ x.pending = m.pending
         /\ x.state = "error" /\ ~x.accepting /\ x.db = m.db
<1>1. /\ IsManager(x) /\ SameWorker(x, m) /\ SameThreads(x, m) /\ x.pending = m.pending
      /\ x.state = "error" /\ x.accepting = FALSE /\ x.db = m.db /\ x.restart = m.restart
  BY DEF Capture!FailIndexPreparation, ManagerType, IsManager, SameWorker, SameThreads
<1> QED
  BY <1>1 DEF ManagerType, SameWorker, SameThreads

\* A thread of its own is started for a database.
LEMMA SpawnFields ==
  ASSUME NEW m, ManagerType(m), NEW target \in Paths, NEW fault, fault # "spawn", NEW x,
         x = Capture!StartIndexPreparation(m, target, fault)
  PROVE  /\ ManagerType(x) /\ SameWorker(x, m) /\ SameDatabase(x, m) /\ x.pending = m.pending
         /\ x.state = m.state /\ x.preparing # 0 /\ x.threads[x.preparing] = Capture!Thread(target)
<1> DEFINE s == Append(m.threads, Capture!Thread(target))
<1>1. Capture!Thread(target) \in ThreadState
  BY DEF Capture!Thread, ThreadState
<1>2. m.threads \in Seq(ThreadState)
  BY DEF ManagerType
<1>3. s \in Seq(ThreadState) /\ Len(s) = Len(m.threads) + 1
      /\ s[Len(m.threads) + 1] = Capture!Thread(target)
  <2> HIDE DEF Capture!Thread
  <2> QED BY <1>1, <1>2
<1> HIDE DEF s
<1>4. x = [m EXCEPT !.threads = s, !.preparing = Len(m.threads) + 1]
  BY DEF Capture!StartIndexPreparation, ManagerType, IsManager, s
<1>5. /\ IsManager(x) /\ SameWorker(x, m) /\ SameDatabase(x, m) /\ x.pending = m.pending
      /\ x.state = m.state /\ x.threads = s /\ x.preparing = Len(m.threads) + 1
  BY <1>4 DEF ManagerType, IsManager, SameDatabase, SameWorker
<1>6. Len(m.threads) \in Nat
  BY <1>2
<1> QED
  BY <1>3, <1>5, <1>6 DEF ManagerType, SameDatabase, SameWorker

\* An attempt to enable Capture: it is on its way already, it waits or is prepared, it
\* fails, or Capture records.
LEMMA EnableFields ==
  ASSUME Capture!PathsApart, NEW m, ManagerType(m), AttemptLives(m), m.desired.enabled,
         NEW fault, NEW x, x = Capture!EnableFromConfig(m, fault)
  PROVE  /\ ManagerType(x) /\ AttemptOK(x) /\ SameWorker(x, m)
         /\ \/ x = m /\ OnTheWay(m)
            \/ x.state = "enabling" /\ OnTheWay(x) /\ SameDatabase(x, m)
            \/ x.state = "error" /\ ~x.accepting /\ x.db \in {Capture!None, m.db}
            \/ x.state = "enabled" /\ x.accepting /\ x.db = m.desired.path /\ x.active = x.db
<1> DEFINE target == m.desired.path
           off == Capture!CancelIndexPreparation(Capture!CancelPendingEnable(m), fault)
           cleared == [off EXCEPT !.state = "enabling"]
<1>1. target \in Paths
  BY DEF ManagerType, Capture!Settings
<1>2. ManagerType(off) /\ ~OnTheWay(off) /\ SameDatabase(off, m) /\ SameWorker(off, m)
  BY CalledOffFields
<1>3. /\ ManagerType(cleared) /\ ~OnTheWay(cleared) /\ cleared.state = "enabling"
      /\ SameDatabase(cleared, m) /\ SameWorker(cleared, m)
  <2> HIDE DEF off
  <2> DEFINE y == cleared
  <2>1. /\ IsManager(y) /\ y.state = "enabling" /\ SameDatabase(y, off) /\ SameWorker(y, off)
        /\ SameThreads(y, off) /\ y.pending = off.pending
    BY <1>2 DEF ManagerType, IsManager, SameDatabase, SameWorker, SameThreads
  <2> HIDE DEF y
  <2> QED
    BY <1>2, <2>1 DEF y, ManagerType, OnTheWay, SameDatabase, SameWorker, SameThreads
<1>4. CASE Capture!OnItsWay(m, target)
  <2>1. x = m
    BY <1>4 DEF Capture!EnableFromConfig
  <2>2. OnTheWay(m)
    BY <1>1, <1>4 DEF Capture!OnItsWay, OnTheWay, Capture!NotPending, Capture!PathsApart
  <2>3. AttemptOK(m)
    BY <1>1, <1>4
    DEF AttemptOK, AttemptLives, Capture!OnItsWay, Capture!NotPending, Capture!PathsApart
  <2> QED
    BY <2>1, <2>2, <2>3 DEF SameWorker
<1>5. CASE ~Capture!OnItsWay(m, target) /\ Capture!Unsettled(cleared) # {}
  <2> DEFINE p == [path |-> target, blockers |-> Capture!Unsettled(cleared)]
  <2>1. x = [cleared EXCEPT !.pending = p]
    BY <1>5 DEF Capture!EnableFromConfig
  <2>2. p # Capture!NotPending /\ p.path = target
    BY <1>1 DEF Capture!NotPending, Capture!PathsApart
  <2> HIDE DEF cleared, p
  <2>3. /\ IsManager(x) /\ x.pending = p /\ x.state = cleared.state
        /\ SameDatabase(x, cleared) /\ SameWorker(x, cleared) /\ SameThreads(x, cleared)
    BY <1>3, <2>1 DEF ManagerType, IsManager, SameDatabase, SameWorker, SameThreads
  <2> QED
    BY <1>3, <2>2, <2>3
    DEF ManagerType, AttemptOK, AttemptLives, OnTheWay, SameDatabase, SameWorker, SameThreads
<1>6. CASE ~Capture!OnItsWay(m, target) /\ Capture!Unsettled(cleared) = {} /\ fault = "open"
  <2>1. x = [cleared EXCEPT !.accepting = FALSE, !.db = Capture!None, !.active = Capture!None,
                            !.state = "error"]
    BY <1>6 DEF Capture!EnableFromConfig
  <2> HIDE DEF cleared
  <2>2. /\ IsManager(x) /\ x.pending = cleared.pending /\ x.state = "error"
        /\ x.accepting = FALSE /\ x.db = Capture!None /\ x.restart = cleared.restart
        /\ SameWorker(x, cleared) /\ SameThreads(x, cleared)
    BY <1>3, <2>1 DEF ManagerType, IsManager, SameWorker, SameThreads
  <2> QED
    BY <1>3, <2>2 DEF ManagerType, AttemptOK, AttemptLives, OnTheWay, SameWorker, SameThreads
<1>7. CASE /\ ~Capture!OnItsWay(m, target) /\ Capture!Unsettled(cleared) = {}
             /\ fault # "open" /\ Capture!Openable(cleared, target)
  <2>1. x = Capture!FinishEnable(Capture!OpenDatabase(cleared, target), target)
    BY <1>7 DEF Capture!EnableFromConfig
  <2> HIDE DEF cleared
  <2>2. /\ ManagerType(x) /\ SameWorker(x, cleared) /\ SameThreads(x, cleared)
        /\ x.pending = cleared.pending
        /\ x.state = "enabled" /\ x.accepting /\ x.db = target /\ x.active = target
    BY <1>1, <1>3, <2>1, FinishFields
  <2> QED
    BY <1>3, <2>2 DEF AttemptOK, AttemptLives, OnTheWay, SameWorker, SameThreads
<1>8. CASE /\ ~Capture!OnItsWay(m, target) /\ Capture!Unsettled(cleared) = {}
             /\ fault # "open" /\ ~Capture!Openable(cleared, target)
  <2>1. x = Capture!StartIndexPreparation(cleared, target, fault)
    BY <1>8 DEF Capture!EnableFromConfig
  <2> HIDE DEF cleared
  <2>2. CASE fault = "spawn"
    <3>1. x = Capture!FailIndexPreparation(cleared)
      BY <2>1, <2>2 DEF Capture!StartIndexPreparation
    <3>2. /\ ManagerType(x) /\ SameWorker(x, cleared) /\ SameThreads(x, cleared)
          /\ x.pending = cleared.pending /\ x.state = "error" /\ ~x.accepting
          /\ x.db = cleared.db
      BY <1>3, <3>1, FailFields
    <3> QED
      BY <1>3, <3>2 DEF AttemptOK, AttemptLives, OnTheWay, SameDatabase, SameWorker, SameThreads
  <2>3. CASE fault # "spawn"
    <3>1. /\ ManagerType(x) /\ SameWorker(x, cleared) /\ SameDatabase(x, cleared)
          /\ x.pending = cleared.pending /\ x.state = cleared.state
          /\ x.preparing # 0 /\ x.threads[x.preparing] = Capture!Thread(target)
      BY <1>1, <1>3, <2>1, <2>3, SpawnFields
    <3>2. /\ Capture!Thread(target).path = target
          /\ ~Capture!Thread(target).cancelled /\ ~Capture!Thread(target).settled
      BY DEF Capture!Thread
    <3> QED
      BY <1>3, <3>1, <3>2 DEF AttemptOK, AttemptLives, OnTheWay, SameDatabase, SameWorker
  <2> QED BY <2>2, <2>3
<1> QED
  BY <1>4, <1>5, <1>6, <1>7, <1>8

\* An attempt to enable Capture where no database is open and no request is in flight.
LEMMA EnableStands ==
  ASSUME Capture!PathsApart, NEW m, ManagerType(m), AttemptLives(m), m.desired.enabled,
         ~m.accepting,
         NEW fault, NEW x, x = Capture!EnableFromConfig(m, fault)
  PROVE  /\ ManagerOK(x) /\ SameWorker(x, m)
         /\ DatabaseStands(m) /\ Capture!Pending = {} /\ m.db = Capture!None
              => DatabaseStands(x) /\ SettingsStand(x)
<1>2. /\ ManagerType(x) /\ AttemptOK(x) /\ SameWorker(x, m)
      /\ \/ x = m /\ OnTheWay(m)
         \/ x.state = "enabling" /\ OnTheWay(x) /\ SameDatabase(x, m)
         \/ x.state = "error" /\ ~x.accepting /\ x.db \in {Capture!None, m.db}
         \/ x.state = "enabled" /\ x.accepting /\ x.db = m.desired.path /\ x.active = x.db
  BY EnableFields
<1>3. m.desired.path \in Paths
  BY DEF ManagerType, Capture!Settings
<1>4. x.accepting => x.state = "enabled"
  BY <1>2 DEF SameDatabase
<1>5. ManagerOK(x)
  BY <1>2, <1>4 DEF ManagerOK
<1>6. ASSUME DatabaseStands(m), Capture!Pending = {}, m.db = Capture!None
      PROVE  DatabaseStands(x) /\ SettingsStand(x)
  <2>1. CASE x = m /\ OnTheWay(m)
    BY <1>6, <2>1 DEF SettingsStand
  <2>2. CASE x.state = "enabling" /\ OnTheWay(x) /\ SameDatabase(x, m)
    BY <1>2, <1>6, <2>2 DEF SettingsStand, DatabaseStands, SameDatabase, SameWorker
  <2>3. CASE x.state = "error" /\ ~x.accepting /\ x.db \in {Capture!None, m.db}
    BY <1>2, <1>6, <2>3 DEF SettingsStand, DatabaseStands, SameWorker
  <2>4. CASE x.state = "enabled" /\ x.accepting /\ x.db = m.desired.path /\ x.active = x.db
    BY <1>2, <1>3, <1>6, <2>4 DEF SettingsStand, DatabaseStands, SameWorker
  <2> QED BY <1>2, <2>1, <2>2, <2>3, <2>4
<1> QED
  BY <1>2, <1>5, <1>6

------------------------
(* The invariant *)

LEMMA CaptureInit == Capture!PathsApart /\ Capture!Init => CaptureInv
<1> SUFFICES ASSUME Capture!PathsApart, Capture!Init PROVE CaptureInv
  OBVIOUS
<1>1. PICK settings \in Capture!Settings, files \in [Paths -> {"empty", "unindexed"}] :
        manager = [desired |-> settings, file |-> files, active |-> Capture!None,
                   db |-> Capture!None, accepting |-> FALSE, state |-> "disabled",
                   restart |-> FALSE, preparing |-> 0, threads |-> <<>>,
                   pending |-> Capture!NotPending, started |-> FALSE, closed |-> FALSE]
  BY DEF Capture!Init
<1>2. record = [r \in Records |-> Capture!None] /\ redisabled = FALSE
  BY DEF Capture!Init
<1>3. Capture!Pending = {}
  BY <1>2 DEF Capture!Pending, Capture!PathsApart
<1>4. /\ IsManager(manager) /\ manager.desired \in Capture!Settings /\ manager.db = Capture!None
      /\ manager.accepting = FALSE /\ manager.state = "disabled" /\ manager.restart = FALSE
      /\ manager.preparing = 0 /\ manager.threads = <<>> /\ manager.pending = Capture!NotPending
      /\ manager.started = FALSE /\ manager.closed = FALSE
  BY <1>1 DEF IsManager
<1>5. <<>> \in Seq(ThreadState) /\ Len(<<>>) = 0
  OBVIOUS
<1>6. ManagerOK(manager)
  <2>1. ManagerType(manager)
    <3>1. manager.threads \in Seq(ThreadState) /\ Len(manager.threads) = 0
      BY <1>4, <1>5
    <3>2. manager.preparing \in 0..Len(manager.threads)
      BY <1>4, <3>1
    <3> QED
      BY <1>4, <3>1, <3>2 DEF ManagerType
  <2>2. ~OnTheWay(manager) /\ AttemptOK(manager)
    BY <1>4 DEF AttemptOK, AttemptLives, OnTheWay
  <2> QED
    BY <1>4, <2>1, <2>2 DEF ManagerOK
<1> QED
  BY <1>2, <1>3, <1>4, <1>6 DEF CaptureInv, DatabaseStands, OnTheWay

\* What is said of a manager is kept by a step that leaves it and the requests alone.
LEMMA StandsPrimed ==
  ASSUME UNCHANGED record
  PROVE  /\ Capture!Pending' = Capture!Pending
         /\ ManagerOK(manager)' <=> ManagerOK(manager')
         /\ DatabaseStands(manager)' <=> DatabaseStands(manager')
  BY DEF Capture!Pending, DatabaseStands, ManagerOK, ManagerType, AttemptOK, AttemptLives,
      OnTheWay, IsManager

LEMMA StartKeeps == Capture!PathsApart /\ CaptureInv /\ Capture!Start => CaptureInv'
<1> SUFFICES ASSUME Capture!PathsApart, CaptureInv, Capture!Start PROVE CaptureInv'
  OBVIOUS
<1>1. PICK fault \in Capture!Faults :
        LET m == IF manager.desired.enabled THEN Capture!EnableFromConfig(manager, fault)
                 ELSE manager
        IN /\ ~manager.started /\ ~manager.closed
           /\ manager' = [m EXCEPT !.started = TRUE,
                                   !.closed = fault = "open" /\ m.state = "error"]
           /\ UNCHANGED <<record, applies, redisabled>>
  BY DEF Capture!Start
<1> DEFINE m == IF manager.desired.enabled THEN Capture!EnableFromConfig(manager, fault)
                ELSE manager
<1>2. /\ ManagerOK(manager) /\ ~manager.accepting /\ manager.state = "disabled"
      /\ manager.db = Capture!None /\ ~OnTheWay(manager) /\ Capture!Pending = {} /\ ~redisabled
      /\ DatabaseStands(manager)
  BY <1>1 DEF CaptureInv
<1>3. ManagerOK(m) /\ DatabaseStands(m) /\ SettingsStand(m)
  <2>1. CASE manager.desired.enabled
    BY <1>2, <2>1, EnableStands DEF ManagerOK, AttemptOK
  <2>2. CASE ~manager.desired.enabled
    BY <1>2, <2>2 DEF SettingsStand
  <2> QED BY <2>1, <2>2
<1>4. UNCHANGED <<record, redisabled>>
  BY <1>1
<1>5. manager' = [m EXCEPT !.started = TRUE, !.closed = (fault = "open" /\ m.state = "error")]
  BY <1>1
<1> HIDE DEF m
<1>6. (fault = "open" /\ m.state = "error") \in BOOLEAN
  OBVIOUS
<1>7. /\ IsManager(manager') /\ manager'.started = TRUE /\ manager'.closed \in BOOLEAN
      /\ manager'.desired = m.desired /\ manager'.state = m.state
      /\ manager'.pending = m.pending /\ SameDatabase(manager', m) /\ SameThreads(manager', m)
  BY <1>3, <1>5, <1>6
  DEF ManagerOK, ManagerType, IsManager, SameDatabase, SameThreads
<1>8. ManagerOK(manager') /\ DatabaseStands(manager') /\ SettingsStand(manager')
  BY <1>3, <1>7
  DEF ManagerOK, ManagerType, AttemptOK, AttemptLives, OnTheWay, DatabaseStands, SettingsStand,
      SameDatabase, SameThreads
<1>9. SettingsStand(manager)' <=> SettingsStand(manager')
  BY DEF SettingsStand, OnTheWay
<1> QED
  BY <1>4, <1>7, <1>8, <1>9, StandsPrimed DEF CaptureInv

\* A step that makes another manager of the started one, which the invariant holds of.
LEMMA StandsOn ==
  ASSUME CaptureInv, UNCHANGED record, redisabled' \in BOOLEAN, manager.started,
         ManagerOK(manager'), manager'.started = manager.started,
         ~manager'.closed /\ ~redisabled' => DatabaseStands(manager') /\ SettingsStand(manager')
  PROVE  CaptureInv'
<1>1. SettingsStand(manager)' <=> SettingsStand(manager')
  BY DEF SettingsStand, OnTheWay
<1> QED
  BY <1>1, StandsPrimed DEF CaptureInv

LEMMA DesiringFields ==
  ASSUME NEW m, ManagerOK(m), NEW next \in Capture!Settings, NEW x, x = Capture!Desiring(m, next)
  PROVE  /\ ManagerType(x) /\ x.state = m.state /\ x.pending = m.pending
         /\ SameThreads(x, m) /\ x.db = m.db /\ x.active = m.active
         /\ x.accepting = m.accepting /\ x.started = m.started /\ x.closed = m.closed
         /\ x.desired = next
         /\ x.restart = (m.active # Capture!None /\ (m.active # next.path \/ m.restart))
<1>1. (m.active # Capture!None /\ (m.active # next.path \/ m.restart)) \in BOOLEAN
  OBVIOUS
<1>2. /\ IsManager(x) /\ x.state = m.state /\ x.pending = m.pending
      /\ SameThreads(x, m) /\ x.db = m.db /\ x.active = m.active
      /\ x.accepting = m.accepting /\ x.started = m.started /\ x.closed = m.closed
      /\ x.desired = next
      /\ x.restart = (m.active # Capture!None /\ (m.active # next.path \/ m.restart))
  BY DEF Capture!Desiring, ManagerOK, ManagerType, IsManager, SameThreads
<1> QED
  BY <1>1, <1>2 DEF ManagerOK, ManagerType, SameThreads

LEMMA DisableFields ==
  ASSUME NEW m, ManagerType(m), NEW x, x = Capture!DisableRecording(m)
  PROVE  /\ ManagerType(x) /\ SameWorker(x, m) /\ SameThreads(x, m) /\ x.pending = m.pending
         /\ ~x.accepting
         /\ IF m.db # Capture!None /\ Capture!Pending # {}
            THEN x.state = "disabling" /\ x.db = m.db /\ x.active = m.active
            ELSE x.state = "disabled" /\ x.db = Capture!None
<1>1. /\ IsManager(x) /\ SameWorker(x, m) /\ SameThreads(x, m) /\ x.pending = m.pending
      /\ x.accepting = FALSE /\ x.restart = m.restart
      /\ IF m.db # Capture!None /\ Capture!Pending # {}
         THEN x.state = "disabling" /\ x.db = m.db /\ x.active = m.active
         ELSE x.state = "disabled" /\ x.db = Capture!None
  BY DEF Capture!DisableRecording, ManagerType, IsManager, SameWorker, SameThreads
<1> QED
  BY <1>1 DEF ManagerType, SameWorker, SameThreads

LEMMA ApplyKeeps == Capture!PathsApart /\ CaptureInv /\ Capture!Apply => CaptureInv'
<1> SUFFICES ASSUME Capture!PathsApart, CaptureInv, Capture!Apply PROVE CaptureInv'
  OBVIOUS
<1>1. PICK next \in Capture!Settings, fault \in Capture!Faults :
        /\ manager.started /\ ~manager.closed
        /\ manager' = Capture!ApplyRuntimeConfig(manager, next, fault)
        /\ redisabled' = (redisabled \/ (~next.enabled /\ manager.state = "disabling"))
        /\ UNCHANGED record
  BY DEF Capture!Apply
<1> DEFINE d == Capture!Desiring(manager, next)
           off == Capture!CancelIndexPreparation(Capture!CancelPendingEnable(d), fault)
           x == Capture!ApplyRuntimeConfig(manager, next, fault)
<1>2. /\ ManagerOK(manager)
      /\ ~redisabled => DatabaseStands(manager) /\ SettingsStand(manager)
  BY <1>1 DEF CaptureInv
<1>3. /\ ManagerType(d) /\ d.state = manager.state /\ d.pending = manager.pending
      /\ SameThreads(d, manager) /\ d.db = manager.db /\ d.active = manager.active
      /\ d.accepting = manager.accepting /\ d.started = manager.started
      /\ d.closed = manager.closed /\ d.desired = next
      /\ d.restart = (manager.active # Capture!None
                       /\ (manager.active # next.path \/ manager.restart))
  BY <1>2, DesiringFields
<1>4. /\ ManagerType(off) /\ ~OnTheWay(off) /\ off.state = d.state
      /\ SameDatabase(off, d) /\ SameWorker(off, d)
  <2> HIDE DEF d
  <2> QED BY <1>3, CalledOffFields
<1>5. AttemptLives(d) /\ (d.accepting => d.state = "enabled")
  <2> HIDE DEF d
  <2> QED BY <1>2, <1>3 DEF ManagerOK, AttemptOK, AttemptLives, OnTheWay, SameThreads
\* The database stands as it did; a database that is open already has its restart announced.
<1>6. ~redisabled => DatabaseStands(d)
  <2> HIDE DEF d
  <2> QED BY <1>2, <1>3 DEF DatabaseStands, ManagerOK, ManagerType, Capture!PathsApart
<1>7. /\ ManagerOK(x) /\ x.started = d.started
      /\ ~redisabled' => DatabaseStands(x) /\ SettingsStand(x)
  <2>1. CASE next.enabled /\ d.accepting
    <3>1. x = d
      BY <2>1 DEF Capture!ApplyRuntimeConfig
    <3> HIDE DEF d, x
    <3>2. ~OnTheWay(d)
      BY <1>5, <2>1 DEF AttemptLives
    <3>3. ManagerOK(d)
      BY <1>3, <1>5, <3>2 DEF ManagerOK, AttemptOK, OnTheWay
    <3> QED
      BY <1>1, <1>3, <1>5, <1>6, <2>1, <3>1, <3>3 DEF SettingsStand
  <2>2. CASE next.enabled /\ ~d.accepting /\ d.state = "disabling"
    <3>1. x = [d EXCEPT !.accepting = TRUE, !.state = "enabled"]
      BY <2>2 DEF Capture!ApplyRuntimeConfig
    <3> HIDE DEF d, x
    <3>2. /\ IsManager(x) /\ SameWorker(x, d) /\ SameThreads(x, d) /\ x.pending = d.pending
          /\ x.db = d.db /\ x.active = d.active /\ x.restart = d.restart
          /\ x.accepting = TRUE /\ x.state = "enabled"
      BY <1>3, <3>1 DEF ManagerType, IsManager, SameWorker, SameThreads
    <3>3. ManagerType(x)
      BY <1>3, <3>2 DEF ManagerType, SameWorker, SameThreads
    <3>4. ~OnTheWay(d) /\ ~OnTheWay(x)
      BY <1>5, <2>2, <3>2 DEF AttemptLives, OnTheWay, SameThreads
    <3>5. ManagerOK(x)
      BY <3>2, <3>3, <3>4 DEF ManagerOK, AttemptOK, AttemptLives, OnTheWay
    <3>6. ~redisabled => DatabaseStands(x) /\ SettingsStand(x)
      <4> SUFFICES ASSUME ~redisabled PROVE DatabaseStands(x) /\ SettingsStand(x)
        OBVIOUS
      <4>1. d.db \in Paths /\ d.active = d.db
        BY <1>6, <2>2 DEF DatabaseStands
      <4>2. d.db = d.desired.path \/ d.restart
        BY <1>3, <4>1 DEF Capture!PathsApart
      <4> QED
        BY <1>3, <1>6, <2>2, <3>2, <4>1, <4>2 DEF DatabaseStands, SettingsStand, SameWorker
    <3> QED
      BY <1>1, <3>2, <3>5, <3>6 DEF SameWorker
  <2>3. CASE next.enabled /\ ~d.accepting /\ d.state # "disabling"
    <3>1. x = Capture!EnableFromConfig(d, fault)
      BY <2>3 DEF Capture!ApplyRuntimeConfig
    <3> HIDE DEF d, x
    <3>2. /\ ManagerOK(x) /\ SameWorker(x, d)
          /\ DatabaseStands(d) /\ Capture!Pending = {} /\ d.db = Capture!None
              => DatabaseStands(x) /\ SettingsStand(x)
      BY <1>3, <1>5, <2>3, <3>1, EnableStands
    <3>3. ~redisabled => DatabaseStands(d) /\ Capture!Pending = {} /\ d.db = Capture!None
      BY <1>6, <2>3 DEF DatabaseStands
    <3> QED
      BY <1>1, <3>2, <3>3 DEF SameWorker
  <2>4. CASE ~next.enabled /\ (d.accepting \/ d.state \in {"enabled", "error"})
    <3>1. x = Capture!DisableRecording(off)
      BY <2>4 DEF Capture!ApplyRuntimeConfig
    <3> HIDE DEF d, off, x
    <3>2. /\ ManagerType(x) /\ SameWorker(x, off) /\ SameThreads(x, off)
          /\ x.pending = off.pending /\ ~x.accepting
          /\ IF off.db # Capture!None /\ Capture!Pending # {}
             THEN x.state = "disabling" /\ x.db = off.db /\ x.active = off.active
             ELSE x.state = "disabled" /\ x.db = Capture!None
      BY <1>4, <3>1, DisableFields
    <3>3. ManagerOK(x)
      BY <1>4, <3>2 DEF ManagerOK, AttemptOK, AttemptLives, OnTheWay, SameThreads
    <3>4. ~redisabled => DatabaseStands(x)
      BY <1>4, <1>6, <3>2 DEF DatabaseStands, SameDatabase, ManagerType, Capture!PathsApart
    <3>5. SettingsStand(x)
      BY <1>3, <1>4, <2>4, <3>2 DEF SettingsStand, SameWorker
    <3> QED
      BY <1>1, <1>4, <3>2, <3>3, <3>4, <3>5 DEF SameWorker
  <2>5. CASE ~next.enabled /\ ~(d.accepting \/ d.state \in {"enabled", "error"})
    <3>1. x = [off EXCEPT !.state = "disabled", !.restart = FALSE]
      BY <2>5 DEF Capture!ApplyRuntimeConfig
    <3> HIDE DEF d, off, x
    <3>2. /\ IsManager(x) /\ SameWorker(x, off) /\ SameThreads(x, off) /\ x.pending = off.pending
          /\ x.db = off.db /\ x.active = off.active /\ x.accepting = off.accepting
          /\ x.restart = FALSE /\ x.state = "disabled"
      BY <1>4, <3>1 DEF ManagerType, IsManager, SameWorker, SameThreads
    <3>3. ManagerType(x)
      BY <1>4, <3>2 DEF ManagerType, SameWorker, SameThreads
    <3>4. ManagerOK(x)
      BY <1>4, <2>5, <3>2, <3>3
      DEF ManagerOK, AttemptOK, AttemptLives, OnTheWay, SameThreads, SameDatabase
    <3>5. SettingsStand(x)
      BY <1>3, <1>4, <2>5, <3>2 DEF SettingsStand, SameWorker
    \* A Capture that is disabled while it is being disabled is the case left out.
    <3>6. ~redisabled' => DatabaseStands(x)
      BY <1>1, <1>3, <1>4, <1>6, <2>5, <3>2 DEF DatabaseStands, SameDatabase
    <3> QED
      BY <1>4, <3>2, <3>4, <3>5, <3>6 DEF SameWorker
  <2> QED
    BY <2>1, <2>2, <2>3, <2>4, <2>5
<1>8. redisabled' \in BOOLEAN
  BY <1>1 DEF CaptureInv
<1>9. manager' = x
  BY <1>1
<1> HIDE DEF d, x
<1> QED
  BY <1>1, <1>3, <1>7, <1>8, <1>9, StandsOn

LEMMA PendingKeeps == Capture!PathsApart /\ CaptureInv /\ Capture!EnablePending => CaptureInv'
<1> SUFFICES ASSUME Capture!PathsApart, CaptureInv, Capture!EnablePending PROVE CaptureInv'
  OBVIOUS
<1>1. PICK fault \in Capture!Faults :
        /\ manager.pending # Capture!NotPending
        /\ manager' = IF ~Capture!CancelPendingEnable(manager).closed
                         /\ Capture!CancelPendingEnable(manager).desired.enabled
                         /\ Capture!CancelPendingEnable(manager).desired.path = manager.pending.path
                        THEN Capture!EnableFromConfig(Capture!CancelPendingEnable(manager), fault)
                        ELSE Capture!CancelPendingEnable(manager)
        /\ UNCHANGED <<record, redisabled>>
  BY DEF Capture!EnablePending
<1> DEFINE m == Capture!CancelPendingEnable(manager)
<1>2. ManagerOK(manager) /\ manager.state = "enabling" /\ ~manager.accepting /\ manager.started
      /\ manager.preparing = 0
      /\ manager.desired.enabled /\ manager.pending.path = manager.desired.path
  BY <1>1 DEF CaptureInv, ManagerOK, AttemptOK, AttemptLives, OnTheWay
<1>3. /\ ManagerType(m) /\ m.pending = Capture!NotPending /\ m.state = manager.state
      /\ SameDatabase(m, manager) /\ SameWorker(m, manager) /\ SameThreads(m, manager)
  BY <1>2, CancelPendingFields DEF ManagerOK
<1> HIDE DEF m
<1>4. ~OnTheWay(m) /\ AttemptOK(m) /\ ManagerOK(m)
  BY <1>2, <1>3
  DEF ManagerOK, AttemptOK, AttemptLives, OnTheWay, SameThreads, SameDatabase
<1>5. ~manager.closed /\ ~redisabled
        => DatabaseStands(m) /\ Capture!Pending = {} /\ m.db = Capture!None
  BY <1>2, <1>3 DEF CaptureInv, DatabaseStands, SameDatabase
<1>6. CASE ~m.closed
  <2>1. manager' = Capture!EnableFromConfig(m, fault)
    BY <1>1, <1>2, <1>3, <1>6 DEF m, SameWorker
  <2>2. /\ ManagerOK(manager') /\ SameWorker(manager', m)
        /\ DatabaseStands(m) /\ Capture!Pending = {} /\ m.db = Capture!None
             => DatabaseStands(manager') /\ SettingsStand(manager')
    BY <1>2, <1>3, <1>4, <2>1, EnableStands DEF AttemptOK, SameDatabase, SameWorker
  <2> QED
    BY <1>1, <1>2, <1>3, <1>5, <2>2, StandsOn DEF SameWorker, CaptureInv
<1>7. CASE m.closed
  <2>1. manager' = m
    BY <1>1, <1>7 DEF m
  <2> QED
    BY <1>1, <1>2, <1>3, <1>4, <1>7, <2>1, StandsOn DEF SameWorker, CaptureInv
<1> QED
  BY <1>6, <1>7

LEMMA CloseKeeps == Capture!PathsApart /\ CaptureInv /\ Capture!Close => CaptureInv'
<1> SUFFICES ASSUME CaptureInv, Capture!Close PROVE CaptureInv'
  OBVIOUS
<1>1. PICK fault \in {"none", "terminate"} :
        /\ manager.started
        /\ manager' = [Capture!CancelIndexPreparation(Capture!CancelPendingEnable(manager), fault)
                         EXCEPT !.closed = TRUE, !.db = Capture!None]
        /\ UNCHANGED <<record, redisabled>>
  BY DEF Capture!Close
<1> DEFINE off == Capture!CancelIndexPreparation(Capture!CancelPendingEnable(manager), fault)
<1>2. ManagerType(off) /\ ~OnTheWay(off) /\ off.state = manager.state /\ SameDatabase(off, manager)
      /\ SameWorker(off, manager)
  BY CalledOffFields DEF CaptureInv, ManagerOK
<1>3. manager' = [off EXCEPT !.closed = TRUE, !.db = Capture!None]
  BY <1>1
<1> HIDE DEF off
<1>4. /\ IsManager(manager') /\ manager'.closed = TRUE /\ manager'.db = Capture!None
      /\ manager'.state = off.state /\ manager'.pending = off.pending
      /\ manager'.desired = off.desired /\ manager'.started = off.started
      /\ manager'.accepting = off.accepting /\ manager'.restart = off.restart
      /\ SameThreads(manager', off)
  BY <1>2, <1>3 DEF ManagerType, IsManager, SameThreads
<1>5. ManagerType(manager')
  BY <1>2, <1>4 DEF ManagerType, SameThreads
<1>6. ManagerOK(manager')
  BY <1>2, <1>4, <1>5
  DEF CaptureInv, ManagerOK, AttemptOK, AttemptLives, OnTheWay, SameThreads, SameDatabase
<1> QED
  BY <1>1, <1>2, <1>4, <1>6, StandsOn DEF SameWorker, CaptureInv

LEMMA BeginKeeps ==
  Capture!PathsApart /\ CaptureInv /\ (\E r \in Records : Capture!BeginRecord(r)) => CaptureInv'
<1> SUFFICES ASSUME Capture!PathsApart, CaptureInv, NEW r \in Records, Capture!BeginRecord(r)
             PROVE  CaptureInv'
  OBVIOUS
<1>1. /\ record[r] = Capture!None /\ manager.accepting /\ manager.db # Capture!None
      /\ record' = [record EXCEPT ![r] = manager.db] /\ UNCHANGED <<manager, redisabled>>
  BY DEF Capture!BeginRecord
<1>2. manager.db \in Paths /\ manager.state = "enabled" /\ manager.started
  BY <1>1 DEF CaptureInv, ManagerOK, ManagerType
<1>3. record \in [Records -> Paths \cup {Capture!None, "saved"}]
  BY DEF CaptureInv
<1>4. /\ record' \in [Records -> Paths \cup {Capture!None, "saved"}] /\ record'[r] = manager.db
      /\ \A s \in Records : s # r => record'[s] = record[s]
  BY <1>1, <1>2, <1>3
<1>5. ~manager.closed /\ ~redisabled => DatabaseStands(manager)'
  <2> SUFFICES ASSUME ~manager.closed, ~redisabled PROVE DatabaseStands(manager)'
    OBVIOUS
  <2>1. DatabaseStands(manager)
    BY DEF CaptureInv
  <2>2. \A s \in Capture!Pending' : manager.db = record'[s]
    BY <1>4, <2>1 DEF DatabaseStands, Capture!Pending
  <2> QED
    BY <1>1, <1>2, <2>1, <2>2 DEF DatabaseStands
<1>6. ManagerOK(manager)' /\ SettingsStand(manager)' = SettingsStand(manager)
  BY <1>1 DEF CaptureInv, ManagerOK, ManagerType, AttemptOK, AttemptLives, OnTheWay, IsManager,
    SettingsStand
<1> QED
  BY <1>1, <1>2, <1>4, <1>5, <1>6 DEF CaptureInv

LEMMA SaveKeeps ==
  Capture!PathsApart /\ CaptureInv /\ (\E r \in Records : Capture!SaveRecord(r)) => CaptureInv'
<1> SUFFICES ASSUME Capture!PathsApart, CaptureInv, NEW r \in Records, Capture!SaveRecord(r)
             PROVE  CaptureInv'
  OBVIOUS
<1> DEFINE last == ~manager.accepting /\ Capture!Pending = {r} /\ manager.state = "disabling"
<1>1. /\ record[r] \in Paths /\ record' = [record EXCEPT ![r] = "saved"]
      /\ manager' = IF last
                      THEN [manager EXCEPT !.db = Capture!None, !.active = Capture!None,
                                             !.state = "disabled"]
                      ELSE manager
      /\ UNCHANGED redisabled
  BY DEF Capture!SaveRecord
<1>2. record \in [Records -> Paths \cup {Capture!None, "saved"}] /\ ManagerOK(manager)
  BY DEF CaptureInv
<1>3. /\ record' \in [Records -> Paths \cup {Capture!None, "saved"}] /\ record'[r] = "saved"
      /\ \A s \in Records : s # r => record'[s] = record[s]
  BY <1>1, <1>2
<1>4. Capture!Pending' = Capture!Pending \ {r} /\ r \in Capture!Pending
  BY <1>1, <1>3 DEF Capture!Pending, Capture!PathsApart
<1>5. manager.started
  BY <1>4 DEF CaptureInv
<1>6. /\ ManagerType(manager') /\ SameThreads(manager', manager)
      /\ manager'.pending = manager.pending /\ SameWorker(manager', manager)
      /\ manager'.accepting = manager.accepting /\ manager'.restart = manager.restart
      /\ IF last THEN manager'.db = Capture!None /\ manager'.state = "disabled"
         ELSE manager' = manager
  <2> HIDE DEF last
  <2>1. CASE last
    <3>1. manager' = [manager EXCEPT !.db = Capture!None, !.active = Capture!None,
                                       !.state = "disabled"]
      BY <1>1, <2>1
    <3>2. /\ IsManager(manager') /\ SameThreads(manager', manager)
          /\ manager'.pending = manager.pending /\ SameWorker(manager', manager)
          /\ manager'.accepting = manager.accepting /\ manager'.restart = manager.restart
          /\ manager'.db = Capture!None /\ manager'.state = "disabled"
      BY <1>2, <3>1 DEF ManagerOK, ManagerType, IsManager, SameThreads, SameWorker
    <3> QED
      BY <1>2, <2>1, <3>2 DEF ManagerOK, ManagerType, SameThreads, SameWorker
  <2>2. CASE ~last
    BY <1>1, <1>2, <2>2 DEF ManagerOK, SameThreads, SameWorker
  <2> QED BY <2>1, <2>2
<1>7. ManagerOK(manager')
  BY <1>2, <1>6 DEF ManagerOK, AttemptOK, AttemptLives, OnTheWay, SameThreads, SameWorker
<1>8. ASSUME ~manager.closed, ~redisabled
      PROVE  DatabaseStands(manager)' /\ SettingsStand(manager')
  <2>1. DatabaseStands(manager) /\ SettingsStand(manager)
    BY <1>5, <1>8 DEF CaptureInv
  <2>2. \A s \in Capture!Pending' : record'[s] = record[s] /\ manager.db = record[s]
    BY <1>3, <1>4, <2>1 DEF DatabaseStands, Capture!Pending
  <2>3. CASE last
    <3>1. Capture!Pending' = {}
      BY <1>4, <2>3
    <3>2. DatabaseStands(manager)'
      BY <1>6, <2>3, <3>1 DEF DatabaseStands
    <3>3. ~OnTheWay(manager)
      BY <1>2, <2>3 DEF ManagerOK, AttemptOK, AttemptLives
    <3> QED
      BY <1>6, <2>1, <2>3, <3>2, <3>3
      DEF SettingsStand, SameWorker
  <2>4. CASE ~last
    <3>1. manager.state = "disabling" => Capture!Pending' # {}
      BY <1>2, <1>4, <2>4 DEF ManagerOK
    <3>2. DatabaseStands(manager)'
      BY <1>4, <1>6, <2>1, <2>2, <2>4, <3>1 DEF DatabaseStands
    <3> QED
      BY <1>6, <2>1, <2>4, <3>2
  <2> QED BY <2>3, <2>4
<1>9. /\ ManagerOK(manager)' <=> ManagerOK(manager')
      /\ SettingsStand(manager)' <=> SettingsStand(manager')
  BY DEF ManagerOK, ManagerType, AttemptOK, AttemptLives, OnTheWay, IsManager, SettingsStand
<1> QED
  BY <1>1, <1>2, <1>3, <1>5, <1>6, <1>7, <1>8, <1>9 DEF CaptureInv, SameWorker

\* A thread changes, and perhaps a file.
WithThread(m, files, i, u) ==
  [m EXCEPT !.file = files, !.threads = [m.threads EXCEPT ![i] = u]]

LEMMA ThreadFields ==
  ASSUME NEW m, ManagerType(m), NEW i \in DOMAIN m.threads, NEW u \in ThreadState, NEW files,
         NEW x, x = WithThread(m, files, i, u)
  PROVE  /\ ManagerType(x) /\ SameDatabase(x, m) /\ SameWorker(x, m) /\ x.state = m.state
         /\ x.pending = m.pending /\ x.preparing = m.preparing
         /\ DOMAIN x.threads = DOMAIN m.threads /\ x.threads[i] = u
         /\ \A j \in DOMAIN m.threads : j # i => x.threads[j] = m.threads[j]
<1> DEFINE s == [m.threads EXCEPT ![i] = u]
<1>1. m.threads \in Seq(ThreadState)
  BY DEF ManagerType
<1>2. /\ s \in Seq(ThreadState) /\ Len(s) = Len(m.threads) /\ DOMAIN s = DOMAIN m.threads
      /\ s[i] = u /\ \A j \in DOMAIN m.threads : j # i => s[j] = m.threads[j]
  BY <1>1, ThreadChanged
<1>3. x = [m EXCEPT !.file = files, !.threads = s]
  BY DEF WithThread
<1> HIDE DEF s
<1>4. /\ IsManager(x) /\ SameDatabase(x, m) /\ SameWorker(x, m) /\ x.state = m.state
      /\ x.pending = m.pending /\ x.preparing = m.preparing /\ x.threads = s
  BY <1>3 DEF ManagerType, IsManager, SameDatabase, SameWorker
<1> QED
  BY <1>2, <1>4 DEF ManagerType, SameDatabase, SameWorker

\* A step of a thread whose preparation is not wanted any more keeps the invariant.
LEMMA OtherThreadKeeps ==
  ASSUME CaptureInv, NEW i \in DOMAIN manager.threads, NEW u \in ThreadState, NEW files,
         manager.preparing # i, UNCHANGED <<record, redisabled>>,
         manager' = WithThread(manager, files, i, u)
  PROVE  CaptureInv'
<1>1. ManagerOK(manager)
  BY DEF CaptureInv
<1> DEFINE x == manager'
<1>2. /\ ManagerType(x) /\ SameDatabase(x, manager) /\ SameWorker(x, manager)
      /\ x.state = manager.state
      /\ x.pending = manager.pending /\ x.preparing = manager.preparing
      /\ \A j \in DOMAIN manager.threads : j # i => x.threads[j] = manager.threads[j]
  <2>1. ManagerType(manager)
    BY <1>1 DEF ManagerOK
  <2> QED BY <2>1, ThreadFields
<1>3. manager' = x
  OBVIOUS
<1> HIDE DEF x
<1>4. manager.preparing # 0 => manager.preparing \in DOMAIN manager.threads
  BY <1>1 DEF ManagerOK, ManagerType
<1>5. manager.preparing # 0 => x.threads[x.preparing] = manager.threads[manager.preparing]
  BY <1>2, <1>4
<1>6. ManagerOK(x)
  BY <1>1, <1>2, <1>5
  DEF ManagerOK, AttemptOK, AttemptLives, OnTheWay, SameDatabase, SameWorker
<1>7. /\ DatabaseStands(manager) => DatabaseStands(x)
      /\ SettingsStand(manager) => SettingsStand(x)
  BY <1>2 DEF DatabaseStands, SettingsStand, OnTheWay, SameDatabase, SameWorker
<1>8. manager.started
  <2>1. ManagerType(manager)
    BY <1>1 DEF ManagerOK
  <2> QED BY <2>1 DEF CaptureInv
<1> QED
  BY <1>2, <1>3, <1>6, <1>7, <1>8, StandsOn DEF CaptureInv, SameWorker

LEMMA TerminationKeeps ==
  CaptureInv /\ (\E i \in DOMAIN manager.threads : Capture!TerminationEnds(i)) => CaptureInv'
<1> SUFFICES ASSUME CaptureInv, NEW i \in DOMAIN manager.threads, Capture!TerminationEnds(i)
             PROVE  CaptureInv'
  OBVIOUS
<1> DEFINE t == manager.threads[i]
<1>1. ManagerType(manager) /\ AttemptOK(manager)
  BY DEF CaptureInv, ManagerOK
<1>2. t \in ThreadState
  BY <1>1 DEF ManagerType
<1>3. t.cancelled /\ UNCHANGED <<record, redisabled>>
  BY DEF Capture!TerminationEnds
<1>4. manager.preparing # i
  <2>1. manager.threads \in Seq(ThreadState)
    BY <1>1 DEF ManagerType
  <2> QED BY <1>1, <1>3, <2>1 DEF AttemptOK, AttemptLives
<1>5. CASE manager' = [manager EXCEPT !.threads[i].settled = TRUE]
  <2> DEFINE u == [t EXCEPT !.settled = TRUE]
  <2>1. u \in ThreadState
    BY <1>2 DEF ThreadState
  <2>2. manager' = WithThread(manager, manager.file, i, u)
    BY <1>1, <1>5 DEF ManagerType, IsManager, WithThread
  <2> HIDE DEF u
  <2> QED BY <1>3, <1>4, <2>1, <2>2, OtherThreadKeeps
<1>6. CASE manager' = [manager EXCEPT !.threads[i].unstoppable = TRUE,
                                      !.threads[i].settled = ~t.alive]
  <2> DEFINE u == [t EXCEPT !.unstoppable = TRUE, !.settled = ~t.alive]
  <2>1. u \in ThreadState
    BY <1>2 DEF ThreadState
  <2>2. manager' = WithThread(manager, manager.file, i, u)
    BY <1>1, <1>2, <1>6 DEF ManagerType, IsManager, ThreadState, WithThread
  <2> HIDE DEF u
  <2> QED BY <1>3, <1>4, <2>1, <2>2, OtherThreadKeeps
<1> QED
  BY <1>5, <1>6 DEF Capture!TerminationEnds

LEMMA ExitKeeps ==
  Capture!PathsApart /\ CaptureInv
  /\ (\E i \in DOMAIN manager.threads : Capture!ThreadExits(i))
  => CaptureInv'
<1> SUFFICES ASSUME Capture!PathsApart, CaptureInv, NEW i \in DOMAIN manager.threads,
                    Capture!ThreadExits(i)
             PROVE  CaptureInv'
  OBVIOUS
<1> DEFINE t == manager.threads[i]
<1>1. PICK complete \in BOOLEAN, fault \in {"none", "open"} :
        LET m == [manager EXCEPT
                    !.threads[i].alive = FALSE,
                    !.file[t.path] = IF complete THEN "indexed" ELSE @,
                    !.threads[i].settled = ~t.cancelled \/ t.unstoppable]
        IN /\ manager' = IF manager.preparing = i
                           THEN Capture!Prepared(m, i, complete, fault) ELSE m
           /\ UNCHANGED <<record, redisabled>>
  BY DEF Capture!ThreadExits
<1> DEFINE b == ~t.cancelled \/ t.unstoppable
           u == [t EXCEPT !.alive = FALSE, !.settled = b]
           files == [manager.file EXCEPT ![t.path] = IF complete THEN "indexed" ELSE @]
           old == [manager EXCEPT
                     !.threads[i].alive = FALSE,
                     !.file[t.path] = IF complete THEN "indexed" ELSE @,
                     !.threads[i].settled = b]
           m == [manager EXCEPT !.file = files, !.threads = [manager.threads EXCEPT ![i] = u]]
<1>2. ManagerType(manager) /\ AttemptOK(manager) /\ ManagerOK(manager)
  BY DEF CaptureInv, ManagerOK
<1>3. t \in ThreadState /\ manager.threads \in Seq(ThreadState)
  BY <1>2 DEF ManagerType
<1>4. u \in ThreadState
  BY <1>3 DEF ThreadState
<1>5. old = m
  <2> HIDE DEF b
  <2> QED BY <1>2, <1>3 DEF ManagerType, IsManager, ThreadState
<1>6. /\ manager' = IF manager.preparing = i THEN Capture!Prepared(m, i, complete, fault) ELSE m
      /\ UNCHANGED <<record, redisabled>>
  BY <1>1, <1>5
<1>7. CASE manager.preparing # i
  <2>1. manager' = WithThread(manager, files, i, u)
    BY <1>6, <1>7 DEF WithThread
  <2> HIDE DEF u, files
  <2> QED BY <1>4, <1>6, <1>7, <2>1, OtherThreadKeeps
<1>8. CASE manager.preparing = i
  <2> DEFINE target == m.threads[i].path
             v == [m.threads[i] EXCEPT !.settled = TRUE]
             s == [m.threads EXCEPT ![i] = v]
             ended == [m EXCEPT !.preparing = 0, !.threads[i].settled = TRUE]
  <2>1. /\ ManagerType(m) /\ SameDatabase(m, manager) /\ SameWorker(m, manager)
        /\ m.state = manager.state /\ m.pending = manager.pending
        /\ DOMAIN m.threads = DOMAIN manager.threads /\ m.threads[i] = u
    <3>1. m = WithThread(manager, files, i, u)
      BY DEF WithThread
    <3> HIDE DEF m, u, files
    <3> QED BY <1>2, <1>4, <3>1, ThreadFields
  <2>2. u.path = t.path
    BY <1>3 DEF ThreadState
  <2>3. i # 0 /\ i \in DOMAIN m.threads /\ m.threads[i] \in ThreadState
        /\ m.threads \in Seq(ThreadState)
    <3> HIDE DEF m, u
    <3> QED BY <1>3, <1>4, <2>1 DEF ManagerType
  <2>4. /\ manager.started /\ manager.state = "enabling" /\ manager.pending = Capture!NotPending
        /\ manager.desired.enabled /\ t.path = manager.desired.path
    BY <1>2, <1>8, <2>3 DEF CaptureInv, AttemptOK, AttemptLives, OnTheWay
  <2>5. target \in Paths /\ target = m.desired.path /\ m.desired.enabled
    <3>1. target = t.path
      <4> HIDE DEF m, u
      <4> QED BY <2>1, <2>2
    <3>2. t.path \in Paths
      BY <1>3 DEF ThreadState
    <3> HIDE DEF m, u, target, t
    <3> QED BY <2>1, <2>4, <3>1, <3>2 DEF SameWorker
  <2>6. manager' = Capture!Prepared(m, i, complete, fault)
    BY <1>6, <1>8
  <2> HIDE DEF m, u, t, files, old
  <2>7. ended = [m EXCEPT !.preparing = 0, !.threads = s]
    BY <2>1, <2>3 DEF ManagerType, IsManager
  <2>8. v \in ThreadState
    BY <2>3 DEF ThreadState
  <2>9. s \in Seq(ThreadState) /\ Len(s) = Len(m.threads)
    <3> HIDE DEF v
    <3> QED BY <2>3, <2>8, ThreadChanged
  <2>10. /\ ManagerType(ended) /\ SameDatabase(ended, m) /\ SameWorker(ended, m)
         /\ ended.state = m.state /\ ended.pending = m.pending /\ ended.preparing = 0
    <3> DEFINE x == ended
    <3> HIDE DEF s, ended
    <3>1. /\ IsManager(x) /\ SameDatabase(x, m) /\ SameWorker(x, m)
          /\ x.state = m.state /\ x.pending = m.pending /\ x.preparing = 0 /\ x.threads = s
      BY <2>1, <2>7 DEF ManagerType, IsManager, SameDatabase, SameWorker
    <3> HIDE DEF x
    <3>2. ManagerType(x)
      BY <2>1, <2>9, <3>1 DEF ManagerType, SameDatabase, SameWorker
    <3> QED BY <3>1, <3>2 DEF x
  <2> DEFINE shut == [ended EXCEPT !.db = Capture!None]
  <2>11. manager' = IF ~complete THEN Capture!FailIndexPreparation(ended)
                    ELSE IF m.closed THEN ended
                    ELSE IF fault = "open" THEN Capture!FailIndexPreparation(shut)
                    ELSE Capture!FinishEnable(Capture!OpenDatabase(ended, target), target)
    BY <2>5, <2>6 DEF Capture!Prepared
  <2> HIDE DEF ended, target
  <2>12. /\ ManagerType(shut) /\ SameWorker(shut, m) /\ shut.pending = m.pending
         /\ shut.preparing = 0 /\ shut.db = Capture!None
    <3> DEFINE x == shut
    <3>1. /\ IsManager(x) /\ SameWorker(x, ended) /\ x.pending = ended.pending
          /\ x.preparing = ended.preparing /\ x.db = Capture!None /\ x.threads = ended.threads
          /\ x.accepting = ended.accepting /\ x.restart = ended.restart
      BY <2>10 DEF ManagerType, IsManager, SameWorker
    <3> HIDE DEF x
    <3>2. ManagerType(x)
      BY <2>10, <3>1 DEF ManagerType, SameWorker
    <3> QED BY <2>10, <3>1, <3>2 DEF x, SameWorker
  <2> HIDE DEF shut
  <2>13. /\ ManagerType(manager') /\ SameWorker(manager', m) /\ ~OnTheWay(manager')
         /\ \/ manager'.state = "error" /\ ~manager'.accepting
               /\ manager'.db \in {Capture!None, manager.db}
            \/ manager'.state = "enabled" /\ manager'.accepting
               /\ manager'.db = m.desired.path /\ manager'.active = manager'.db
            \/ m.closed /\ manager'.accepting = manager.accepting
               /\ manager'.state = manager.state
    <3>1. CASE ~complete
      BY <2>1, <2>4, <2>10, <2>11, <3>1, FailFields
      DEF OnTheWay, SameDatabase, SameWorker, SameThreads
    <3>2. CASE complete /\ m.closed
      BY <2>1, <2>4, <2>10, <2>11, <3>2 DEF OnTheWay, SameDatabase, SameWorker
    <3>3. CASE complete /\ ~m.closed /\ fault = "open"
      BY <2>1, <2>4, <2>11, <2>12, <3>3, FailFields DEF OnTheWay, SameWorker, SameThreads
    <3>4. CASE complete /\ ~m.closed /\ fault # "open"
      <4>1. manager' = Capture!FinishEnable(Capture!OpenDatabase(ended, target), target)
        BY <2>11, <3>4
      <4>2. /\ ManagerType(manager') /\ SameWorker(manager', ended)
            /\ SameThreads(manager', ended) /\ manager'.pending = ended.pending
            /\ manager'.state = "enabled" /\ manager'.accepting
            /\ manager'.db = target /\ manager'.active = target
        BY <2>5, <2>10, <4>1, FinishFields
      <4> QED
        BY <2>1, <2>4, <2>5, <2>10, <4>2 DEF OnTheWay, SameWorker, SameThreads
    <3> QED BY <3>1, <3>2, <3>3, <3>4
  <2>14. ManagerOK(manager')
    BY <1>2, <2>13 DEF ManagerOK, AttemptOK, AttemptLives, OnTheWay
  <2>15. ASSUME ~manager'.closed, ~redisabled
         PROVE  DatabaseStands(manager') /\ SettingsStand(manager')
    <3>1. ~m.closed /\ ~manager.closed
      BY <2>1, <2>13, <2>15 DEF SameWorker
    <3>2. Capture!Pending = {} /\ manager.db = Capture!None
      BY <2>4, <2>15, <3>1 DEF CaptureInv, DatabaseStands
    <3>3. m.desired.path \in Paths /\ manager'.desired = m.desired
      BY <2>5, <2>13 DEF SameWorker
    <3> QED
      BY <2>5, <2>13, <3>1, <3>2, <3>3 DEF DatabaseStands, SettingsStand
  <2> QED
    BY <1>6, <2>1, <2>4, <2>13, <2>14, <2>15, StandsOn DEF CaptureInv, SameWorker
<1> QED
  BY <1>7, <1>8

LEMMA CaptureStep ==
  Capture!PathsApart /\ CaptureInv /\ [Capture!Next]_(Capture!captureVars) => CaptureInv'
<1> SUFFICES ASSUME Capture!PathsApart, CaptureInv, [Capture!Next]_(Capture!captureVars)
             PROVE  CaptureInv'
  OBVIOUS
<1>1. CASE UNCHANGED Capture!captureVars
  <2>1. UNCHANGED <<manager, record, redisabled>>
    BY <1>1 DEF Capture!captureVars
  <2>2. ManagerOK(manager') /\ SettingsStand(manager)' = SettingsStand(manager)
    BY <2>1 DEF CaptureInv, SettingsStand, OnTheWay
  <2> QED
    BY <2>1, <2>2, StandsPrimed DEF CaptureInv, OnTheWay
<1>2. CASE Capture!Next
  BY <1>2, StartKeeps, ApplyKeeps, PendingKeeps, CloseKeeps, ExitKeeps, TerminationKeeps,
     BeginKeeps, SaveKeeps DEF Capture!Next
<1> QED
  BY <1>1, <1>2

LEMMA CaptureInvHome == CaptureInv => Capture!RecordsGoHome
BY DEF CaptureInv, DatabaseStands, Capture!RecordsGoHome

LEMMA CaptureInvSettles == CaptureInv => Capture!CaptureSettles
<1> SUFFICES ASSUME CaptureInv, manager.started, ~manager.closed, ~redisabled,
                    Capture!Unsettled(manager) = {}, manager.pending = Capture!NotPending,
                    Capture!Pending = {}
             PROVE  IF manager.desired.enabled
                      THEN \/ manager.accepting
                              /\ (manager.db = manager.desired.path \/ manager.restart)
                           \/ manager.state = "error" /\ ~manager.accepting
                      ELSE /\ manager.state = "disabled" /\ ~manager.accepting
                           /\ manager.db = Capture!None
  BY DEF Capture!CaptureSettles
<1>1. ManagerOK(manager) /\ DatabaseStands(manager) /\ SettingsStand(manager)
  BY DEF CaptureInv
<1>2. manager.preparing # 0 => manager.preparing \in DOMAIN manager.threads
  BY <1>1 DEF ManagerOK, ManagerType
<1>3. manager.preparing = 0
  BY <1>1, <1>2 DEF ManagerOK, AttemptOK, AttemptLives, Capture!Unsettled
<1>4. ~OnTheWay(manager)
  BY <1>3 DEF OnTheWay
<1> QED
  BY <1>1, <1>4 DEF ManagerOK, DatabaseStands, SettingsStand

LEMMA CaptureInvariant == Capture!Spec => []CaptureInv
<1>1. Capture!Init => CaptureInv
  BY CaptureInit, PathsAssumption
<1>2. CaptureInv /\ [Capture!Next]_(Capture!captureVars) => CaptureInv'
  BY CaptureStep, PathsAssumption
<1> QED
  BY <1>1, <1>2, PTL DEF Capture!Spec

------------------------
(* The startup item, for any calls, faults, deaths and changes by other programs *)

\* The call has these fields and no other.
IsCall(o) ==
  o = [pc |-> o.pc, want |-> o.want, before |-> o.before, link |-> o.link, text |-> o.text,
       id |-> o.id, bytes |-> o.bytes, fd |-> o.fd, undo |-> o.undo, answer |-> o.answer,
       touched |-> o.touched, blind |-> o.blind, lost |-> o.lost]

Contents == AutoStart!Managed \cup {"foreign", "empty"}

ItemType ==
  /\ disk \in Seq(Contents) /\ path \in 0..Len(disk)
  /\ link \in {"not-required", "missing", "valid", "foreign"}
  /\ IsCall(op)
  /\ op.pc \in {"idle", "link", "check", "stat", "read", "open", "create", "truncate", "write",
                "fill", "verify", "published", "symlink", "status"}
  /\ op.want \in BOOLEAN /\ op.touched \in BOOLEAN /\ op.blind \in BOOLEAN /\ op.lost \in BOOLEAN
  /\ op.text \in {"enabled", "disabled"} /\ op.undo \in {"no", "conflict", "failed"}

\* A file of the disk is the item, or none is, or another program has put its own there.
Replaced(i) == i \in 1..Len(disk) /\ (path # i => AutoStart!Text \in {"missing", "foreign"})

\* The file that the call inspects, or has opened, is one of CRP.
FileInv ==
  /\ op.pc = "create" => AutoStart!Text \in {"missing", "foreign"}
  /\ op.pc \in {"read", "open"} => Replaced(op.id)
  /\ op.pc = "open" => disk[op.id] = op.bytes
  /\ op.pc \in {"open", "truncate", "write"} => op.bytes \in AutoStart!Managed
  /\ op.pc \in {"truncate", "write", "fill", "verify", "published"} =>
       Replaced(op.fd) /\ disk[op.fd] # "foreign"
  /\ op.pc \in {"verify", "published"} => disk[op.fd] = op.text

\* Until its contents are written an item that is to be enabled is enabled only if it was
\* before, and what would be put back has been.
BeforeInv ==
  op.want /\ op.undo = "no" =>
    /\ op.pc \in {"link", "stat", "read", "open", "create", "truncate", "write", "fill"} =>
         (AutoStart!Text = "enabled" => op.before = "enabled")
    /\ op.pc \in {"open", "truncate", "write"} =>
         (op.bytes = "enabled" => op.before = "enabled")

\* What the call writes is what it was asked, or a rollback.
AskedInv ==
  /\ op.pc = "link" => op.want
  /\ op.pc = "check" => ~op.want
  /\ op.pc \in {"link", "check", "symlink", "status"} => op.undo = "no"
  /\ op.pc \notin {"idle", "link", "check"} =>
       op.text = IF op.want /\ op.undo = "no" THEN "enabled" ELSE "disabled"
  /\ op.pc # "idle" /\ op.undo # "no" => op.want
  /\ op.pc = "symlink" => op.want

\* Without interference the link is as it was found, and at the end all is as asked.
UntouchedInv ==
  ~op.touched =>
    /\ op.pc \notin {"idle", "link", "check", "status"} /\ op.undo = "no" =>
         link = op.link /\ link # "foreign"
    /\ op.pc = "symlink" => AutoStart!Text = "enabled"
    /\ op.pc = "status" => AutoStart!Effective = op.want

ItemInv ==
  ItemType /\ FileInv /\ BeforeInv /\ AskedInv /\ UntouchedInv /\ AutoStart!OutcomeIsTold
------------------------
(* The startup item: what a step leaves as it is *)

SameAsk(o, p) == o.want = p.want /\ o.before = p.before /\ o.undo = p.undo /\ o.text = p.text
SameFile(o, p) == o.id = p.id /\ o.bytes = p.bytes /\ o.fd = p.fd
SameMarks(o, p) == o.touched = p.touched /\ o.blind = p.blind /\ o.lost = p.lost

LEMMA SameItem ==
  ASSUME AutoStart!Same
  PROVE  /\ AutoStart!Text' = AutoStart!Text /\ (AutoStart!Effective' <=> AutoStart!Effective)
         /\ \A i : Replaced(i)' <=> Replaced(i)
  BY DEF AutoStart!Same, AutoStart!Text, AutoStart!Effective, Replaced

LEMMA TextType ==
  ASSUME ItemType PROVE AutoStart!Text \in Contents \cup {"missing"}
<1>1. path # 0 => disk[path] \in Contents
  BY DEF ItemType
<1> QED BY <1>1 DEF AutoStart!Text

LEMMA GotoFields ==
  ASSUME ItemType, NEW pc, AutoStart!Goto(pc)
  PROVE  /\ IsCall(op') /\ op'.pc = pc /\ op'.link = op.link /\ op'.answer = op.answer
         /\ SameAsk(op', op) /\ SameFile(op', op) /\ SameMarks(op', op)
  BY DEF AutoStart!Goto, ItemType, IsCall, SameAsk, SameFile, SameMarks

LEMMA EndsFields ==
  ASSUME ItemType, NEW said, AutoStart!Ends(said)
  PROVE  /\ IsCall(op') /\ op'.pc = "idle" /\ op'.link = op.link
         /\ op'.answer = (IF op.undo = "no" THEN said ELSE op.undo)
         /\ SameAsk(op', op) /\ SameFile(op', op) /\ SameMarks(op', op)
  BY DEF AutoStart!Ends, ItemType, IsCall, SameAsk, SameFile, SameMarks

\* A call that ends in an error where the item is not enabled against its outcome.
LEMMA EndsKeeps ==
  ASSUME ItemInv, AutoStart!Same, NEW said \in {"conflict", "failed"}, AutoStart!Ends(said),
         op.want => (AutoStart!Text = "enabled" => op.before = "enabled")
  PROVE  ItemInv'
<1>1. /\ IsCall(op') /\ op'.pc = "idle" /\ op'.link = op.link
      /\ op'.answer = (IF op.undo = "no" THEN said ELSE op.undo)
      /\ SameAsk(op', op) /\ SameFile(op', op) /\ SameMarks(op', op)
  BY EndsFields DEF ItemInv
<1>2. UNCHANGED <<disk, path, link>>
  BY DEF AutoStart!Same
<1>3. ItemType'
  BY <1>1, <1>2 DEF ItemInv, ItemType, SameAsk, SameMarks, IsCall
<1>4. op'.answer # "done"
  BY <1>1 DEF ItemInv, ItemType
<1>5. FileInv' /\ BeforeInv' /\ AskedInv' /\ UntouchedInv'
  BY <1>1 DEF FileInv, BeforeInv, AskedInv, UntouchedInv
<1>6. AutoStart!OutcomeIsTold'
  BY <1>1, <1>4, SameItem DEF AutoStart!OutcomeIsTold, AutoStart!Idle, SameAsk
<1> QED
  BY <1>3, <1>5, <1>6 DEF ItemInv

------------------------
(* The startup item: the steps *)

LEMMA InspectLinkKeeps == ItemInv /\ AutoStart!InspectLink => ItemInv'
<1> SUFFICES ASSUME ItemInv, AutoStart!InspectLink PROVE ItemInv'
  OBVIOUS
<1>1. /\ op.pc = "link" /\ AutoStart!Same /\ UNCHANGED <<disk, path, link>>
      /\ op.want /\ op.undo = "no"
  BY DEF AutoStart!InspectLink, AutoStart!Same, ItemInv, AskedInv
<1>2. AutoStart!Text = "enabled" => op.before = "enabled"
  BY <1>1 DEF ItemInv, BeforeInv
<1>3. CASE AutoStart!Ends("conflict")
  BY <1>1, <1>2, <1>3, EndsKeeps
<1>4. CASE link # "foreign" /\ op' = [op EXCEPT !.pc = "stat", !.text = "enabled", !.link = link]
  <2>1. /\ IsCall(op') /\ op'.pc = "stat" /\ op'.link = link /\ op'.text = "enabled"
        /\ op'.want = op.want /\ op'.before = op.before /\ op'.undo = op.undo
        /\ SameFile(op', op) /\ SameMarks(op', op)
    BY <1>4 DEF ItemInv, ItemType, IsCall, SameFile, SameMarks
  <2>2. ItemType'
    BY <1>1, <2>1 DEF ItemInv, ItemType, IsCall, SameMarks
  <2>3. FileInv' /\ AskedInv' /\ AutoStart!OutcomeIsTold'
    BY <1>1, <2>1 DEF FileInv, AskedInv, AutoStart!OutcomeIsTold, AutoStart!Idle
  <2>4. BeforeInv' /\ UntouchedInv'
    BY <1>1, <1>2, <1>4, <2>1, SameItem DEF BeforeInv, UntouchedInv
  <2> QED BY <2>2, <2>3, <2>4 DEF ItemInv
<1> QED
  BY <1>3, <1>4 DEF AutoStart!InspectLink

LEMMA CheckKeeps == ItemInv /\ AutoStart!Check => ItemInv'
<1> SUFFICES ASSUME ItemInv, AutoStart!Check PROVE ItemInv'
  OBVIOUS
<1>1. /\ op.pc = "check" /\ AutoStart!Same /\ UNCHANGED <<disk, path, link>>
      /\ ~op.want /\ op.undo = "no"
  BY DEF AutoStart!Check, AutoStart!Same, ItemInv, AskedInv
<1>2. CASE AutoStart!Ends("conflict")
  BY <1>1, <1>2, EndsKeeps
<1> DEFINE pc == IF path # 0 \/ link = "valid" THEN "stat" ELSE "status"
<1>3. CASE /\ link # "foreign"
           /\ op' = [op EXCEPT !.pc = pc, !.text = "disabled", !.link = link]
  <2>1. path = 0 => AutoStart!Text # "enabled"
    BY DEF AutoStart!Text
  <2>2. pc \in {"stat", "status"} /\ (pc = "status" => AutoStart!Text # "enabled")
    BY <2>1
  <2> HIDE DEF pc
  <2>3. /\ IsCall(op') /\ op'.pc = pc /\ op'.link = link /\ op'.text = "disabled"
        /\ op'.want = op.want /\ op'.before = op.before /\ op'.undo = op.undo
        /\ SameFile(op', op) /\ SameMarks(op', op)
    BY <1>3 DEF ItemInv, ItemType, IsCall, SameFile, SameMarks
  <2>4. ItemType'
    BY <1>1, <2>2, <2>3 DEF ItemInv, ItemType, IsCall, SameMarks
  <2>5. FileInv' /\ AskedInv' /\ AutoStart!OutcomeIsTold' /\ BeforeInv'
    BY <1>1, <2>2, <2>3 DEF FileInv, AskedInv, AutoStart!OutcomeIsTold, AutoStart!Idle, BeforeInv
  <2>6. pc = "status" => ~AutoStart!Effective'
    BY <2>2, SameItem, <1>1 DEF AutoStart!Effective
  <2>7. pc = "status" => AutoStart!Effective' = op'.want
    BY <1>1, <2>3, <2>6 DEF ItemInv, ItemType, AutoStart!Effective
  <2>8. UntouchedInv'
    BY <1>1, <1>3, <2>2, <2>3, <2>7 DEF UntouchedInv
  <2> QED BY <2>4, <2>5, <2>8 DEF ItemInv
<1> QED
  BY <1>2, <1>3 DEF AutoStart!Check

LEMMA StatKeeps == ItemInv /\ AutoStart!Stat => ItemInv'
<1> SUFFICES ASSUME ItemInv, AutoStart!Stat PROVE ItemInv'
  OBVIOUS
<1>1. op.pc = "stat" /\ AutoStart!Same /\ UNCHANGED <<disk, path, link>>
  BY DEF AutoStart!Stat, AutoStart!Same
<1>2. CASE path = 0 /\ AutoStart!Goto("create")
  <2>1. /\ IsCall(op') /\ op'.pc = "create" /\ op'.link = op.link /\ op'.answer = op.answer
        /\ SameAsk(op', op) /\ SameFile(op', op) /\ SameMarks(op', op)
    BY <1>2, GotoFields DEF ItemInv
  <2>2. AutoStart!Text = "missing"
    BY <1>2 DEF AutoStart!Text
  <2>3. ItemType'
    BY <1>1, <2>1 DEF ItemInv, ItemType, IsCall, SameAsk, SameMarks
  <2>4. FileInv' /\ AskedInv' /\ AutoStart!OutcomeIsTold'
    BY <1>1, <2>1, <2>2, SameItem
    DEF ItemInv, FileInv, AskedInv, AutoStart!OutcomeIsTold, AutoStart!Idle, SameAsk
  <2>5. BeforeInv' /\ UntouchedInv'
    BY <1>1, <2>1, SameItem DEF ItemInv, BeforeInv, UntouchedInv, SameAsk, SameMarks
  <2> QED BY <2>3, <2>4, <2>5 DEF ItemInv
<1>3. CASE path # 0 /\ op' = [op EXCEPT !.pc = "read", !.id = path]
  <2>1. /\ IsCall(op') /\ op'.pc = "read" /\ op'.link = op.link /\ op'.id = path
        /\ SameAsk(op', op) /\ SameMarks(op', op)
    BY <1>3 DEF ItemInv, ItemType, IsCall, SameAsk, SameMarks
  <2>2. Replaced(path)
    BY <1>3 DEF ItemInv, ItemType, Replaced
  <2>3. ItemType'
    BY <1>1, <2>1 DEF ItemInv, ItemType, IsCall, SameAsk, SameMarks
  <2>4. FileInv' /\ AskedInv' /\ AutoStart!OutcomeIsTold'
    BY <1>1, <2>1, <2>2, SameItem
    DEF ItemInv, FileInv, AskedInv, AutoStart!OutcomeIsTold, AutoStart!Idle, SameAsk, Replaced,
        AutoStart!Text
  <2>5. BeforeInv' /\ UntouchedInv'
    BY <1>1, <2>1, SameItem DEF ItemInv, BeforeInv, UntouchedInv, SameAsk, SameMarks
  <2> QED BY <2>3, <2>4, <2>5 DEF ItemInv
<1> QED
  BY <1>2, <1>3 DEF AutoStart!Stat

LEMMA ReadKeeps == ItemInv /\ AutoStart!Read => ItemInv'
<1> SUFFICES ASSUME ItemInv, AutoStart!Read PROVE ItemInv'
  OBVIOUS
<1>1. op.pc = "read" /\ AutoStart!Same /\ UNCHANGED <<disk, path, link>> /\ Replaced(op.id)
  BY DEF AutoStart!Read, AutoStart!Same, ItemInv, FileInv
<1>2. CASE AutoStart!Text \notin AutoStart!Managed /\ AutoStart!Ends("conflict")
  BY <1>1, <1>2, EndsKeeps DEF AutoStart!Managed
<1>3. CASE /\ AutoStart!Text \in AutoStart!Managed
           /\ op' = [op EXCEPT !.pc = "open", !.bytes = AutoStart!Text]
  <2>1. /\ IsCall(op') /\ op'.pc = "open" /\ op'.link = op.link /\ op'.bytes = AutoStart!Text
        /\ op'.id = op.id /\ SameAsk(op', op) /\ SameMarks(op', op)
    BY <1>3 DEF ItemInv, ItemType, IsCall, SameAsk, SameMarks
  <2>2. path = op.id /\ disk[op.id] = AutoStart!Text
    BY <1>1, <1>3 DEF Replaced, AutoStart!Managed, AutoStart!Text
  <2>3. ItemType'
    BY <1>1, <2>1 DEF ItemInv, ItemType, IsCall, SameAsk, SameMarks
  <2>4. Replaced(op.id)'
    BY <1>1, <2>1 DEF Replaced, AutoStart!Text
  <2>5. FileInv' /\ AskedInv' /\ AutoStart!OutcomeIsTold'
    BY <1>1, <1>3, <2>1, <2>2, <2>4, SameItem
    DEF ItemInv, FileInv, AskedInv, AutoStart!OutcomeIsTold, AutoStart!Idle, SameAsk
  <2>6. BeforeInv' /\ UntouchedInv'
    BY <1>1, <2>1, SameItem DEF ItemInv, BeforeInv, UntouchedInv, SameAsk, SameMarks
  <2> QED BY <2>3, <2>5, <2>6 DEF ItemInv
<1> QED
  BY <1>2, <1>3 DEF AutoStart!Read

LEMMA OpenKeeps == ItemInv /\ AutoStart!OpenExisting => ItemInv'
<1> SUFFICES ASSUME ItemInv, AutoStart!OpenExisting PROVE ItemInv'
  OBVIOUS
<1>1. /\ op.pc = "open" /\ AutoStart!Same /\ UNCHANGED <<disk, path, link>> /\ Replaced(op.id)
      /\ disk[op.id] = op.bytes /\ op.bytes \in AutoStart!Managed
  BY DEF AutoStart!OpenExisting, AutoStart!Same, ItemInv, FileInv
<1>2. CASE path = 0 /\ AutoStart!Ends("failed")
  BY <1>1, <1>2, EndsKeeps DEF AutoStart!Text
<1>3. CASE ~AutoStart!OpensSame /\ AutoStart!Ends("conflict")
  <2>1. path # op.id
    BY <1>1, <1>3 DEF AutoStart!OpensSame
  <2> QED
    BY <1>1, <1>3, <2>1, EndsKeeps DEF Replaced
<1>4. CASE AutoStart!OpensSame /\ op' = [op EXCEPT !.pc = "truncate", !.fd = path]
  <2>1. /\ IsCall(op') /\ op'.pc = "truncate" /\ op'.link = op.link /\ op'.bytes = op.bytes
        /\ op'.fd = op.id /\ SameAsk(op', op) /\ SameMarks(op', op)
    BY <1>4 DEF ItemInv, ItemType, IsCall, SameAsk, SameMarks, AutoStart!OpensSame
  <2>2. ItemType'
    BY <1>1, <2>1 DEF ItemInv, ItemType, IsCall, SameAsk, SameMarks
  <2>3. Replaced(op.fd)' /\ op.bytes # "foreign"
    BY <1>1, <2>1 DEF Replaced, AutoStart!Text, AutoStart!Managed
  <2>4. FileInv' /\ AskedInv' /\ AutoStart!OutcomeIsTold'
    BY <1>1, <2>1, <2>3
    DEF ItemInv, FileInv, AskedInv, AutoStart!OutcomeIsTold, AutoStart!Idle, SameAsk
  <2>5. BeforeInv' /\ UntouchedInv'
    BY <1>1, <2>1, SameItem DEF ItemInv, BeforeInv, UntouchedInv, SameAsk, SameMarks
  <2> QED BY <2>2, <2>4, <2>5 DEF ItemInv
<1> QED
  BY <1>1, <1>2, <1>3, <1>4 DEF AutoStart!OpenExisting

\* The contents of the file that the call has open are changed.
LEMMA WrittenItem ==
  ASSUME ItemInv, UNCHANGED <<path, link>>, NEW text \in Contents \ {"foreign"},
         disk' = [disk EXCEPT ![op.fd] = text], Replaced(op.fd), op'.fd = op.fd
  PROVE  /\ disk' \in Seq(Contents) /\ Len(disk') = Len(disk) /\ disk'[op.fd] = text
         /\ Replaced(op.fd)'
         /\ AutoStart!Text' \in {text, "missing", "foreign"}
<1>1. disk \in Seq(Contents) /\ op.fd \in 1..Len(disk)
  BY DEF ItemInv, ItemType, Replaced
<1>2. /\ disk' \in Seq(Contents) /\ Len(disk') = Len(disk) /\ disk'[op.fd] = text
      /\ \A i \in 1..Len(disk) : i # op.fd => disk'[i] = disk[i]
  BY <1>1
<1>3. path \in 0..Len(disk)
  BY DEF ItemInv, ItemType
<1>4. path # op.fd => AutoStart!Text' = AutoStart!Text
  BY <1>2, <1>3 DEF AutoStart!Text
<1>5. path = op.fd => AutoStart!Text' = text
  BY <1>1, <1>2 DEF AutoStart!Text
<1> QED
  BY <1>1, <1>2, <1>4, <1>5 DEF Replaced

LEMMA TruncateKeeps == ItemInv /\ AutoStart!Truncate => ItemInv'
<1> SUFFICES ASSUME ItemInv, AutoStart!Truncate PROVE ItemInv'
  OBVIOUS
<1>1. /\ op.pc = "truncate" /\ UNCHANGED <<path, link>> /\ Replaced(op.fd)
      /\ disk' = [disk EXCEPT ![op.fd] = "empty"] /\ op.bytes \in AutoStart!Managed
  BY DEF AutoStart!Truncate, ItemInv, FileInv
<1>2. /\ IsCall(op') /\ op'.pc = "write" /\ op'.link = op.link /\ op'.answer = op.answer
      /\ SameAsk(op', op) /\ SameFile(op', op) /\ SameMarks(op', op)
  BY GotoFields DEF AutoStart!Truncate, ItemInv
<1>3. /\ disk' \in Seq(Contents) /\ Len(disk') = Len(disk) /\ disk'[op.fd] = "empty"
      /\ Replaced(op.fd)' /\ AutoStart!Text' \in {"empty", "missing", "foreign"}
  BY <1>1, <1>2, WrittenItem DEF Contents, SameFile
<1>4. ItemType'
  BY <1>1, <1>2, <1>3 DEF ItemInv, ItemType, IsCall, SameAsk, SameMarks
<1>5. FileInv' /\ AskedInv' /\ AutoStart!OutcomeIsTold'
  BY <1>1, <1>2, <1>3 DEF ItemInv, FileInv, AskedInv, AutoStart!OutcomeIsTold, AutoStart!Idle,
      SameAsk, SameFile
<1>6. BeforeInv' /\ UntouchedInv'
  BY <1>1, <1>2, <1>3 DEF ItemInv, BeforeInv, UntouchedInv, SameAsk, SameFile, SameMarks
<1> QED
  BY <1>4, <1>5, <1>6 DEF ItemInv

\* What was asked is written to the file that is open.
LEMMA PutsKeeps ==
  ASSUME ItemInv, Replaced(op.fd), op.pc \in {"write", "fill"},
         NEW pc \in {"verify", "published"}, AutoStart!Goto(pc),
         disk' = [disk EXCEPT ![op.fd] = op.text], UNCHANGED <<path, link>>
  PROVE  ItemInv'
<1>1. /\ IsCall(op') /\ op'.pc = pc /\ op'.link = op.link /\ op'.answer = op.answer
      /\ SameAsk(op', op) /\ SameFile(op', op) /\ SameMarks(op', op)
  BY GotoFields DEF ItemInv
<1>2. op.text \in Contents \ {"foreign"}
  BY DEF ItemInv, ItemType, Contents, AutoStart!Managed
<1>3. /\ disk' \in Seq(Contents) /\ Len(disk') = Len(disk) /\ disk'[op.fd] = op.text
      /\ Replaced(op.fd)'
  BY <1>1, <1>2, WrittenItem DEF SameFile
<1>4. ItemType'
  BY <1>1, <1>3 DEF ItemInv, ItemType, IsCall, SameAsk, SameMarks
<1>5. FileInv' /\ AskedInv' /\ AutoStart!OutcomeIsTold'
  BY <1>1, <1>2, <1>3 DEF ItemInv, FileInv, AskedInv, AutoStart!OutcomeIsTold, AutoStart!Idle,
      SameAsk, SameFile
<1>6. BeforeInv' /\ UntouchedInv'
  BY <1>1 DEF ItemInv, BeforeInv, UntouchedInv, SameAsk, SameFile, SameMarks
<1> QED
  BY <1>4, <1>5, <1>6 DEF ItemInv

LEMMA WriteKeeps == ItemInv /\ AutoStart!Write => ItemInv'
<1> SUFFICES ASSUME ItemInv, AutoStart!Write PROVE ItemInv'
  OBVIOUS
<1>1. Replaced(op.fd)
  BY DEF AutoStart!Write, ItemInv, FileInv
<1> QED
  BY <1>1, PutsKeeps DEF AutoStart!Write

LEMMA FillKeeps == ItemInv /\ AutoStart!Fill => ItemInv'
<1> SUFFICES ASSUME ItemInv, AutoStart!Fill PROVE ItemInv'
  OBVIOUS
<1>1. Replaced(op.fd)
  BY DEF AutoStart!Fill, ItemInv, FileInv
<1> QED
  BY <1>1, PutsKeeps DEF AutoStart!Fill

\* The end of a call that could not do all it had to.
LEMMA BrokenFields ==
  ASSUME ItemType, NEW blind \in BOOLEAN, NEW said,
         op' = [op EXCEPT !.pc = "idle", !.blind = blind, !.lost = @ \/ op.undo # "no",
                          !.answer = IF op.undo = "no" THEN said ELSE op.undo]
  PROVE  /\ IsCall(op') /\ op'.pc = "idle" /\ op'.blind = blind /\ op'.touched = op.touched
         /\ op'.lost = (op.lost \/ op.undo # "no")
         /\ op'.answer = (IF op.undo = "no" THEN said ELSE op.undo)
         /\ SameAsk(op', op)
  BY DEF ItemType, IsCall, SameAsk

LEMMA BrokenKeeps ==
  ASSUME ItemInv, UNCHANGED <<path, link>>, disk' \in Seq(Contents), Len(disk') = Len(disk),
         NEW blind \in BOOLEAN, NEW said \in {"conflict", "failed", "degraded"},
         op' = [op EXCEPT !.pc = "idle", !.blind = blind, !.lost = @ \/ op.undo # "no",
                          !.answer = IF op.undo = "no" THEN said ELSE op.undo],
         \/ blind \/ said = "degraded"
         \/ op.want /\ op.undo = "no" => (AutoStart!Text' = "enabled" => op.before = "enabled")
  PROVE  ItemInv'
<1>1. /\ IsCall(op') /\ op'.pc = "idle" /\ op'.blind = blind /\ op'.touched = op.touched
      /\ op'.lost = (op.lost \/ op.undo # "no")
      /\ op'.answer = (IF op.undo = "no" THEN said ELSE op.undo)
      /\ SameAsk(op', op)
  BY BrokenFields DEF ItemInv
<1>2. (op.lost \/ op.undo # "no") \in BOOLEAN
  OBVIOUS
<1>3. ItemType'
  BY <1>1, <1>2 DEF ItemInv, ItemType, IsCall, SameAsk
<1>4. FileInv' /\ BeforeInv' /\ AskedInv' /\ UntouchedInv'
  BY <1>1 DEF FileInv, BeforeInv, AskedInv, UntouchedInv
<1>5. op'.answer # "done"
  BY <1>1 DEF ItemInv, ItemType
<1>6. op.undo # "no" => op'.lost
  BY <1>1
<1>7. AutoStart!OutcomeIsTold'
  BY <1>1, <1>5, <1>6 DEF AutoStart!OutcomeIsTold, AutoStart!Idle, SameAsk
<1> QED
  BY <1>3, <1>4, <1>7 DEF ItemInv

LEMMA WriteFailsKeeps == ItemInv /\ AutoStart!WriteFails => ItemInv'
<1> SUFFICES ASSUME ItemInv, AutoStart!WriteFails PROVE ItemInv'
  OBVIOUS
<1>1. /\ op.pc \in {"write", "fill"} /\ UNCHANGED <<path, link>> /\ Replaced(op.fd)
      /\ disk \in Seq(Contents) /\ op.blind \in BOOLEAN
  BY DEF AutoStart!WriteFails, ItemInv, FileInv, ItemType
<1> DEFINE text == IF op.pc = "write" THEN op.bytes ELSE "disabled"
           Broken(said) ==
             op' = [op EXCEPT !.pc = "idle", !.lost = @ \/ op.undo # "no",
                              !.answer = IF op.undo = "no" THEN said ELSE op.undo]
<1>2. ASSUME NEW said, Broken(said)
      PROVE  op' = [op EXCEPT !.pc = "idle", !.blind = op.blind, !.lost = @ \/ op.undo # "no",
                              !.answer = IF op.undo = "no" THEN said ELSE op.undo]
             /\ op'.fd = op.fd
  BY <1>2 DEF ItemInv, ItemType, IsCall
<1>3. CASE disk' = [disk EXCEPT ![op.fd] = text] /\ Broken("failed")
  <2>1. text \in Contents \ {"foreign"}
    BY <1>1 DEF ItemInv, FileInv, Contents, AutoStart!Managed
  <2>2. op.want /\ op.undo = "no" => (text = "enabled" => op.before = "enabled")
    BY <1>1 DEF ItemInv, BeforeInv
  <2> HIDE DEF text
  <2>3. /\ disk' \in Seq(Contents) /\ Len(disk') = Len(disk)
        /\ AutoStart!Text' \in {text, "missing", "foreign"}
    BY <1>1, <1>2, <1>3, <2>1, WrittenItem
  <2> QED
    BY <1>1, <1>2, <1>3, <2>2, <2>3, BrokenKeeps
<1>4. CASE UNCHANGED disk /\ Broken("degraded")
  BY <1>1, <1>2, <1>4, BrokenKeeps
<1> QED
  BY <1>3, <1>4 DEF AutoStart!WriteFails

\* The file holds what the call was to write.
LEMMA WrittenKeeps ==
  ASSUME ItemInv, AutoStart!Same, op.pc \in {"verify", "published"},
         AutoStart!Text = op.text, AutoStart!Written
  PROVE  ItemInv'
<1>1. UNCHANGED <<disk, path, link>>
  BY DEF AutoStart!Same
<1>2. CASE op.undo # "no" /\ AutoStart!Ends(op.undo)
  <2>1. op.text = "disabled" /\ op.undo \in {"conflict", "failed"}
    BY <1>2 DEF ItemInv, AskedInv, ItemType
  <2> QED
    BY <1>2, <2>1, EndsKeeps
<1>3. CASE op.undo = "no"
  <2> DEFINE pc == IF op.want /\ op.link = "missing" THEN "symlink" ELSE "status"
  <2>1. pc \in {"symlink", "status"} /\ (pc = "symlink" <=> op.want /\ op.link = "missing")
    OBVIOUS
  <2>2. AutoStart!Goto(pc)
    BY <1>3 DEF AutoStart!Written
  <2> HIDE DEF pc
  <2>3. /\ IsCall(op') /\ op'.pc = pc /\ op'.link = op.link /\ op'.answer = op.answer
        /\ SameAsk(op', op) /\ SameFile(op', op) /\ SameMarks(op', op)
    BY <2>2, GotoFields DEF ItemInv
  <2>4. ItemType'
    BY <1>1, <2>1, <2>3 DEF ItemInv, ItemType, IsCall, SameAsk, SameMarks
  <2>5. FileInv' /\ BeforeInv' /\ AskedInv' /\ AutoStart!OutcomeIsTold'
    BY <1>3, <2>1, <2>3
    DEF ItemInv, FileInv, BeforeInv, AskedInv, AutoStart!OutcomeIsTold, AutoStart!Idle, SameAsk
  <2>6. ~op.touched /\ pc = "status" => AutoStart!Effective = op.want
    <3>1. CASE op.want
      <4>1. op.text = "enabled" /\ op.want = TRUE
        BY <1>3, <3>1 DEF ItemInv, AskedInv, ItemType
      <4> QED
        BY <1>3, <2>1, <3>1, <4>1 DEF ItemInv, UntouchedInv, ItemType, AutoStart!Effective
    <3>2. CASE ~op.want
      <4>1. op.text = "disabled" /\ op.want = FALSE
        BY <1>3, <3>2 DEF ItemInv, AskedInv, ItemType
      <4> QED
        BY <4>1 DEF AutoStart!Effective
    <3> QED BY <3>1, <3>2
  <2>7. pc = "symlink" => op.text = "enabled"
    BY <1>3, <2>1 DEF ItemInv, AskedInv
  <2>8. ~op.touched /\ pc = "status" => AutoStart!Effective' = op'.want
    <3>1. AutoStart!Effective' = AutoStart!Effective /\ op'.want = op.want
      BY <2>3, SameItem DEF SameAsk, AutoStart!Effective
    <3> QED BY <2>6, <3>1
  <2>9. UntouchedInv'
    BY <1>1, <1>3, <2>1, <2>3, <2>7, <2>8, SameItem
    DEF ItemInv, UntouchedInv, SameAsk, SameMarks
  <2> QED BY <2>4, <2>5, <2>9 DEF ItemInv
<1> QED
  BY <1>2, <1>3 DEF AutoStart!Written

LEMMA VerifyKeeps == ItemInv /\ AutoStart!Verify => ItemInv'
<1> SUFFICES ASSUME ItemInv, AutoStart!Verify PROVE ItemInv'
  OBVIOUS
<1>1. op.pc = "verify" /\ AutoStart!Same /\ Replaced(op.fd) /\ disk[op.fd] = op.text
  BY DEF AutoStart!Verify, ItemInv, FileInv
<1>2. CASE path # op.fd /\ AutoStart!Ends("conflict")
  BY <1>1, <1>2, EndsKeeps DEF Replaced
<1>3. path = op.fd => AutoStart!Text = op.text
  BY <1>1 DEF Replaced, AutoStart!Text
<1>4. CASE path = op.fd /\ AutoStart!Written
  BY <1>1, <1>3, <1>4, WrittenKeeps
<1> QED
  BY <1>2, <1>3, <1>4 DEF AutoStart!Verify

LEMMA PublishedKeeps == ItemInv /\ AutoStart!Published => ItemInv'
<1> SUFFICES ASSUME ItemInv, AutoStart!Published PROVE ItemInv'
  OBVIOUS
<1>1. op.pc = "published" /\ AutoStart!Same /\ Replaced(op.fd) /\ disk[op.fd] = op.text
  BY DEF AutoStart!Published, ItemInv, FileInv
<1>2. path = op.fd => AutoStart!Text = op.text
  BY <1>1 DEF Replaced, AutoStart!Text
<1>3. CASE path # op.fd /\ AutoStart!Ends("conflict")
  BY <1>1, <1>3, EndsKeeps DEF Replaced
<1>4. CASE path = op.fd /\ AutoStart!Written
  BY <1>1, <1>2, <1>4, WrittenKeeps
<1> QED
  BY <1>2, <1>3, <1>4 DEF AutoStart!Published

LEMMA CreateKeeps == ItemInv /\ AutoStart!Create => ItemInv'
<1> SUFFICES ASSUME ItemInv, AutoStart!Create PROVE ItemInv'
  OBVIOUS
<1>1. op.pc = "create" /\ UNCHANGED link /\ AutoStart!Text \in {"missing", "foreign"}
  BY DEF AutoStart!Create, ItemInv, FileInv
<1>2. CASE AutoStart!Ends("conflict") /\ UNCHANGED <<disk, path>>
  BY <1>1, <1>2, EndsKeeps DEF AutoStart!Same
<1>3. CASE /\ disk' = Append(disk, "empty") /\ path' = Len(disk) + 1
           /\ op' = [op EXCEPT !.pc = "fill", !.fd = Len(disk) + 1]
  <2>1. /\ IsCall(op') /\ op'.pc = "fill" /\ op'.link = op.link /\ op'.fd = Len(disk) + 1
        /\ SameAsk(op', op) /\ SameMarks(op', op)
    BY <1>3 DEF ItemInv, ItemType, IsCall, SameAsk, SameMarks
  <2>2. disk \in Seq(Contents) /\ "empty" \in Contents
    BY DEF ItemInv, ItemType, Contents
  <2>3. /\ disk' \in Seq(Contents) /\ Len(disk') = Len(disk) + 1
        /\ disk'[Len(disk) + 1] = "empty" /\ Len(disk) \in Nat
    BY <1>3, <2>2
  <2>4. AutoStart!Text' = "empty"
    BY <1>3, <2>3 DEF AutoStart!Text
  <2>5. ItemType'
    BY <1>1, <1>3, <2>1, <2>3 DEF ItemInv, ItemType, IsCall, SameAsk, SameMarks
  <2>6. Replaced(op.fd)'
    BY <1>3, <2>1, <2>3 DEF Replaced
  <2>7. FileInv' /\ AskedInv' /\ AutoStart!OutcomeIsTold'
    BY <1>1, <2>1, <2>3, <2>6 DEF ItemInv, FileInv, AskedInv, AutoStart!OutcomeIsTold,
        AutoStart!Idle, SameAsk
  <2>8. BeforeInv' /\ UntouchedInv'
    BY <1>1, <2>1, <2>4 DEF ItemInv, BeforeInv, UntouchedInv, SameAsk, SameMarks
  <2> QED BY <2>5, <2>7, <2>8 DEF ItemInv
<1> QED
  BY <1>2, <1>3 DEF AutoStart!Create

LEMMA VerifyFailsKeeps == ItemInv /\ AutoStart!VerifyFails => ItemInv'
<1> SUFFICES ASSUME ItemInv, AutoStart!VerifyFails PROVE ItemInv'
  OBVIOUS
<1>1. UNCHANGED <<disk, path, link>> /\ disk \in Seq(Contents) /\ op.blind \in BOOLEAN
  BY DEF AutoStart!VerifyFails, AutoStart!Same, ItemInv, ItemType
<1>2. CASE op' = [op EXCEPT !.pc = "idle", !.blind = TRUE, !.lost = @ \/ op.undo # "no",
                            !.answer = IF op.undo = "no" THEN "conflict" ELSE op.undo]
  BY <1>1, <1>2, BrokenKeeps
<1>3. CASE op' = [op EXCEPT !.pc = "idle", !.lost = @ \/ op.undo # "no",
                            !.answer = IF op.undo = "no" THEN "degraded" ELSE op.undo]
  <2>1. op' = [op EXCEPT !.pc = "idle", !.blind = op.blind, !.lost = @ \/ op.undo # "no",
                         !.answer = IF op.undo = "no" THEN "degraded" ELSE op.undo]
    BY <1>3 DEF ItemInv, ItemType, IsCall
  <2> QED
    BY <1>1, <2>1, BrokenKeeps
<1> QED
  BY <1>2, <1>3 DEF AutoStart!VerifyFails

\* Without its link the item is to be disabled again.
LEMMA UndoKeeps ==
  ASSUME ItemInv, op.pc = "symlink", NEW said \in {"conflict", "failed"}, AutoStart!Undo(said),
         UNCHANGED <<disk, path>>,
         link' \in {"not-required", "missing", "valid", "foreign"}
  PROVE  ItemInv'
<1>1. /\ IsCall(op') /\ op'.pc = "stat" /\ op'.undo = said /\ op'.text = "disabled"
      /\ op'.want = op.want /\ SameMarks(op', op)
  BY DEF AutoStart!Undo, ItemInv, ItemType, IsCall, SameMarks
<1>2. ItemType'
  BY <1>1 DEF ItemInv, ItemType, IsCall, SameMarks
<1>3. FileInv' /\ BeforeInv' /\ AskedInv' /\ UntouchedInv' /\ AutoStart!OutcomeIsTold'
  BY <1>1 DEF ItemInv, FileInv, BeforeInv, AskedInv, UntouchedInv, AutoStart!OutcomeIsTold,
      AutoStart!Idle
<1> QED
  BY <1>2, <1>3 DEF ItemInv

LEMMA SymlinkKeeps == ItemInv /\ AutoStart!Symlink => ItemInv'
<1> SUFFICES ASSUME ItemInv, AutoStart!Symlink PROVE ItemInv'
  OBVIOUS
<1>1. /\ op.pc = "symlink" /\ UNCHANGED <<disk, path>> /\ op.want = TRUE /\ op.undo = "no"
      /\ link \in {"not-required", "missing", "valid", "foreign"}
  BY DEF AutoStart!Symlink, ItemInv, AskedInv, ItemType
<1>2. CASE AutoStart!Undo("conflict") /\ UNCHANGED link
  BY <1>1, <1>2, UndoKeeps
<1>3. CASE link' = "valid" /\ AutoStart!Goto("status")
  <2>1. /\ IsCall(op') /\ op'.pc = "status" /\ op'.link = op.link /\ op'.answer = op.answer
        /\ SameAsk(op', op) /\ SameFile(op', op) /\ SameMarks(op', op)
    BY <1>3, GotoFields DEF ItemInv
  <2>2. ItemType'
    BY <1>1, <1>3, <2>1 DEF ItemInv, ItemType, IsCall, SameAsk, SameMarks
  <2>3. FileInv' /\ BeforeInv' /\ AskedInv' /\ AutoStart!OutcomeIsTold'
    BY <1>1, <2>1 DEF ItemInv, FileInv, BeforeInv, AskedInv, AutoStart!OutcomeIsTold,
        AutoStart!Idle, SameAsk
  <2>4. ~op.touched => AutoStart!Effective' = TRUE
    BY <1>1, <1>3 DEF ItemInv, UntouchedInv, AutoStart!Effective, AutoStart!Text
  <2>5. UntouchedInv'
    BY <1>1, <2>1, <2>4 DEF UntouchedInv, SameAsk, SameMarks
  <2> QED BY <2>2, <2>3, <2>5 DEF ItemInv
<1> QED
  BY <1>2, <1>3 DEF AutoStart!Symlink

LEMMA SymlinkFailsKeeps == ItemInv /\ AutoStart!SymlinkFails => ItemInv'
  BY UndoKeeps DEF AutoStart!SymlinkFails

LEMMA StatusKeeps == ItemInv /\ AutoStart!Status => ItemInv'
<1> SUFFICES ASSUME ItemInv, AutoStart!Status PROVE ItemInv'
  OBVIOUS
<1>1. op.pc = "status" /\ AutoStart!Same /\ UNCHANGED <<disk, path, link>>
  BY DEF AutoStart!Status, AutoStart!Same
<1>2. /\ IsCall(op') /\ op'.pc = "idle" /\ op'.answer = "done"
      /\ SameAsk(op', op) /\ SameMarks(op', op)
  BY DEF AutoStart!Status, ItemInv, ItemType, IsCall, SameAsk, SameMarks
<1>3. ItemType'
  BY <1>1, <1>2 DEF ItemInv, ItemType, IsCall, SameAsk, SameMarks
<1>4. FileInv' /\ BeforeInv' /\ AskedInv' /\ UntouchedInv'
  BY <1>2 DEF FileInv, BeforeInv, AskedInv, UntouchedInv
<1>5. ~op.touched => AutoStart!Effective' = op'.want
  <2>1. AutoStart!Effective' = AutoStart!Effective /\ op'.want = op.want
    BY <1>1, <1>2, SameItem DEF SameAsk, AutoStart!Effective
  <2> QED BY <1>1, <2>1 DEF ItemInv, UntouchedInv
<1>6. AutoStart!OutcomeIsTold'
  BY <1>2, <1>5 DEF AutoStart!OutcomeIsTold, SameMarks
<1> QED
  BY <1>3, <1>4, <1>6 DEF ItemInv

LEMMA BeginKeepsItem == ItemInv /\ (\E enabled \in BOOLEAN : AutoStart!Begin(enabled)) => ItemInv'
<1> SUFFICES ASSUME ItemInv, NEW enabled \in BOOLEAN, AutoStart!Begin(enabled) PROVE ItemInv'
  OBVIOUS
<1> DEFINE pc == IF enabled THEN "link" ELSE "check"
<1>1. AutoStart!Same /\ UNCHANGED <<disk, path, link>>
  BY DEF AutoStart!Begin, AutoStart!Same
<1>2. op' = [op EXCEPT !.pc = pc, !.want = enabled,
                       !.before = AutoStart!Text, !.undo = "no", !.answer = "none",
                       !.touched = FALSE, !.blind = FALSE, !.lost = FALSE]
  BY DEF AutoStart!Begin
<1>3. pc \in {"link", "check"} /\ (pc = "link" => enabled) /\ (pc = "check" => ~enabled)
  OBVIOUS
<1> HIDE DEF pc
<1>4. /\ IsCall(op') /\ op'.pc = pc /\ op'.want = enabled /\ op'.before = AutoStart!Text
      /\ op'.undo = "no" /\ op'.text = op.text /\ op'.touched = FALSE
      /\ op'.blind = FALSE /\ op'.lost = FALSE
  BY <1>2 DEF ItemInv, ItemType, IsCall
<1>5. ItemType'
  BY <1>1, <1>3, <1>4 DEF ItemInv, ItemType, IsCall
<1>6. FileInv' /\ BeforeInv' /\ AskedInv' /\ UntouchedInv' /\ AutoStart!OutcomeIsTold'
  BY <1>1, <1>3, <1>4, SameItem
  DEF FileInv, BeforeInv, AskedInv, UntouchedInv, AutoStart!OutcomeIsTold, AutoStart!Idle
<1> QED
  BY <1>5, <1>6 DEF ItemInv

LEMMA CrashKeeps == ItemInv /\ AutoStart!Crash => ItemInv'
<1> SUFFICES ASSUME ItemInv, AutoStart!Crash PROVE ItemInv'
  OBVIOUS
<1>1. UNCHANGED <<disk, path, link>>
  BY DEF AutoStart!Crash, AutoStart!Same
<1>2. /\ IsCall(op') /\ op'.pc = "idle" /\ op'.answer = "none"
      /\ SameAsk(op', op) /\ SameMarks(op', op)
  BY DEF AutoStart!Crash, ItemInv, ItemType, IsCall, SameAsk, SameMarks
<1>3. ItemType'
  BY <1>1, <1>2 DEF ItemInv, ItemType, IsCall, SameAsk, SameMarks
<1>4. FileInv' /\ BeforeInv' /\ AskedInv' /\ UntouchedInv' /\ AutoStart!OutcomeIsTold'
  BY <1>2 DEF FileInv, BeforeInv, AskedInv, UntouchedInv, AutoStart!OutcomeIsTold
<1> QED
  BY <1>3, <1>4 DEF ItemInv

\* Another program may put a file of its own in the place of the item, or take it away.
LEMMA OutsideKeeps == ItemInv /\ AutoStart!Outside => ItemInv'
<1> SUFFICES ASSUME ItemInv, AutoStart!Outside PROVE ItemInv'
  OBVIOUS
<1>1. /\ IsCall(op') /\ op'.pc = op.pc /\ op'.link = op.link /\ op'.answer = op.answer
      /\ op'.touched = TRUE /\ op'.blind = op.blind /\ op'.lost = op.lost
      /\ SameAsk(op', op) /\ SameFile(op', op)
  BY DEF AutoStart!Outside, ItemInv, ItemType, IsCall, SameAsk, SameFile
<1>2. disk \in Seq(Contents) /\ "foreign" \in Contents /\ path \in 0..Len(disk)
  BY DEF ItemInv, ItemType, Contents
<1>3. /\ disk' \in Seq(Contents) /\ path' \in 0..Len(disk') /\ Len(disk) <= Len(disk')
      /\ link' \in {"not-required", "missing", "valid", "foreign"}
      /\ \A i \in 1..Len(disk) : disk'[i] = disk[i]
      /\ \/ path' = path /\ AutoStart!Text' = AutoStart!Text
         \/ path' \notin 1..Len(disk) /\ AutoStart!Text' \in {"missing", "foreign"}
  <2>1. CASE path' = Len(disk) + 1 /\ disk' = Append(disk, "foreign") /\ UNCHANGED link
    <3>1. /\ disk' \in Seq(Contents) /\ Len(disk') = Len(disk) + 1 /\ Len(disk) \in Nat
          /\ disk'[Len(disk) + 1] = "foreign" /\ \A i \in 1..Len(disk) : disk'[i] = disk[i]
      BY <1>2, <2>1
    <3>2. AutoStart!Text' = "foreign"
      BY <2>1, <3>1 DEF AutoStart!Text
    <3> QED
      BY <2>1, <3>1, <3>2 DEF ItemInv, ItemType
  <2>2. CASE path' = 0 /\ UNCHANGED <<disk, link>>
    <3>1. AutoStart!Text' = "missing"
      BY <2>2 DEF AutoStart!Text
    <3>2. Len(disk) \in Nat
      BY <1>2
    <3> QED
      BY <1>2, <2>2, <3>1, <3>2 DEF ItemInv, ItemType
  <2>3. CASE link' \in {"missing", "valid", "foreign"} /\ UNCHANGED <<disk, path>>
    <3>1. AutoStart!Text' = AutoStart!Text /\ Len(disk) \in Nat
      BY <1>2, <2>3 DEF AutoStart!Text
    <3> QED
      BY <1>2, <2>3, <3>1
  <2> QED
    BY <2>1, <2>2, <2>3 DEF AutoStart!Outside
<1>4. ItemType'
  BY <1>1, <1>3 DEF ItemInv, ItemType, IsCall, SameAsk
<1>5. \A i : Replaced(i) => Replaced(i)' /\ disk'[i] = disk[i]
  <2>1. Len(disk) \in Nat /\ Len(disk') \in Nat
    BY <1>2, <1>3
  <2> QED BY <1>3, <2>1 DEF Replaced
<1>6. op.pc = "open" => Replaced(op.id)
  BY DEF ItemInv, FileInv
<1>7. FileInv'
  BY <1>1, <1>3, <1>5, <1>6 DEF ItemInv, FileInv, SameAsk, SameFile
<1>8. BeforeInv' /\ AskedInv' /\ UntouchedInv'
  BY <1>1, <1>3 DEF ItemInv, BeforeInv, AskedInv, UntouchedInv, SameAsk, SameFile
<1>9. AutoStart!OutcomeIsTold'
  BY <1>1, <1>3 DEF ItemInv, AutoStart!OutcomeIsTold, AutoStart!Idle, SameAsk
<1> QED
  BY <1>4, <1>7, <1>8, <1>9 DEF ItemInv

LEMMA ItemInit == AutoStart!Init => ItemInv
<1> SUFFICES ASSUME AutoStart!Init PROVE ItemInv
  OBVIOUS
<1>1. /\ IsCall(op) /\ op.pc = "idle" /\ op.want = FALSE /\ op.text = "disabled"
      /\ op.undo = "no" /\ op.answer = "none" /\ op.touched = FALSE /\ op.blind = FALSE
      /\ op.lost = FALSE
  BY DEF AutoStart!Init, IsCall
<1>2. disk \in Seq(Contents) /\ path \in 0..Len(disk)
  <2>1. CASE path = 0 /\ disk = <<>>
    BY <2>1
  <2>2. ASSUME path = 1, NEW text \in AutoStart!Managed \cup {"foreign", "empty"}, disk = <<text>>
        PROVE  disk \in Seq(Contents) /\ path \in 0..Len(disk)
    <3>1. text \in Contents
      BY DEF Contents
    <3>2. <<text>> \in Seq(Contents) /\ Len(<<text>>) = 1
      BY <3>1
    <3> QED BY <2>2, <3>2
  <2> QED BY <2>1, <2>2 DEF AutoStart!Init
<1>3. ItemType
  BY <1>1, <1>2 DEF AutoStart!Init, ItemType
<1>4. FileInv /\ BeforeInv /\ AskedInv /\ UntouchedInv /\ AutoStart!OutcomeIsTold
  BY <1>1 DEF FileInv, BeforeInv, AskedInv, UntouchedInv, AutoStart!OutcomeIsTold
<1> QED
  BY <1>3, <1>4 DEF ItemInv

LEMMA ItemStep == ItemInv /\ [AutoStart!Next]_(AutoStart!vars) => ItemInv'
<1> SUFFICES ASSUME ItemInv, [AutoStart!Next]_(AutoStart!vars) PROVE ItemInv'
  OBVIOUS
<1>1. CASE UNCHANGED AutoStart!vars
  BY <1>1 DEF AutoStart!vars, ItemInv, ItemType, IsCall, FileInv, BeforeInv, AskedInv, UntouchedInv,
     AutoStart!OutcomeIsTold, AutoStart!Idle, AutoStart!Effective, AutoStart!Text, Replaced
<1>2. CASE AutoStart!Step
  BY <1>2, InspectLinkKeeps, CheckKeeps, StatKeeps, ReadKeeps, OpenKeeps, TruncateKeeps,
     WriteKeeps, VerifyKeeps, CreateKeeps, FillKeeps, PublishedKeeps, SymlinkKeeps, StatusKeeps,
     WriteFailsKeeps, VerifyFailsKeeps, SymlinkFailsKeeps DEF AutoStart!Step
<1> QED
  BY <1>1, <1>2, CrashKeeps, OutsideKeeps, BeginKeepsItem DEF AutoStart!Next

\* The file that is written is not somebody else's.
LEMMA ForeignStep ==
  ItemInv /\ [AutoStart!Next]_(AutoStart!vars) => [AutoStart!KeepsForeign]_(AutoStart!vars)
<1> SUFFICES ASSUME ItemInv, AutoStart!Next PROVE AutoStart!KeepsForeign
  OBVIOUS
<1>1. disk \in Seq(Contents) /\ Len(disk) \in Nat
  BY DEF ItemInv, ItemType
<1>2. ASSUME UNCHANGED disk PROVE AutoStart!KeepsForeign
  BY <1>2 DEF AutoStart!KeepsForeign
<1>3. ASSUME NEW text, disk' = Append(disk, text) PROVE AutoStart!KeepsForeign
  BY <1>1, <1>3 DEF AutoStart!KeepsForeign
<1>4. ASSUME NEW text, disk' = [disk EXCEPT ![op.fd] = text],
             op.pc \in {"truncate", "write", "fill"}
      PROVE  AutoStart!KeepsForeign
  <2>1. disk[op.fd] # "foreign"
    BY <1>4 DEF ItemInv, FileInv
  <2> QED BY <1>1, <1>4, <2>1 DEF AutoStart!KeepsForeign
<1>5. CASE AutoStart!Step
  <2>1. \/ AutoStart!InspectLink \/ AutoStart!Check \/ AutoStart!Stat \/ AutoStart!Read
        \/ AutoStart!OpenExisting \/ AutoStart!Verify \/ AutoStart!Published
        \/ AutoStart!Symlink \/ AutoStart!Status \/ AutoStart!VerifyFails
        \/ AutoStart!SymlinkFails
        => UNCHANGED disk
    BY DEF AutoStart!InspectLink, AutoStart!Check, AutoStart!Stat, AutoStart!Read,
       AutoStart!OpenExisting, AutoStart!Verify, AutoStart!Published, AutoStart!Symlink,
       AutoStart!Status, AutoStart!VerifyFails, AutoStart!SymlinkFails, AutoStart!Same
  <2>2. AutoStart!Create => AutoStart!KeepsForeign
    BY <1>2, <1>3 DEF AutoStart!Create
  <2>3. AutoStart!Truncate \/ AutoStart!Write \/ AutoStart!Fill => AutoStart!KeepsForeign
    BY <1>4 DEF AutoStart!Truncate, AutoStart!Write, AutoStart!Fill
  <2>4. AutoStart!WriteFails => AutoStart!KeepsForeign
    BY <1>2, <1>4 DEF AutoStart!WriteFails
  <2> QED
    BY <1>2, <1>5, <2>1, <2>2, <2>3, <2>4 DEF AutoStart!Step
<1>6. CASE AutoStart!Crash \/ \E enabled \in BOOLEAN : AutoStart!Begin(enabled)
  BY <1>2, <1>6 DEF AutoStart!Crash, AutoStart!Begin, AutoStart!Same
<1>7. CASE AutoStart!Outside
  BY <1>2, <1>3, <1>7 DEF AutoStart!Outside
<1> QED
  BY <1>5, <1>6, <1>7 DEF AutoStart!Next

LEMMA ItemInvariant == AutoStart!Spec => []ItemInv /\ [][AutoStart!KeepsForeign]_(AutoStart!vars)
  BY ItemInit, ItemStep, ForeignStep, PTL DEF AutoStart!Spec

------------------------
(* The theorems *)

\* The count of a client key is the number of requests it let through, in whatever order an
\* edit's reading and writing and the counting of requests come.
THEOREM KeysAreCounted == Spec => []GrantsCounted
<1>1. Access!Spec => []Access!GrantsCounted
  <2>1. GrantsInv => Access!GrantsCounted
    BY DEF GrantsInv
  <2> QED BY <2>1, GrantsInit, GrantsStep, PTL DEF Access!Spec
<1>2. GrantsCounted <=> (part = "access" => Access!GrantsCounted)
  BY DEF GrantsCounted
<1>3. [Next]_vars => ((part = "access")' <=> (part = "access"))
  BY PartStays
<1> QED
  BY <1>1, <1>2, <1>3, AccessPart, PTL DEF Spec

\* No change of a file that is written under a lock is lost: each write is one process's
\* change of the file as it then is.
THEOREM StoresLoseNothing == Spec => NoLostWrite
<1>1. Locked!Spec => [][Locked!NoLostWrite]_(Locked!vars)
  BY NamesAssumption, WritersKeepChanges
<1>2. [Locked!NoLostWrite]_(Locked!vars) => [Locked!NoLostWrite]_vars
  BY DEF Locked!vars, vars, lockedVars, Locked!NoLostWrite
<1>3. [Next]_vars => ((part = "locked")' <=> (part = "locked"))
  BY PartStays
<1>4. ASSUME part = "locked" => [Locked!NoLostWrite]_vars
      PROVE  [part = "locked" => Locked!NoLostWrite]_vars
  BY <1>4
<1> QED
  BY <1>1, <1>2, <1>3, <1>4, LockedPart, PTL DEF Spec, NoLostWrite

\* A lock or a gate that stays while no process is at work is one that a process died with,
\* or one that a store says it has left behind.
THEOREM LeftLocksAreKnown == Spec => []LeftLockIsKnown
<1>1. Locked!Spec => []Locked!LeftLockIsKnown
  BY NamesAssumption, LocksAreAnsweredFor
<1>2. LeftLockIsKnown <=> (part = "locked" => Locked!LeftLockIsKnown)
  BY DEF LeftLockIsKnown
<1>3. [Next]_vars => ((part = "locked")' <=> (part = "locked"))
  BY PartStays
<1> QED
  BY <1>1, <1>2, <1>3, LockedPart, PTL DEF Spec

\* A request keeps the database its record began under, whatever settings are applied and
\* whatever preparation ends meanwhile.
THEOREM RecordsStayHome == Spec => []RecordsGoHome
<1>1. Capture!Spec => []Capture!RecordsGoHome
  BY CaptureInvariant, CaptureInvHome, PTL
<1>2. RecordsGoHome <=> (part = "capture" => Capture!RecordsGoHome)
  BY DEF RecordsGoHome
<1>3. [Next]_vars => ((part = "capture")' <=> (part = "capture"))
  BY PartStays
<1> QED
  BY <1>1, <1>2, <1>3, CapturePart, PTL DEF Spec

\* When nothing is under way Capture is what the settings that were applied last ask for,
\* or says that it failed.
THEOREM CaptureEndsAsAsked == Spec => []CaptureSettles
<1>1. Capture!Spec => []Capture!CaptureSettles
  BY CaptureInvariant, CaptureInvSettles, PTL
<1>2. CaptureSettles <=> (part = "capture" => Capture!CaptureSettles)
  BY DEF CaptureSettles
<1>3. [Next]_vars => ((part = "capture")' <=> (part = "capture"))
  BY PartStays
<1> QED
  BY <1>1, <1>2, <1>3, CapturePart, PTL DEF Spec

\* A file of another program is not overwritten, even one that comes between the inspection
\* of the item and the write, and the answer of a call says what it did to the item.
THEOREM StartupItemStaysTrue == Spec => StartupItemIsTrue
<1>1. ItemInv => AutoStart!OutcomeIsTold
  BY DEF ItemInv
<1>2. [AutoStart!KeepsForeign]_(AutoStart!vars) => [AutoStart!KeepsForeign]_vars
  BY DEF AutoStart!vars, vars, autostartVars, AutoStart!KeepsForeign
<1>3. [Next]_vars => ((part = "autostart")' <=> (part = "autostart"))
  BY PartStays
<1>4. ASSUME part = "autostart" => [AutoStart!KeepsForeign]_vars
      PROVE  [part = "autostart" => AutoStart!KeepsForeign]_vars
  BY <1>4
<1> QED
  BY <1>1, <1>2, <1>3, <1>4, ItemInvariant, AutoStartPart, PTL DEF Spec, StartupItemIsTrue

\* No edit of a valid registry is refused as a broken one, the error that tells the user to
\* restore a backup, unless the clock is behind a change that was made.
THEOREM RegistryEditsAreMade == Spec => []EditsStayValid
<1>1. Pool!Spec => []Pool!EditsStayValid
  BY RegistriesFit, Pool!EditsAreNotRefused
<1>2. Groups!Spec => []Groups!EditsStayValid
  BY RegistriesFit, Groups!EditsAreNotRefused
<1>3. Clocks!Spec => []Clocks!EditsStayValid
  BY RegistriesFit, Clocks!EditsAreNotRefused
<1>4. Choices!Spec => []Choices!EditsStayValid
  BY RegistriesFit, Choices!EditsAreNotRefused
<1>5. Settings!Spec => []Settings!EditsStayValid
  BY RegistriesFit, Settings!EditsAreNotRefused
<1>6. EditsStayValid <=>
        /\ part = "pool" => Pool!EditsStayValid
        /\ part = "groups" => Groups!EditsStayValid
        /\ part = "clocks" => Clocks!EditsStayValid
        /\ part = "choices" => Choices!EditsStayValid
        /\ part = "settings" => Settings!EditsStayValid
  BY DEF EditsStayValid
<1>7. [Next]_vars => ((part = "pool")' <=> (part = "pool"))
  BY PartStays
<1>8. [Next]_vars => ((part = "groups")' <=> (part = "groups"))
  BY PartStays
<1>9. [Next]_vars => ((part = "clocks")' <=> (part = "clocks"))
  BY PartStays
<1>10. [Next]_vars => ((part = "choices")' <=> (part = "choices"))
  BY PartStays
<1>11. [Next]_vars => ((part = "settings")' <=> (part = "settings"))
  BY PartStays
<1> QED
  BY <1>1, <1>2, <1>3, <1>4, <1>5, <1>6, <1>7, <1>8, <1>9, <1>10, <1>11, PoolPart, GroupsPart, ClocksPart, ChoicesPart, SettingsPart, PTL DEF Spec
=============================================================================
