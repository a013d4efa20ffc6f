----------------------------- MODULE LockedStore -----------------------------
(***************************************************************************)
(* The JSON files that the Supervisor, the command line and a migration    *)
(* share, each changed under a lock file: the activity log                 *)
(* (activity-store.mjs), the credential file (file-credential-store.mjs),  *)
(* the provider registry (provider-registry.mjs) and the provider model    *)
(* cache (provider-model-cache.mjs).  A change is made of synchronous file *)
(* calls, so a process runs one at a time, but every call is a step that   *)
(* other processes can come between: open the lock with "wx", write a      *)
(* token into it, load the document, replace the file by a rename, and     *)
(* give the lock back, which each store does in its own way.               *)
(*                                                                         *)
(* A call may fault (for the calls that are tried LOCK_CLEANUP_ATTEMPTS    *)
(* times: all of them) and a process may die between any two.  What a      *)
(* store does then is to leave the lock and to refuse its own later        *)
(* changes ("degraded").                                                   *)
(***************************************************************************)
EXTENDS Naturals, Sequences

CONSTANTS
  Processes,      \* the operating-system processes that open the store
  Keys,           \* what the entries of a document are identified by
  MaxEntries,     \* maxEvents, MAX_MODEL_CACHE_ENTRIES
  MaxChanges,     \* bound: changes begun in a behaviour
  MaxFaults,      \* bound: file calls that fail
  MaxCrashes      \* bound: processes that die or are restarted

\* No process is called what stands for nobody.
NamesApart == Processes \cap {"nobody", "absent"} = {}

VARIABLES
  protocol,       \* which of the four stores this behaviour is about; never changes
  doc,            \* the file: the sequence of its entries
  lock,           \* lockPath: Absent, or who made the file and whether its token is in it
  gate,           \* gatePath, of the credential store: Absent, its maker, or "left"
  proc,           \* the processes
  changes, faults, crashes

vars == <<protocol, doc, lock, gate, proc, changes, faults, crashes>>

Absent == [by |-> "nobody", written |-> FALSE]
Marker == [by |-> "marker", written |-> TRUE]
Token(p) == [by |-> p, written |-> TRUE]

Protocols == {"activity", "credential", "registry", "cache"}

\* A change: an entry is put (appended, by the activity log) or deleted.
Changes == [kind : {"put", "delete"}, key : Keys]

NoChange == [kind |-> "none", key |-> "none"]

Idle == [pc |-> "idle", change |-> NoChange, version |-> 0, seen |-> <<>>, claim |-> Absent,
         failed |-> FALSE, committed |-> FALSE, clean |-> TRUE, residual |-> FALSE,
         degraded |-> FALSE, reply |-> "none"]

------------------------
(* What the changes do to a document. *)

Has(d, k) == \E i \in DOMAIN d : d[i].key = k
Without(d, k) == SelectSeq(d, LAMBDA e : e.key # k)
Entry(me) == [key |-> me.change.key, version |-> me.version]

\* The newest MaxEntries events are retained.
Appended(d, me) ==
  LET all == Append(d, Entry(me))
  IN SubSeq(all, IF Len(all) > MaxEntries THEN Len(all) - MaxEntries + 1 ELSE 1, Len(all))

Stored(d, me) ==
  IF Has(d, me.change.key)
    THEN [i \in DOMAIN d |-> IF d[i].key = me.change.key THEN Entry(me) ELSE d[i]]
    ELSE Append(d, Entry(me))

\* #commit's mutator.
Changed(d, me) ==
  CASE me.change.kind = "delete" -> Without(d, me.change.key)
    [] protocol = "activity" -> Appended(d, me)
    [] OTHER -> Stored(d, me)

\* The cache and the registry do not write a change that changes nothing.
Unneeded(d, me) ==
  /\ protocol \in {"cache", "registry"}
  /\ me.change.kind = "delete"
  /\ ~Has(d, me.change.key)

\* cache entry limit reached
Refused(d, me) ==
  /\ protocol = "cache"
  /\ me.change.kind = "put"
  /\ ~Has(d, me.change.key)
  /\ Len(d) >= MaxEntries

------------------------
(* The steps. *)

Update(p, me) == proc' = [proc EXCEPT ![p] = me]
Goto(p, pc) == Update(p, [proc[p] EXCEPT !.pc = pc])
Fault == faults < MaxFaults /\ faults' = faults + 1
NoFault == UNCHANGED faults
Same == UNCHANGED <<protocol, changes, crashes>>

\* Mutant of Ended: only a change that was committed looks at what its release left.
MutantEnded(me) ==
  [Idle EXCEPT !.degraded = me.residual /\ me.committed,
               !.reply = IF me.failed THEN "failed" ELSE "ok"]

\* The end of a change: what the caller is told, and whether the store is degraded.  A lock
\* that was not removed degrades the store; a descriptor that was not closed only the answer.
Ended(me) ==
  [Idle EXCEPT !.degraded = me.residual,
               !.reply = IF me.failed THEN "failed"
                         ELSE IF me.clean THEN "ok"
                         ELSE IF me.committed THEN "committed_degraded" ELSE "degraded"]

End(p, me) == Update(p, Ended(me))
LeftBehind(me) == [me EXCEPT !.clean = FALSE, !.residual = TRUE]

FirstRelease == IF protocol = "credential" THEN "releaseGate" ELSE "close"

Begin(p, change) ==
  /\ proc[p].pc = "idle" /\ ~proc[p].degraded /\ changes < MaxChanges
  /\ protocol = "activity" => change.kind = "put"
  /\ Update(p, [Idle EXCEPT !.pc = IF protocol = "credential" THEN "gate" ELSE "open",
                            !.change = change, !.version = changes + 1])
  /\ changes' = changes + 1
  /\ UNCHANGED <<protocol, doc, lock, gate, faults, crashes>>

\* #acquireGate; a directory that cannot be looked at stays.
AcquireGate(p) ==
  /\ proc[p].pc = "gate"
  /\ \/ /\ gate # "absent"
        /\ Update(p, [Idle EXCEPT !.reply = "busy"])
        /\ NoFault /\ UNCHANGED gate
     \/ /\ gate = "absent" /\ gate' = p
        /\ \/ Goto(p, "open") /\ NoFault
           \/ Fault /\ End(p, LeftBehind([proc[p] EXCEPT !.failed = TRUE]))
  /\ Same /\ UNCHANGED <<doc, lock>>

\* Mutant of OpenLock: "w" for "wx", the lock is made although it is there.
MutantOpenLock(p) ==
  /\ proc[p].pc = "open"
  /\ lock' = [by |-> p, written |-> FALSE] /\ Goto(p, "token")
  /\ Same /\ NoFault /\ UNCHANGED <<doc, gate>>

\* openSync(lockPath, "wx").
OpenLock(p) ==
  /\ proc[p].pc = "open"
  /\ IF lock = Absent
       THEN lock' = [by |-> p, written |-> FALSE] /\ Goto(p, "token")
       ELSE /\ UNCHANGED lock
            /\ IF protocol = "credential" THEN Goto(p, "busyGate")
                                          ELSE Update(p, [Idle EXCEPT !.reply = "busy"])
  /\ Same /\ NoFault /\ UNCHANGED <<doc, gate>>

\* The token is written; the activity log also flushes, closes and chmods the file.
WriteToken(p) ==
  LET failing == [proc[p] EXCEPT !.failed = TRUE, !.pc = FirstRelease]
  IN /\ proc[p].pc = "token"
     /\ \/ lock' = [lock EXCEPT !.written = TRUE] /\ Goto(p, "load") /\ NoFault
        \/ Fault /\ UNCHANGED lock /\ Update(p, failing)
        \/ /\ protocol = "activity"
           /\ Fault /\ lock' = [lock EXCEPT !.written = TRUE] /\ Update(p, failing)
     /\ Same /\ UNCHANGED <<doc, gate>>

\* The document is read again under the lock, never taken from memory.
Load(p) ==
  LET me == proc[p]
      failing == [me EXCEPT !.failed = TRUE, !.pc = FirstRelease]
  IN /\ me.pc = "load"
     /\ \/ Fault /\ Update(p, failing)
        \/ /\ NoFault
           /\ Update(p, IF Refused(doc, me) THEN failing
                        ELSE IF Unneeded(doc, me) THEN [me EXCEPT !.pc = FirstRelease]
                        ELSE [me EXCEPT !.seen = doc, !.pc = "persist"])
     /\ Same /\ UNCHANGED <<doc, lock, gate>>

\* #persist: a temporary file that is renamed over the document, or removed again.  The
\* credential store that cannot remove it refuses every later change.
Persist(p) ==
  LET me == proc[p]
  IN /\ me.pc = "persist"
     /\ \/ /\ doc' = Changed(me.seen, me) /\ NoFault
           /\ Update(p, [me EXCEPT !.committed = TRUE, !.pc = FirstRelease])
        \/ /\ Fault /\ UNCHANGED doc
           /\ Update(p, [me EXCEPT !.failed = TRUE, !.pc = FirstRelease])
        \/ /\ protocol = "credential" /\ Fault /\ UNCHANGED doc
           /\ Update(p, [me EXCEPT !.failed = TRUE, !.residual = TRUE, !.pc = FirstRelease])
     /\ Same /\ UNCHANGED <<lock, gate>>

\* #releaseGate: the directory is renamed away, looked at and removed.
AfterGate(p, me) ==
  IF me.pc = "busyGate" THEN Update(p, [Ended(me) EXCEPT !.reply = "busy"])
                        ELSE Update(p, [me EXCEPT !.pc = "close"])

ReleaseGate(p) ==
  LET me == proc[p]
  IN /\ me.pc \in {"releaseGate", "busyGate"}
     /\ \/ gate' = "absent" /\ NoFault /\ AfterGate(p, me)
        \/ gate' = "absent" /\ Fault /\ AfterGate(p, LeftBehind(me))     \* rmdir of the claim
        \/ /\ gate' = "absent" /\ Fault                                  \* lstat of the claim
           /\ Update(p, [LeftBehind(me) EXCEPT !.pc = IF me.pc = "busyGate" THEN "busyBlock"
                                                                            ELSE "gateBlock"])
        \/ UNCHANGED gate /\ Fault /\ AfterGate(p, LeftBehind(me))       \* the rename
     /\ Same /\ UNCHANGED <<doc, lock>>

\* #ensureGateBlocked.  When even that fails the lock is not removed.
EnsureGateBlocked(p) ==
  LET me == proc[p]
      next == [me EXCEPT !.pc = IF me.pc = "busyBlock" THEN "busyGate" ELSE "releaseGate"]
  IN /\ me.pc \in {"busyBlock", "gateBlock"}
     /\ \/ gate' = (IF gate = "absent" THEN "left" ELSE gate) /\ NoFault /\ AfterGate(p, next)
        \/ gate = "absent" /\ UNCHANGED gate /\ Fault
           /\ IF me.pc = "busyBlock" THEN AfterGate(p, next) ELSE End(p, me)
     /\ Same /\ UNCHANGED <<doc, lock>>

\* #closeLock; the activity log has closed its lock before.
CloseLock(p) ==
  LET me == [proc[p] EXCEPT !.pc = "remove"]
  IN /\ proc[p].pc = "close"
     /\ \/ Update(p, me) /\ NoFault
        \/ protocol # "activity" /\ Fault /\ Update(p, [me EXCEPT !.clean = FALSE])
     /\ Same /\ UNCHANGED <<doc, lock, gate>>

\* #releaseLock of the activity log, #removeOwnedLock of the credentials: the lock is
\* renamed to a name of the process's own, and looked at there.
ClaimLock(p) ==
  LET me == proc[p]
  IN /\ me.pc = "remove" /\ protocol \in {"activity", "credential"}
     /\ \/ /\ lock # Absent /\ lock' = Absent /\ NoFault
           /\ Update(p, [me EXCEPT !.claim = lock, !.pc = "compare"])
        \/ /\ lock = Absent /\ UNCHANGED lock /\ NoFault
           /\ End(p, IF protocol = "activity" THEN LeftBehind(me) ELSE me)
        \/ lock # Absent /\ UNCHANGED lock /\ Fault /\ End(p, LeftBehind(me))
     /\ Same /\ UNCHANGED <<doc, gate>>

CompareClaim(p) ==
  LET me == proc[p]
  IN /\ me.pc = "compare"
     /\ \/ me.claim = Token(p) /\ NoFault /\ End(p, me)
        \/ me.claim = Token(p) /\ Fault /\ Update(p, [LeftBehind(me) EXCEPT !.pc = "restore"])
        \/ me.claim # Token(p) /\ NoFault /\ Update(p, [LeftBehind(me) EXCEPT !.pc = "restore"])
     /\ Same /\ UNCHANGED <<doc, lock, gate>>

\* #restoreClaim renames the claim over whatever the lock is by then.
RestoreClaim(p) ==
  /\ proc[p].pc = "restore" /\ protocol = "activity"
  /\ \/ lock' = proc[p].claim /\ NoFault
     \/ UNCHANGED lock /\ Fault
  /\ End(p, proc[p])
  /\ Same /\ UNCHANGED <<doc, gate>>

\* #ensureCanonicalBlocked links the claim to the lock, or makes a marker, if none is there.
EnsureCanonicalBlocked(p) ==
  /\ proc[p].pc = "restore" /\ protocol = "credential"
  /\ \/ lock' = (IF lock = Absent THEN proc[p].claim ELSE lock) /\ NoFault
     \/ lock = Absent /\ lock' \in {Absent, Marker} /\ Fault
  /\ End(p, proc[p])
  /\ Same /\ UNCHANGED <<doc, gate>>

\* #removeOwnedLock of the registry and of the cache: read, compare, remove.
CompareLock(p) ==
  LET me == proc[p]
  IN /\ me.pc = "remove" /\ protocol \in {"registry", "cache"}
     /\ \/ lock = Token(p) /\ NoFault /\ Goto(p, "unlink")
        \/ lock = Absent /\ NoFault /\ End(p, me)
        \/ lock # Absent /\ lock # Token(p) /\ NoFault /\ End(p, LeftBehind(me))
        \/ lock # Absent /\ Fault /\ End(p, LeftBehind(me))
     /\ Same /\ UNCHANGED <<doc, lock, gate>>

RemoveLock(p) ==
  /\ proc[p].pc = "unlink"
  /\ \/ lock' = Absent /\ NoFault /\ End(p, proc[p])
     \/ UNCHANGED lock /\ Fault /\ End(p, LeftBehind(proc[p]))
  /\ Same /\ UNCHANGED <<doc, gate>>

\* A process dies, or is restarted: its files stay, what it knew of them is gone.
Crash(p) ==
  /\ crashes < MaxCrashes
  /\ proc[p].pc # "idle" \/ proc[p].degraded
  /\ Update(p, Idle)
  /\ crashes' = crashes + 1
  /\ UNCHANGED <<protocol, doc, lock, gate, changes, faults>>

Init ==
  /\ protocol \in Protocols
  /\ doc = <<>> /\ lock = Absent /\ gate = "absent"
  /\ proc = [p \in Processes |-> Idle]
  /\ changes = 0 /\ faults = 0 /\ crashes = 0

Step(p) ==
  \/ \E change \in Changes : Begin(p, change)
  \/ AcquireGate(p) \/ OpenLock(p) \/ WriteToken(p) \/ Load(p) \/ Persist(p)
  \/ ReleaseGate(p) \/ EnsureGateBlocked(p) \/ CloseLock(p)
  \/ ClaimLock(p) \/ CompareClaim(p) \/ RestoreClaim(p) \/ EnsureCanonicalBlocked(p)
  \/ CompareLock(p) \/ RemoveLock(p)
  \/ Crash(p)

Next == \E p \in Processes : Step(p)

Spec == Init /\ [][Next]_vars

------------------------
(* Properties. *)

\* No change of another process is lost: whatever faults and crashes came before, the file
\* is replaced by what the change of one process makes of the file as it then is.  (A lock
\* that is renamed away and put back over a newer one, as the activity log does, or removed
\* after it was compared, as the registry does, must never let two writers in.)
NoLostWrite == doc' # doc => \E p \in Processes : doc' = Changed(doc, proc[p])

\* A lock nobody holds is never left silently: if it, or the gate, stays while no process
\* is at work, a process has died or some process refuses to go on and can say why.
LeftLockIsKnown ==
  /\ lock # Absent \/ gate # "absent"
  /\ \A p \in Processes : proc[p].pc = "idle"
  => crashes > 0 \/ \E p \in Processes : proc[p].degraded
=============================================================================
