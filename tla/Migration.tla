------------------------------- MODULE Migration -------------------------------
(***************************************************************************)
(* The migration every Supervisor runs before anything else                *)
(* (supervisor/migration.mjs).  Under two lock files it either puts an     *)
(* invalid providers.json aside, or upgrades an old one, or imports the    *)
(* Providers of two legacy files: their secrets go to the credential       *)
(* store, then a registry that names them is written, then the legacy      *)
(* files are scrubbed.  A start may fail or die at every step; a later     *)
(* start finishes what a dead one left of putting a registry aside.        *)
(*                                                                         *)
(* A file is known by who wrote it, what it is and what it is about: that  *)
(* is its inode and its content at once.                                   *)
(***************************************************************************)
EXTENDS Naturals

CONSTANTS
  Slots,          \* Supervisors that may be starting at the same time
  Sources,        \* the legacy files
  MaxStarts,      \* bound: starts
  MaxFaults,      \* bound: file operations, credentials or Activity events that fail
  MaxDeaths       \* bound: starts that die

VARIABLES
  files,          \* the registry and what lies beside it
  sources,        \* the legacy files; one that is "forgotten" was scrubbed by a start that does
                  \* not know it (for the program no other file than one that is "scrubbed")
  credentials,    \* <<start, source>> in the credential store
  starts,         \* the starts at work
  raced,          \* a start has taken away a file that was not the one it meant, or put one
                  \* back, or taken the lock after another start had written a journal that is
                  \* still there
  used            \* what of the bounds is used up

migrationVars == <<files, sources, credentials, starts, raced, used>>

Locks == {"migrationLock", "registryLock"}
Names == Locks \union {"registry", "marker", "journal"}

File(by, kind, of) == [by |-> by, kind |-> kind, of |-> of]
Absent  == File(0, "absent", {})
Blocked == File(0, "torn", {})              \* "migration-degraded" is no token
Lock(id) == File(id, "whole", {})
Torn(id) == File(id, "torn", {})
Invalid(registry) == registry.kind \in {"bad", "torn"}

Idle ==
  [pc |-> "idle", id |-> 0, seen |-> [n \in Names |-> Absent], claim |-> Absent, todo |-> {},
   scrubbed |-> {}, imports |-> {}, upgraded |-> FALSE, wrote |-> FALSE, failed |-> FALSE,
   keep |-> FALSE, releases |-> TRUE]
Alive(id) == \E s \in Slots : starts[s].id = id /\ id # 0
Unlocked == \A l \in Locks : files[l] = Absent

------------------------
(* Steps. *)

Step(s, r) == starts' = [starts EXCEPT ![s] = r]
Goto(s, pc) == Step(s, [starts[s] EXCEPT !.pc = pc])
At(s, pc) == starts[s].pc = pc
Put(name, file) == files' = [files EXCEPT ![name] = file]
Use(bound, max) == used[bound] < max /\ used' = [used EXCEPT ![bound] = @ + 1]
Fault == Use("faults", MaxFaults)
NoFault == UNCHANGED used
Data == <<sources, credentials>>

\* The start is over.
Over(s) == Step(s, Idle) /\ UNCHANGED raced

\* claimOwnedPath: the file is renamed away, and comes back, over whatever is
\* there by then, when it is not the expected one or cannot be removed.
Remove(s, name, expected, ok, bad) ==
  LET r == starts[s] IN
  /\ UNCHANGED Data
  /\ \/ /\ r.claim = Absent /\ files[name] # Absent /\ NoFault
        /\ Put(name, Absent) /\ Step(s, [r EXCEPT !.claim = files[name]])
        /\ raced' = (raced \/ files[name] # expected)
     \/ /\ r.claim = Absent /\ UNCHANGED raced
        /\ IF files[name] = Absent THEN NoFault ELSE Fault
        /\ IF files[name] = Absent /\ name \in Locks THEN Put(name, Blocked) ELSE UNCHANGED files
        /\ Step(s, bad)
     \/ /\ r.claim # Absent /\ r.claim = expected /\ NoFault
        /\ Step(s, [ok EXCEPT !.claim = Absent]) /\ UNCHANGED <<files, raced>>
     \/ /\ r.claim # Absent /\ raced' = TRUE
        /\ IF r.claim = expected THEN Fault ELSE NoFault
        /\ Put(name, r.claim) /\ Step(s, [bad EXCEPT !.claim = Absent])

\* releaseLock: a lock is removed like any other file, when it holds the start's token.
ReleaseLock(s, lock, ok, bad) == Remove(s, lock, Lock(starts[s].id), ok, bad)

\* replaceFile: a file that is still the one that was read is replaced by a rename.  The call
\* may fail before it, and after it when the new file cannot be looked at or the folder flushed.
ReplaceFile(expected, replaced, failed) ==
  IF ~expected THEN ~replaced /\ failed /\ NoFault
  ELSE IF failed THEN Fault
  ELSE replaced /\ NoFault

\* REPLACEMENT_COMMITTED_IDENTITY: of a call that failed after the rename the caller is told that
\* the file was replaced when the folder was not flushed, and not when the look failed.
Told(replaced, failed, told) == told = replaced \/ (replaced /\ failed)

\* An operation fails before it changed anything.
Fails(s) == Step(s, [starts[s] EXCEPT !.pc = "rollback", !.failed = TRUE])

------------------------
(* What a start finds of an earlier one: resumeInvalidRegistryQuarantine. *)

Owners == {files[l].by : l \in {m \in Locks : files[m] # Absent}}

\* No journal: locks that one dead start left over an invalid registry are given back.
LeftoverReading ==
  IF Unlocked \/ (\E l \in Locks : files[l].kind = "torn") \/ (\E o, p \in Owners : o # p)
     \/ ~Invalid(files["registry"]) THEN "lock"
  ELSE IF \E o \in Owners : Alive(o) THEN "busy"
  ELSE "resumeRegistry"

\* Mutant of JournalReading: the kind of the journal decides, not what the crash left.
MutantJournalReading ==
  LET journal == files["journal"] IN
  IF journal.kind = "torn" THEN "invalid"
  ELSE IF \/ \E n \in {"marker", "registry"} : files[n] # Absent /\ files[n] \notin journal.of
          \/ \E l \in Locks : files[l] \notin {Absent, Lock(journal.by)} THEN "degraded"
  ELSE IF ~Unlocked /\ Alive(journal.by) THEN "busy"
  ELSE IF journal.kind # "prepared" THEN "resumeCanonical"
  ELSE IF files["marker"] = Absent /\ files["registry"] # Absent THEN "resumeRegistry"
  ELSE "degraded"

\* The journal: everything there is must be its own.
JournalReading ==
  LET journal == files["journal"] IN
  IF journal.kind = "torn" THEN "invalid"
  ELSE IF \/ \E n \in {"marker", "registry"} : files[n] # Absent /\ files[n] \notin journal.of
          \/ \E l \in Locks : files[l] \notin {Absent, Lock(journal.by)} THEN "degraded"
  ELSE IF ~Unlocked /\ Alive(journal.by) THEN "busy"
  ELSE IF files["marker"] # Absent THEN "resumeCanonical"
  ELSE IF journal.kind = "prepared" /\ files["registry"] # Absent THEN "resumeRegistry"
  ELSE "degraded"

Reading == IF files["journal"] = Absent THEN LeftoverReading ELSE JournalReading

Start(s) ==
  /\ At(s, "idle") /\ Use("starts", MaxStarts)
  /\ UNCHANGED <<files, Data, raced>>
  /\ IF Reading \in {"invalid", "degraded", "busy"}
       THEN UNCHANGED starts
       ELSE Step(s, [Idle EXCEPT !.pc = Reading, !.id = used.starts + 1, !.seen = files])

\* A step of the resume: not for a file that was not there.
Resume(s, pc, name, next) ==
  LET r == starts[s] IN
  /\ At(s, pc)
  /\ IF r.seen[name] = Absent
       THEN Goto(s, next) /\ UNCHANGED <<files, Data, raced, used>>
       ELSE Remove(s, name, r.seen[name], [r EXCEPT !.pc = next], [r EXCEPT !.pc = "stuck"])

ResumeCanonical(s)     == Resume(s, "resumeCanonical", "registry", "resumeVerify")
ResumeVerify(s) ==
  /\ At(s, "resumeVerify")
  /\ LET kept == files["registry"] = Absent /\ files["marker"] \in starts[s].seen["journal"].of
     IN \/ kept /\ Goto(s, "resumeRegistry") /\ NoFault
        \/ Goto(s, "stuck") /\ IF kept THEN Fault ELSE NoFault
  /\ UNCHANGED <<files, Data, raced>>
ResumeRegistryLock(s)  == Resume(s, "resumeRegistry", "registryLock", "resumeMigration")
ResumeMigrationLock(s) == Resume(s, "resumeMigration", "migrationLock", "resumeJournal")
ResumeJournal(s)       == Resume(s, "resumeJournal", "journal", "lock")
ResumeFails(s) ==
  /\ At(s, "stuck") /\ Over(s) /\ UNCHANGED <<files, Data, used>>

------------------------
(* The locks, and what the registry is: createLock, inspectCurrentRegistry. *)

NextOf(lock) == IF lock = "migrationLock" THEN "lock2" ELSE "inspect"

\* The migration lock is given back when the registry is locked, before anything else.
CreateLock(s, pc, lock, token) ==
  /\ At(s, pc) /\ UNCHANGED Data
  /\ IF files[lock] = Absent
       THEN /\ Put(lock, Torn(starts[s].id)) /\ Goto(s, token) /\ NoFault
            /\ raced' = (raced \/ files["journal"].by \notin {0, starts[s].seen["journal"].by})
     ELSE /\ UNCHANGED <<files, used>>
          /\ IF lock = "migrationLock" THEN Over(s)
             ELSE Step(s, [starts[s] EXCEPT !.pc = "release2"]) /\ UNCHANGED raced

WriteToken(s, pc, lock) ==
  /\ At(s, pc) /\ UNCHANGED Data
  /\ \/ Put(lock, Lock(starts[s].id)) /\ Goto(s, NextOf(lock)) /\ NoFault /\ UNCHANGED raced
     \/ /\ Fault
        /\ \E cleaned \in BOOLEAN :
             /\ IF cleaned THEN Put(lock, Absent) ELSE UNCHANGED files
             /\ IF lock = "migrationLock" THEN Over(s)
                ELSE Step(s, [starts[s] EXCEPT !.pc = "release2"]) /\ UNCHANGED raced

Inspect(s) ==
  /\ At(s, "inspect")
  /\ LET kind == files["registry"].kind IN
     \/ Fault /\ Fails(s)
     \/ NoFault /\ kind = "absent" /\ Goto(s, "legacy")
     \/ NoFault /\ kind = "old" /\ Step(s, [starts[s] EXCEPT !.pc = "upgrade", !.seen = files])
     \/ /\ NoFault /\ kind = "current"
        /\ Step(s, [starts[s] EXCEPT !.pc = "release1"])
     \/ /\ NoFault /\ Invalid(files["registry"])
        /\ IF files["marker"] # Absent THEN Fails(s)
           ELSE Step(s, [starts[s] EXCEPT !.pc = "journal", !.seen = files])
  /\ UNCHANGED <<files, Data, raced>>

------------------------
(* An invalid registry is put aside: quarantineInvalidRegistry. *)

Journal(s, phase) == File(starts[s].id, phase, {starts[s].seen["registry"]})

\* writeExclusive of the journal, in two steps.
CreateJournal(s) ==
  /\ At(s, "journal")
  /\ IF files["journal"] = Absent
       THEN Put("journal", Torn(starts[s].id)) /\ Goto(s, "journalText") /\ NoFault
       ELSE UNCHANGED <<files, used>> /\ Fails(s)
  /\ UNCHANGED <<Data, raced>>

WriteJournal(s) ==
  /\ At(s, "journalText")
  /\ \/ Put("journal", Journal(s, "prepared")) /\ Goto(s, "link") /\ NoFault
     \/ Put("journal", Absent) /\ Fails(s) /\ Fault
  /\ UNCHANGED <<Data, raced>>

\* The backup and the hard link; a failure so far takes the journal back.
Link(s) ==
  /\ At(s, "link")
  /\ \/ Put("marker", files["registry"]) /\ Goto(s, "markLinked") /\ NoFault
     \/ UNCHANGED files /\ Goto(s, "unprepare") /\ Fault
  /\ UNCHANGED <<Data, raced>>

Unprepare(s) ==
  LET r == starts[s] IN
  /\ At(s, "unprepare")
  /\ Remove(s, "journal", Journal(s, "prepared"),
            [r EXCEPT !.pc = "rollback", !.failed = TRUE], [r EXCEPT !.pc = "stuck"])

\* The journal's next phase; from the link on a failure leaves everything as it is.
Mark(s, pc, phase, next) ==
  /\ At(s, pc) /\ UNCHANGED <<Data, raced>>
  /\ \E replaced, failed \in BOOLEAN :
       /\ ReplaceFile(files["journal"].by = starts[s].id, replaced, failed)
       /\ IF replaced THEN Put("journal", Journal(s, phase)) ELSE UNCHANGED files
       /\ IF failed THEN Goto(s, "stuck") ELSE Step(s, next)

MarkLinked(s) == Mark(s, "markLinked", "linked", [starts[s] EXCEPT !.pc = "release"])
ReleaseCanonical(s) ==
  LET r == starts[s] IN
  /\ At(s, "release")
  /\ Remove(s, "registry", r.seen["registry"],
            [r EXCEPT !.pc = "markReleased"], [r EXCEPT !.pc = "stuck"])
MarkReleased(s) ==
  Mark(s, "markReleased", "released",
       [starts[s] EXCEPT !.pc = "activity", !.keep = TRUE])

------------------------
(* An old registry is upgraded. *)

\* The backup, and the new document in the place of the old one; one that was put there by a call
\* that failed is taken back only when the start is told.
Upgrade(s) ==
  LET r == starts[s]
      own == files["registry"] = r.seen["registry"]
  IN
  /\ At(s, "upgrade")
  /\ \E replaced, failed, told \in BOOLEAN :
       /\ ReplaceFile(own, replaced, failed) /\ Told(replaced, failed, told)
       /\ IF replaced THEN Put("registry", File(r.id, "current", {})) ELSE UNCHANGED files
       /\ Step(s, [r EXCEPT !.pc = IF failed THEN "rollback" ELSE "verifyUpgrade",
                            !.failed = failed, !.upgraded = told, !.keep = ~own])
  /\ UNCHANGED <<Data, raced>>

\* The new registry is loaded and compared.
Verify(s, pc, next) ==
  /\ At(s, pc)
  /\ \/ NoFault /\ files["registry"].by = starts[s].id /\ Step(s, next)
     \/ (IF files["registry"].by = starts[s].id THEN Fault ELSE NoFault) /\ Fails(s)
  /\ UNCHANGED <<files, Data, raced>>

VerifyUpgrade(s) ==
  Verify(s, "verifyUpgrade", [starts[s] EXCEPT !.pc = "activity"])

------------------------
(* The Providers of the legacy files are imported. *)

Parseable == {x \in Sources : sources[x] \notin {"missing", "malformed"}}
Complete == {x \in Sources : sources[x] = "complete"}

\* resolveImportCandidates: both files may describe the same Provider.
Candidates == {Complete} \union {{x} : x \in Complete}

\* The sources are read, the candidates chosen, the backups written.
ReadSources(s) ==
  /\ At(s, "legacy")
  /\ \/ /\ Complete = {} /\ NoFault
        /\ Step(s, [starts[s] EXCEPT !.pc = "release1"])
     \/ /\ Complete # {} /\ NoFault
        /\ \E chosen \in Candidates :
             Step(s, [starts[s] EXCEPT !.pc = "credentials", !.todo = chosen, !.imports = {}])
     \/ Fault /\ Fails(s)
  /\ UNCHANGED <<files, Data, raced>>

\* credentialStore.set, one after the other; one that fails may have stored it.
SetCredential(s) ==
  LET r == starts[s] IN
  /\ At(s, "credentials") /\ UNCHANGED <<files, sources, raced>>
  /\ IF r.todo = {} THEN Goto(s, "registry") /\ UNCHANGED <<credentials, used>>
     ELSE \E x \in r.todo :
       LET ref == <<r.id, x>>
           next == [r EXCEPT !.todo = @ \ {x}, !.imports = @ \union {ref}]
       IN \/ credentials' = credentials \union {ref} /\ Step(s, next) /\ NoFault
          \/ \E stored \in SUBSET {ref} :
               /\ credentials' = credentials \union stored /\ Fault
               /\ Step(s, [next EXCEPT !.pc = "rollback", !.failed = TRUE])

\* writeExclusive of the registry, in two steps.
CreateRegistry(s) ==
  /\ At(s, "registry")
  /\ IF files["registry"] = Absent
       THEN Put("registry", Torn(starts[s].id)) /\ Goto(s, "registryText") /\ NoFault
       ELSE UNCHANGED <<files, used>> /\ Fails(s)
  /\ UNCHANGED <<Data, raced>>

WriteRegistry(s) ==
  LET r == starts[s] IN
  /\ At(s, "registryText")
  /\ \/ /\ NoFault /\ Put("registry", File(r.id, "current", r.imports))
        /\ Step(s, [r EXCEPT !.pc = "verify", !.wrote = TRUE])
     \/ Fault /\ Put("registry", Absent) /\ Fails(s)
     \/ Fault /\ UNCHANGED files
        /\ Step(s, [r EXCEPT !.pc = "rollback", !.failed = TRUE, !.keep = TRUE])
  /\ UNCHANGED <<Data, raced>>

VerifyRegistry(s) ==
  Verify(s, "verify", [starts[s] EXCEPT !.pc = "scrub", !.todo = Parseable])

\* Mutant of Scrub: a source that was replaced is not remembered when the folder was not flushed.
MutantScrub(s) ==
  LET r == starts[s] IN
  /\ At(s, "scrub") /\ UNCHANGED <<files, credentials, raced>>
  /\ IF r.todo = {}
       THEN Step(s, [r EXCEPT !.pc = "activity"]) /\ UNCHANGED <<sources, used>>
     ELSE \E x \in r.todo, replaced, failed, told \in BOOLEAN :
       /\ ReplaceFile(TRUE, replaced, failed) /\ Told(replaced, failed, told)
       /\ IF replaced THEN sources' = [sources EXCEPT ![x] = IF told THEN "scrubbed"
                                                            ELSE "forgotten"]
          ELSE UNCHANGED sources
       /\ IF failed THEN Fails(s)
          ELSE Step(s, [r EXCEPT !.todo = @ \ {x}, !.scrubbed = @ \union {<<x, sources[x]>>}])

\* A source is replaced by what is left of it without its secrets.  One that was replaced is
\* taken back by the rollback when the start was told of it, also by a call that failed.
Scrub(s) ==
  LET r == starts[s] IN
  /\ At(s, "scrub") /\ UNCHANGED <<files, credentials, raced>>
  /\ IF r.todo = {}
       THEN Step(s, [r EXCEPT !.pc = "activity"]) /\ UNCHANGED <<sources, used>>
     ELSE \E x \in r.todo, replaced, failed, told \in BOOLEAN :
       LET done == IF told
                     THEN [r EXCEPT !.todo = @ \ {x}, !.scrubbed = @ \union {<<x, sources[x]>>}]
                     ELSE r
       IN /\ ReplaceFile(TRUE, replaced, failed) /\ Told(replaced, failed, told)
          /\ IF replaced THEN sources' = [sources EXCEPT ![x] = IF told THEN "scrubbed"
                                                               ELSE "forgotten"]
             ELSE UNCHANGED sources
          /\ Step(s, IF failed THEN [done EXCEPT !.pc = "rollback", !.failed = TRUE] ELSE done)

------------------------
(* The rollback, the Activity event and the end. *)

\* Each part of the rollback is tried; one that fails keeps the locks.
Rollback(s) ==
  LET r == starts[s] IN
  /\ At(s, "rollback") /\ UNCHANGED raced
  /\ \/ /\ r.upgraded /\ UNCHANGED Data
        /\ \E replaced, failed \in BOOLEAN :
             /\ ReplaceFile(files["registry"].by = r.id, replaced, failed)
             /\ IF replaced THEN Put("registry", File(r.id, "old", {})) ELSE UNCHANGED files
             /\ Step(s, [r EXCEPT !.upgraded = FALSE, !.keep = @ \/ failed])
     \/ /\ ~r.upgraded /\ r.scrubbed # {} /\ UNCHANGED <<files, credentials>>
        /\ \E change \in r.scrubbed, replaced, failed \in BOOLEAN :
             /\ ReplaceFile(TRUE, replaced, failed)
             /\ IF replaced THEN sources' = [sources EXCEPT ![change[1]] = change[2]]
                            ELSE UNCHANGED sources
             /\ Step(s, [r EXCEPT !.scrubbed = @ \ {change}, !.keep = @ \/ failed])
     \/ /\ ~r.upgraded /\ r.scrubbed = {} /\ ~r.wrote
        /\ Goto(s, "rollbackCredentials") /\ UNCHANGED <<files, Data, used>>
     \/ /\ ~r.upgraded /\ r.scrubbed = {} /\ r.wrote
        /\ Goto(s, "rollbackRegistry") /\ UNCHANGED <<files, Data, used>>

RollbackRegistry(s) ==
  LET r == starts[s] IN
  /\ At(s, "rollbackRegistry")
  /\ Remove(s, "registry", File(r.id, "current", r.imports),
            [r EXCEPT !.pc = "rollbackCredentials"],
            [r EXCEPT !.pc = "rollbackCredentials", !.keep = TRUE])

RollbackCredential(s) ==
  LET r == starts[s] IN
  /\ At(s, "rollbackCredentials") /\ UNCHANGED <<files, sources, raced>>
  /\ IF r.imports = {} THEN Goto(s, "activity") /\ UNCHANGED <<credentials, used>>
     ELSE \E ref \in r.imports :
       \/ credentials' = credentials \ {ref} /\ Step(s, [r EXCEPT !.imports = @ \ {ref}]) /\ NoFault
       \/ UNCHANGED credentials /\ Step(s, [r EXCEPT !.imports = @ \ {ref}, !.keep = TRUE]) /\ Fault

\* A failed event matters to a rollback only; a rollback that failed keeps the locks.
Activity(s) ==
  LET r == starts[s] IN
  /\ At(s, "activity") /\ UNCHANGED <<files, Data, raced>>
  /\ \E failed \in BOOLEAN :
       LET keep == r.failed /\ (r.keep \/ failed) IN
       /\ IF failed THEN Fault ELSE NoFault
       /\ Step(s, [r EXCEPT !.pc = IF keep THEN "stuck" ELSE "release1"])

\* The registry's lock, the migration's, and the journal when both were given back.
ReleaseRegistryLock(s) ==
  LET r == starts[s] IN
  /\ At(s, "release1")
  /\ ReleaseLock(s, "registryLock", [r EXCEPT !.pc = "release2"],
            [r EXCEPT !.pc = "release2", !.releases = FALSE])

ReleaseMigrationLock(s) ==
  LET r == starts[s] IN
  /\ At(s, "release2")
  /\ ReleaseLock(s, "migrationLock",
            [r EXCEPT !.pc = IF r.keep /\ r.releases THEN "unjournal" ELSE "over"],
            [r EXCEPT !.pc = "over", !.releases = FALSE])

RemoveJournal(s) ==
  LET r == starts[s] IN
  /\ At(s, "unjournal")
  /\ Remove(s, "journal", Journal(s, "released"), [r EXCEPT !.pc = "over"],
            [r EXCEPT !.pc = "over", !.releases = FALSE])

End(s) == At(s, "over") /\ Over(s) /\ UNCHANGED <<files, Data, used>>

Die(s) ==
  /\ starts[s].id # 0 /\ Use("deaths", MaxDeaths)
  /\ Step(s, Idle) /\ UNCHANGED <<files, Data, raced>>

------------------------
Init ==
  /\ files \in [Names -> {Absent, File(0, "bad", {}), File(0, "old", {}), File(0, "current", {})}]
  /\ \A n \in Names \ {"registry"} : files[n] = Absent
  /\ sources \in [Sources -> {"missing", "malformed", "incomplete", "complete"}]
  /\ \A x \in Sources : files["registry"] = Absent \/ sources[x] = "complete"
  /\ credentials = {}
  /\ starts = [s \in Slots |-> Idle]
  /\ raced = FALSE
  /\ used = [starts |-> 0, faults |-> 0, deaths |-> 0]

MigrationStep(s) ==
  \/ Start(s) \/ ResumeCanonical(s) \/ ResumeVerify(s) \/ ResumeRegistryLock(s)
  \/ ResumeMigrationLock(s) \/ ResumeJournal(s) \/ ResumeFails(s)
  \/ CreateLock(s, "lock", "migrationLock", "token1") \/ WriteToken(s, "token1", "migrationLock")
  \/ CreateLock(s, "lock2", "registryLock", "token2") \/ WriteToken(s, "token2", "registryLock")
  \/ Inspect(s) \/ CreateJournal(s) \/ WriteJournal(s) \/ Link(s) \/ Unprepare(s)
  \/ MarkLinked(s) \/ ReleaseCanonical(s) \/ MarkReleased(s)
  \/ Upgrade(s) \/ VerifyUpgrade(s)
  \/ ReadSources(s) \/ SetCredential(s) \/ CreateRegistry(s) \/ WriteRegistry(s)
  \/ VerifyRegistry(s) \/ Scrub(s)
  \/ Rollback(s) \/ RollbackRegistry(s) \/ RollbackCredential(s) \/ Activity(s)
  \/ ReleaseRegistryLock(s) \/ ReleaseMigrationLock(s) \/ RemoveJournal(s) \/ End(s)

Next == \E s \in Slots : MigrationStep(s) \/ Die(s)
Spec == Init /\ [][Next]_migrationVars

------------------------
(* Properties. *)

\* A later start finishes an interrupted quarantine: whatever dead starts have left of putting
\* a registry aside, at whatever step, the next start neither refuses it nor walks into a lock
\* (README.md:198).  Not when a file was put back or two starts were at the same quarantine
\* at once, and not when nobody can tell whose it is: a file is torn, or the locks are of two
\* starts, of which one could not give its own back.
QuarantineResumes ==
  LET quarantine == files["journal"] # Absent \/ Invalid(files["registry"])
      torn == files["journal"].kind = "torn" \/ \E l \in Locks : files[l].kind = "torn"
      two == \E o, p \in Owners : o # p
  IN (\A s \in Slots : starts[s] = Idle) /\ quarantine /\ ~torn /\ ~two /\ ~raced
       => \/ Reading \in {"resumeCanonical", "resumeRegistry"}
          \/ Reading = "lock" /\ Unlocked

\* The import is all or nothing: where no lock stops the next start, a legacy file is scrubbed
\* only under a registry that names its Providers, and the secrets of every Provider are stored
\* (README.md:200).  Not a file that is "forgotten": when the look at it after the rename fails
\* (migration.mjs:1001), the start is not told that it was replaced, and the rollback takes back the
\* registry and the secrets but not this file, and gives the locks back.  It still lies in the
\* backup.  Nor when a start has taken away, or put back, a file that was not its own (raced).
UnlockedIsWhole ==
  Unlocked /\ ~raced
    => /\ (\E x \in Sources : sources[x] = "scrubbed") => files["registry"].kind = "current"
       /\ files["registry"].of \subseteq credentials
================================================================================
