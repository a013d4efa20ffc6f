--------------------------- MODULE MigrationProofs ---------------------------
(***************************************************************************)
(* Theorems about Migration, for any number of starts, faults and deaths   *)
(* and any set of legacy files: the import is all or nothing where no lock *)
(* stops the next start, and an interrupted quarantine is finished.        *)
(*                                                                         *)
(* As long as nothing was raced, IInv says who owns what.  A start that    *)
(* has come as far as "inspect" holds both locks with its own token; the   *)
(* journal is the one it has written, or there is none; what a resuming    *)
(* start has seen is of starts that are no more; what an import has        *)
(* written so far is what its rollback knows of.  JournalInv: a journal is *)
(* about the invalid registry that lies beside it.  BrokenInv: an import   *)
(* in pieces lies under the locks of the start that left it.               *)
(*                                                                         *)
(* The proof asks of every step (Good) that the invariant holds for the    *)
(* start that takes it, and that it is a Deed: one of the few things a     *)
(* start may do to the files, each of which leaves the invariant of the    *)
(* others as it is.                                                        *)
(***************************************************************************)
EXTENDS Migration, TLAPS

\* Where a start may be.
Resuming == {"resumeCanonical", "resumeVerify", "resumeRegistry", "resumeMigration", "resumeJournal"}
Locking == {"lock", "token1", "lock2", "token2"}
Quarantining == {"journal", "journalText", "link", "unprepare", "markLinked", "release", "markReleased"}
Importing == {"credentials", "registry", "registryText", "verify", "scrub"}
Undoing == {"rollback", "rollbackRegistry", "rollbackCredentials"}
Holding == {"inspect", "upgrade", "verifyUpgrade", "legacy", "activity"}
           \union Quarantining \union Importing \union Undoing
Past == {"release1", "release2", "unjournal", "over", "stuck"}
Pcs == {"idle"} \union Resuming \union Locking \union Holding \union Past

\* A start that has the locks and found no journal, or wrote none.
Quiet == {"token1", "lock2", "token2", "inspect", "journal", "upgrade", "verifyUpgrade", "legacy"}
         \union Importing \union Undoing

\* The steps that take a file away; the file that a step of the resume takes away.
Removing == {"resumeCanonical", "resumeRegistry", "resumeMigration", "resumeJournal", "unprepare",
             "release", "rollbackRegistry", "release1", "release2", "unjournal"}
Target(pc) == CASE pc = "resumeCanonical" -> "registry" [] pc = "resumeRegistry" -> "registryLock"
                [] pc = "resumeMigration" -> "migrationLock" [] pc = "resumeJournal" -> "journal"

------------------------
(* The invariant. *)

Fields == {"pc", "id", "seen", "claim", "todo", "scrubbed", "imports", "upgraded", "wrote",
           "failed", "keep", "releases"}

Shapes ==
  /\ DOMAIN starts = Slots /\ DOMAIN files = Names /\ DOMAIN sources = Sources
  /\ \A s \in Slots : DOMAIN starts[s] = Fields
  /\ used \in [starts : Nat, faults : Nat, deaths : Nat]

\* Starts have ids of their own; nothing is claimed but by a step that takes a file away, and
\* nothing where there was no file.
Unclaimed(r) == r.pc \in Resuming \ {"resumeVerify"} /\ r.seen[Target(r.pc)] = Absent => r.claim = Absent
Ids ==
  /\ \A s \in Slots :
       /\ starts[s].id \in 0..used.starts
       /\ starts[s].pc \in {"idle"} \union Resuming \union Locking \union Holding \union Past
       /\ starts[s].pc = "idle" <=> starts[s].id = 0
       /\ starts[s].pc \notin Removing => starts[s].claim = Absent
       /\ Unclaimed(starts[s])
       /\ \A t \in Slots \ {s} : starts[s].id # 0 => starts[t].id # starts[s].id

\* The locks carry the token of the start that holds them.
OwnLocks(r) ==
  /\ r.pc = "token1" => files["migrationLock"] = Torn(r.id)
  /\ r.pc \in {"lock2", "token2"} \union Holding => files["migrationLock"] = Lock(r.id)
  /\ r.pc = "token2" => files["registryLock"] = Torn(r.id)
  /\ r.pc \in Holding => files["registryLock"] = Lock(r.id)

\* What a start knows of the journal, and of the registry and the marker it is about.
OwnJournal(r) ==
  /\ r.pc \in Quiet => files["journal"] = Absent
  /\ r.pc = "journalText" => files["journal"] = Torn(r.id)
  /\ r.pc \in {"link", "markLinked"} \/ (r.pc = "unprepare" /\ r.claim = Absent)
       => files["journal"] = File(r.id, "prepared", {r.seen["registry"]})
  /\ r.pc = "unprepare" /\ r.claim # Absent => files["journal"] = Absent
  /\ r.pc \in {"release", "markReleased"}
       => files["journal"] = File(r.id, "linked", {r.seen["registry"]})
  /\ r.pc \in {"journal", "journalText", "link", "unprepare"} => files["marker"] = Absent
  /\ r.pc \in {"markLinked", "release", "markReleased", "resumeCanonical", "resumeVerify"}
       => files["marker"] # Absent
  /\ r.pc \in {"journal", "journalText", "link"}
       => files["registry"] = r.seen["registry"] /\ Invalid(files["registry"])
  /\ r.pc \in Resuming \union {"lock"} => files["journal"].by # r.id
  /\ r.pc = "lock" \/ (r.pc = "resumeJournal" /\ (r.claim # Absent \/ r.seen["journal"] = Absent))
       => files["journal"] = Absent \/ files["journal"].by # r.seen["journal"].by

\* What a resuming start has seen was left by starts that are no more, or have released.
SeenInv(r) ==
  /\ r.pc \in Resuming \union {"lock"} =>
       /\ r.seen["journal"].by \in 0..used.starts
       /\ \A t \in Slots : starts[t].id = r.seen["journal"].by /\ starts[t].id # 0
                             => starts[t].pc \in Past
  /\ r.pc \in Resuming => \A l \in Locks : r.seen[l] = Absent \/ \E n \in 1..used.starts : r.seen[l] = Lock(n) /\ ~Alive(n)
  /\ r.pc = "resumeCanonical" => r.seen["registry"] = Absent \/ Invalid(r.seen["registry"])

\* The import in pieces: a scrubbed file without a registry that could name its Providers, or a
\* registry that names a secret that is not stored.
Scrubbed == \E x \in Sources : sources[x] = "scrubbed"
Broken == \/ Scrubbed /\ files["registry"].kind # "current"
          \/ ~(files["registry"].of \subseteq credentials)

\* What a start has imported, scrubbed and upgraded, and what its rollback has to take back.
WroteReg(r) == files["registry"] = File(r.id, "current", r.imports) /\ r.imports \subseteq credentials
Known(r) == \A x \in Sources : sources[x] = "scrubbed" => \E ch \in r.scrubbed : ch[1] = x
Apart(r) == files["registry"].of \intersect r.imports = {}

Fresh(r) ==
  /\ r.pc \in Resuming \union Locking \union Quarantining \union {"inspect", "upgrade", "legacy"}
       => ~r.wrote /\ ~r.upgraded /\ r.imports = {} /\ r.scrubbed = {}
  /\ r.pc \in {"credentials", "registry", "registryText"} => ~r.wrote /\ ~r.upgraded /\ r.scrubbed = {}
  /\ r.pc = "verify" => r.wrote /\ ~r.upgraded /\ r.scrubbed = {}
  /\ r.pc = "scrub" => r.wrote /\ ~r.upgraded
  /\ r.pc = "verifyUpgrade" => ~r.wrote /\ r.imports = {} /\ r.scrubbed = {}
  /\ r.pc \in {"scrub", "rollback"} => \A ch \in r.scrubbed : ch[2] # "scrubbed"
  /\ r.pc \in Undoing => r.failed

OwnImport(r) ==
  /\ r.pc \in {"legacy", "credentials", "registry"} => files["registry"] = Absent
  /\ r.pc = "registryText" => files["registry"].of = {}
  /\ r.pc \in {"upgrade", "verifyUpgrade", "legacy", "credentials", "registry", "registryText", "verify"}
       => ~Scrubbed
  /\ r.pc \in {"credentials", "registry", "registryText"} => r.imports \subseteq credentials
  /\ r.pc \in {"verify", "scrub"} => WroteReg(r)
  /\ r.pc = "scrub" => Known(r) /\ \A x \in r.todo : x \in Sources /\ sources[x] # "scrubbed"
  /\ r.pc = "rollback" =>
       /\ r.upgraded => ~Scrubbed /\ ~r.wrote /\ r.imports = {}
       /\ r.wrote => WroteReg(r) /\ (r.keep \/ Known(r))
       /\ ~r.wrote => Apart(r)
  /\ r.pc = "rollbackRegistry" =>
       /\ Scrubbed => r.keep
       /\ IF r.claim = Absent THEN WroteReg(r) ELSE files["registry"] = Absent
  /\ r.pc = "rollbackCredentials" => (Broken => r.keep) /\ (r.keep \/ Apart(r))

\* A whole journal is about one invalid registry, which is still there, and about nobody else's locks.
JournalInv ==
  LET journal == files["journal"] IN
  journal # Absent =>
    /\ journal.by \in 1..used.starts
    /\ \A l \in Locks : files[l] \in {Absent, Lock(journal.by)} \/ files[l].kind = "torn"
    /\ journal.kind = "torn" \/ \E f \in {files["registry"], files["marker"]} :
         /\ Invalid(f) /\ journal.of = {f}
         /\ files["registry"] \in {Absent, f} /\ files["marker"] \in {Absent, f}
         /\ files["marker"] = Absent => journal.kind = "prepared" /\ files["registry"] = f

FileInv ==
  /\ \A l \in Locks : files[l] \in {Absent, Blocked} \/ \E n \in 1..used.starts : files[l] \in {Lock(n), Torn(n)}
  /\ files["registry"].kind = "absent" => files["registry"] = Absent
  /\ files["registry"].kind # "current" => files["registry"].of = {}

\* An import in pieces: both locks are of one start, which undoes it or has given up.
BrokenInv ==
  LET o == files["migrationLock"].by IN
  Broken =>
    /\ o # 0 /\ \A l \in Locks : files[l] = Lock(o)
    /\ ~Invalid(files["registry"]) /\ files["journal"].by # o
    /\ \A s \in Slots :
         /\ starts[s].pc \in Resuming => \A l \in Locks : starts[s].seen[l] # Lock(o)
         /\ starts[s].id = o => \/ starts[s].pc \in {"rollbackRegistry", "rollbackCredentials", "stuck"}
                                \/ starts[s].pc = "activity" /\ starts[s].failed /\ starts[s].keep

Own(s) ==
  LET r == starts[s] IN
  OwnLocks(r) /\ OwnJournal(r) /\ SeenInv(r) /\ Fresh(r) /\ OwnImport(r)

IInv ==
  /\ Shapes /\ Ids
  /\ ~raced => FileInv /\ JournalInv /\ BrokenInv /\ \A s \in Slots : Own(s)

------------------------
(* What a step of a start does to the others. *)

\* The others stay; a start keeps its id, ends, or is a new one; it never writes a journal
\* after it has released.
Lives(s) ==
  LET r == starts[s]
      q == starts'[s]
  IN /\ \A t \in Slots \ {s} : starts'[t] = starts[t]
     /\ \/ /\ used'.starts = used.starts \/ (r.id = 0 /\ used'.starts = used.starts + 1)
           /\ q.id \in {0, r.id}
           /\ q.id # 0 /\ r.pc \in Past => q.pc \in Past
        \/ used'.starts = used.starts + 1 /\ r.id = 0 /\ q.id = used'.starts

\* What happens to the files.
Nothing == files' = files
LockStep(s) ==
  \E l \in Locks : \E v \in {Absent, Blocked, Lock(starts[s].id), Torn(starts[s].id)} :
    /\ files' = [files EXCEPT ![l] = v]
    /\ v = Lock(starts[s].id) => files["journal"] = Absent
    /\ starts[s].id # 0
    /\ \/ files[l] = Absent
       \/ files[l].by = starts[s].id /\ starts[s].pc \in {"token1", "token2", "release1", "release2"}
       \/ files[l] = starts[s].seen[l] /\ starts[s].pc \in Resuming
RegistryStep(s) ==
  /\ starts[s].pc = "resumeCanonical"
  /\ files' = [files EXCEPT !["registry"] = Absent] /\ Invalid(files["registry"])
JournalStep(s) ==
  /\ files' = [files EXCEPT !["journal"] = Absent]
  /\ \/ starts[s].pc = "resumeJournal" /\ files["journal"] = starts[s].seen["journal"]
     \/ starts[s].pc = "unjournal" /\ files["journal"].by = starts[s].id
HolderStep(s) ==
  /\ starts[s].pc \in Holding /\ DOMAIN files' = Names
  /\ \A l \in Locks : files'[l] = files[l]
  /\ files'["journal"] \in {files["journal"], Absent} \/ files'["journal"].by = starts[s].id
  /\ files["marker"] # Absent => files'["marker"] = files["marker"]
Stored(s) == starts[s].pc \in Holding \/ UNCHANGED Data
Deed(s) ==
  /\ Lives(s) /\ Stored(s)
  /\ Nothing \/ LockStep(s) \/ RegistryStep(s) \/ JournalStep(s) \/ HolderStep(s)

\* The parts of Own that only the files, only the sources and only the starts decide.
LEMMA OthersLocks ==
  ASSUME IInv, ~raced, NEW s \in Slots, NEW t \in Slots \ {s}, Deed(s)
  PROVE  OwnLocks(starts[t])'
<1> DEFINE r == starts[t]
<1>1. starts'[t] = r /\ Own(s) /\ Own(t)
  BY DEF Deed, Lives, IInv
<1>2. ASSUME NEW l \in Locks, files[l] \in {Lock(r.id), Torn(r.id)}, r.id # 0
      PROVE  files'[l] = files[l]
  <2>1. starts[s].id # r.id
    BY <1>2 DEF IInv, Ids
  <2>2. files[l] # Absent /\ files[l].by = r.id
    BY <1>2 DEF Lock, Torn, File, Absent
  <2>3. CASE LockStep(s)
    <3>1. PICK k \in Locks : \E v \in {Absent, Blocked, Lock(starts[s].id), Torn(starts[s].id)} :
              /\ files' = [files EXCEPT ![k] = v]
              /\ \/ files[k] = Absent
                 \/ files[k].by = starts[s].id
                 \/ files[k] = starts[s].seen[k] /\ starts[s].pc \in Resuming
      BY <2>3 DEF LockStep
    <3>2. CASE k # l
      BY <3>1, <3>2 DEF IInv, Shapes, Names, Locks
    <3>3. CASE k = l /\ files[k] = starts[s].seen[k] /\ starts[s].pc \in Resuming
      <4>1. PICK n \in 1..used.starts : starts[s].seen[k] = Lock(n) /\ ~Alive(n)
        BY <1>1, <2>2, <3>3 DEF Own, SeenInv
      <4>2. n = r.id
        BY <2>2, <3>3, <4>1 DEF Lock, File
      <4> QED
        BY <1>2, <4>1, <4>2 DEF Alive
    <3> QED
      BY <2>1, <2>2, <3>1, <3>2, <3>3
  <2>4. CASE Nothing \/ RegistryStep(s) \/ JournalStep(s) \/ HolderStep(s)
    BY <2>4 DEF Nothing, RegistryStep, JournalStep, HolderStep, IInv, Shapes, Names, Locks
  <2> QED
    BY <2>3, <2>4 DEF Deed
<1>3. r.pc # "idle" => r.id # 0
  BY DEF IInv, Ids
<1> QED
  BY <1>1, <1>2, <1>3 DEF Own, OwnLocks, Locks, Holding, Quarantining, Importing, Undoing

LEMMA HolderAlone ==
  ASSUME IInv, ~raced, NEW s \in Slots, NEW t \in Slots \ {s}, starts[s].pc \in Holding
  PROVE  /\ starts[t].pc \in {"idle", "lock"} \union Resuming \union Past
         /\ starts[s].id # 0 /\ starts[t].id # starts[s].id
<1>1. /\ starts[s].id # 0 /\ starts[t].id # starts[s].id
      /\ starts[t].pc \in {"idle"} \union Resuming \union Locking \union Holding \union Past
  BY DEF IInv, Ids, Holding, Quarantining, Importing, Undoing
<1>2. OwnLocks(starts[s]) /\ OwnLocks(starts[t])
  BY DEF IInv, Own
<1>3. files["migrationLock"] = Lock(starts[s].id)
  BY <1>2 DEF OwnLocks
<1>4. files["migrationLock"] \notin {Lock(starts[t].id), Torn(starts[t].id)}
  BY <1>1, <1>3 DEF Lock, Torn, File
<1>5. starts[t].pc \notin {"token1", "lock2", "token2"} \union Holding
  BY <1>2, <1>4 DEF OwnLocks
<1> QED
  BY <1>1, <1>5 DEF Locking

LEMMA OthersJournal ==
  ASSUME IInv, ~raced, NEW s \in Slots, NEW t \in Slots \ {s}, Deed(s)
  PROVE  OwnJournal(starts[t])'
<1> DEFINE r == starts[t]
<1>1. starts'[t] = r /\ Own(s) /\ Own(t)
  BY DEF Deed, Lives, IInv
<1>2. OwnJournal(r)
  BY <1>1 DEF Own
<1>3. starts[s].id # 0 => r.id # starts[s].id
  BY DEF IInv, Ids
<1>4. CASE Nothing
  BY <1>1, <1>2, <1>4 DEF OwnJournal, Nothing
<1>5. CASE LockStep(s)
  <2>1. \A n \in {"journal", "marker", "registry"} : files'[n] = files[n]
    BY <1>5 DEF LockStep, IInv, Shapes, Names, Locks
  <2> QED
    BY <1>1, <1>2, <2>1 DEF OwnJournal
<1>6. CASE RegistryStep(s)
  <2>1. \A n \in {"journal", "marker"} : files'[n] = files[n]
    BY <1>6 DEF RegistryStep, IInv, Shapes, Names, Locks
  <2>2. files["marker"] # Absent
    BY <1>1, <1>6 DEF RegistryStep, Own, OwnJournal
  <2> QED
    BY <1>1, <1>2, <2>1, <2>2 DEF OwnJournal
<1>7. CASE JournalStep(s)
  <2>1. \A n \in {"registry", "marker"} : files'[n] = files[n]
    BY <1>7 DEF JournalStep, IInv, Shapes, Names, Locks
  <2>2. files'["journal"] = Absent
    BY <1>7 DEF JournalStep, IInv, Shapes, Names, Locks
  <2>3. r.pc \in Holding => files["journal"].by # r.id
    <3>1. CASE starts[s].pc = "resumeJournal" /\ files["journal"] = starts[s].seen["journal"]
      <4>1. r.id = files["journal"].by /\ r.id # 0 => r.pc \in Past
        BY <1>1, <3>1 DEF Own, SeenInv, Resuming
      <4>2. r.pc \in Holding => r.id # 0 /\ r.pc \notin Past
        BY DEF IInv, Ids, Holding, Past, Quarantining, Importing, Undoing
      <4> QED
        BY <4>1, <4>2
    <3>2. CASE starts[s].pc = "unjournal" /\ files["journal"].by = starts[s].id
      BY <1>3, <3>2 DEF IInv, Ids
    <3> QED
      BY <1>7, <3>1, <3>2 DEF JournalStep
  <2>4. r.pc \in {"journalText", "link", "markLinked", "release", "markReleased"} => FALSE
    BY <1>2, <2>3 DEF OwnJournal, Torn, File, Holding, Quarantining
  <2>5. Absent.by = 0 /\ (r.pc # "idle" => r.id # 0)
    BY DEF Absent, File, IInv, Ids
  <2>6. r.pc = "unprepare" => r.claim # Absent
    BY <1>2, <2>3 DEF OwnJournal, File, Holding, Quarantining
  <2> QED
    BY <1>1, <1>2, <2>1, <2>2, <2>4, <2>5, <2>6 DEF OwnJournal, Resuming
<1>8. CASE HolderStep(s)
  <2>1. starts[s].pc \in Holding
    BY <1>8 DEF HolderStep
  <2>2. r.pc \in {"idle", "lock"} \union Resuming \union Past /\ starts[s].id # 0
    BY <2>1, HolderAlone
  <2>3. r.pc \in Resuming \union {"lock"} => r.seen["journal"].by # starts[s].id
    <3>1. starts[s].pc \notin Past
      BY <2>1 DEF Past, Holding, Quarantining, Importing, Undoing
    <3> QED
      BY <1>1, <2>2, <3>1 DEF Own, SeenInv
  <2>4. Absent.by = 0 /\ (r.pc # "idle" => r.id # 0)
    BY DEF Absent, File, IInv, Ids
  <2>5. /\ files'["journal"] \in {files["journal"], Absent} \/ files'["journal"].by = starts[s].id
        /\ files["marker"] # Absent => files'["marker"] # Absent
    BY <1>8 DEF HolderStep
  <2> QED
    BY <1>1, <1>2, <1>3, <2>2, <2>3, <2>4, <2>5 DEF OwnJournal, Resuming, Past, Quiet, Importing, Undoing
<1> QED
  BY <1>4, <1>5, <1>6, <1>7, <1>8 DEF Deed

LEMMA OthersSeen ==
  ASSUME IInv, ~raced, NEW s \in Slots, NEW t \in Slots \ {s}, Deed(s)
  PROVE  SeenInv(starts[t])'
<1> DEFINE r == starts[t]
<1>1. starts'[t] = r /\ SeenInv(r) /\ Lives(s)
  BY DEF Deed, Lives, IInv, Own
<1>2. used.starts \in Nat /\ used'.starts \in Nat /\ used.starts <= used'.starts
  BY <1>1 DEF Lives, IInv, Shapes
<1>3. ASSUME NEW n \in 1..used.starts, ~Alive(n)
      PROVE  ~Alive(n)'
  BY <1>1, <1>2, <1>3 DEF Lives, Alive
<1>4. ASSUME NEW n \in 0..used.starts,
             \A u \in Slots : starts[u].id = n /\ starts[u].id # 0 => starts[u].pc \in Past
      PROVE  \A u \in Slots : starts'[u].id = n /\ starts'[u].id # 0 => starts'[u].pc \in Past
  BY <1>1, <1>2, <1>4 DEF Lives
<1> QED
  BY <1>1, <1>2, <1>3, <1>4 DEF SeenInv

LEMMA OthersImport ==
  ASSUME IInv, ~raced, NEW s \in Slots, NEW t \in Slots \ {s}, Deed(s)
  PROVE  OwnImport(starts[t])'
<1> DEFINE r == starts[t]
<1>1. starts'[t] = r /\ OwnImport(r) /\ Own(s)
  BY DEF Deed, Lives, IInv, Own
<1>2. CASE starts[s].pc \in Holding
  <2>1. r.pc \in {"idle", "lock"} \union Resuming \union Past
    BY <1>2, HolderAlone
  <2> QED
    BY <1>1, <2>1 DEF OwnImport, Resuming, Past
<1>3. CASE starts[s].pc \notin Holding
  <2>1. sources' = sources /\ credentials' = credentials
    BY <1>3 DEF Deed, Stored, Data
  <2>2. (Scrubbed' <=> Scrubbed) /\ (Known(r)' <=> Known(r))
    BY <1>1, <2>1 DEF Scrubbed, Known
  <2>3. CASE files'["registry"] = files["registry"]
    <3>1. (Broken' <=> Broken) /\ (Apart(r)' <=> Apart(r)) /\ (WroteReg(r)' <=> WroteReg(r))
      BY <1>1, <2>1, <2>2, <2>3 DEF Broken, Apart, WroteReg
    <3> QED
      BY <1>1, <2>1, <2>2, <2>3, <3>1 DEF OwnImport
  <2>4. CASE RegistryStep(s)
    <3>1. files'["registry"] = Absent /\ Absent.of = {} /\ Absent.kind = "absent"
      BY <2>4 DEF RegistryStep, IInv, Shapes, Names, Absent, File
    <3>2. Invalid(files["registry"])
      BY <2>4 DEF RegistryStep
    <3>3. ~Broken /\ ~Scrubbed
      BY <3>2 DEF IInv, BrokenInv, Broken, Invalid
    <3>4. ~WroteReg(r)
      BY <3>2 DEF WroteReg, Invalid, File
    <3>5. ~Broken' /\ Apart(r)'
      BY <1>1, <2>2, <3>1, <3>3 DEF Broken, Apart
    <3> QED
      BY <1>1, <2>1, <2>2, <3>1, <3>3, <3>4, <3>5 DEF OwnImport
  <2>5. Nothing \/ LockStep(s) \/ JournalStep(s) => files'["registry"] = files["registry"]
    BY DEF Nothing, LockStep, JournalStep, IInv, Shapes, Names, Locks
  <2> QED
    BY <1>3, <2>3, <2>4, <2>5 DEF Deed, HolderStep
<1> QED
  BY <1>2, <1>3

LEMMA OthersOwn ==
  ASSUME IInv, ~raced, NEW s \in Slots, Deed(s), NEW t \in Slots \ {s}
  PROVE  Own(t)'
<1>1. starts'[t] = starts[t] /\ Fresh(starts[t])
  BY DEF Deed, Lives, IInv, Own
<1>2. Fresh(starts[t])'
  BY <1>1 DEF Fresh
<1> QED
  BY <1>2, OthersLocks, OthersJournal, OthersSeen, OthersImport DEF Own

------------------------
(* What is about all of them. *)

\* A start that undoes its import, or has given up undoing it.
Excused(r) == \/ r.pc \in {"rollbackRegistry", "rollbackCredentials", "stuck"}
              \/ r.pc = "activity" /\ r.failed /\ r.keep

\* Under another holder the import is whole.
LEMMA HolderWhole ==
  ASSUME IInv, ~raced, NEW s \in Slots, starts[s].pc \in Holding, ~Excused(starts[s])
  PROVE  ~Broken
<1>1. OwnLocks(starts[s])
  BY DEF IInv, Own
<1>2. files["migrationLock"].by = starts[s].id
  BY <1>1 DEF OwnLocks, Lock, File
<1> QED
  BY <1>2 DEF IInv, BrokenInv, Excused

\* While it is not, a step keeps what excuses it.
Keeps(s) ==
  LET r == starts[s]
      q == starts'[s]
  IN /\ q.pc \in Resuming => q.seen = r.seen /\ r.pc \in Resuming
     /\ q.id \in {0, r.id}
     /\ Broken /\ q.id # 0 /\ Excused(r) => Excused(q)

LEMMA DeedFiles ==
  ASSUME IInv, ~raced, NEW s \in Slots, Deed(s), starts[s].pc \notin Holding \/ Nothing
  PROVE  FileInv' /\ JournalInv'
<1>1. FileInv /\ JournalInv /\ used.starts \in Nat /\ used'.starts \in {used.starts, used.starts + 1}
  BY DEF IInv, Shapes, Deed, Lives
<1>2. starts[s].id \in 0..used.starts
  BY DEF IInv, Ids
<1>3. CASE Nothing
  BY <1>1, <1>3 DEF Nothing, FileInv, JournalInv
<1>4. CASE LockStep(s)
  <2>1. PICK l \in Locks : \E v \in {Absent, Blocked, Lock(starts[s].id), Torn(starts[s].id)} :
           /\ files' = [files EXCEPT ![l] = v]
           /\ v = Lock(starts[s].id) => files["journal"] = Absent
           /\ starts[s].id # 0
    BY <1>4 DEF LockStep
  <2>2. PICK v \in {Absent, Blocked, Lock(starts[s].id), Torn(starts[s].id)} :
           /\ files' = [files EXCEPT ![l] = v]
           /\ v = Lock(starts[s].id) => files["journal"] = Absent
           /\ starts[s].id # 0
    BY <2>1
  <2>3. \A n \in {"registry", "journal", "marker"} : files'[n] = files[n]
    BY <2>2 DEF IInv, Shapes, Names, Locks
  <2>4. \A k \in Locks : files'[k] = IF k = l THEN v ELSE files[k]
    BY <2>2 DEF IInv, Shapes, Names, Locks
  <2>5. FileInv'
    BY <1>1, <1>2, <2>2, <2>3, <2>4 DEF FileInv
  <2>6. Blocked.kind = "torn" /\ Torn(starts[s].id).kind = "torn"
    BY DEF Blocked, Torn, File
  <2>7. JournalInv'
    BY <1>1, <2>2, <2>3, <2>4, <2>6 DEF JournalInv
  <2> QED
    BY <2>5, <2>7
<1>5. CASE RegistryStep(s)
  <2>1. files'["registry"] = Absent /\ \A n \in Names \ {"registry"} : files'[n] = files[n]
    BY <1>5 DEF RegistryStep, IInv, Shapes, Names
  <2>2. files["marker"] # Absent
    BY <1>5 DEF RegistryStep, IInv, Own, OwnJournal
  <2>3. FileInv'
    BY <1>1, <2>1 DEF FileInv, Names, Locks, Absent, File
  <2>4. JournalInv'
    BY <1>1, <2>1, <2>2 DEF JournalInv, Names, Locks
  <2> QED
    BY <2>3, <2>4
<1>6. CASE JournalStep(s)
  <2>1. files'["journal"] = Absent /\ \A n \in Names \ {"journal"} : files'[n] = files[n]
    BY <1>6 DEF JournalStep, IInv, Shapes, Names
  <2> QED
    BY <1>1, <2>1 DEF FileInv, JournalInv, Names, Locks
<1> QED
  BY <1>3, <1>4, <1>5, <1>6 DEF Deed, HolderStep

LEMMA DeedBroken ==
  ASSUME IInv, ~raced, NEW s \in Slots, Deed(s), Keeps(s), UNCHANGED Data,
         starts[s].pc \notin Holding \/ Nothing
  PROVE  BrokenInv'
<1> SUFFICES ASSUME Broken' PROVE BrokenInv'
  BY DEF BrokenInv
<1> DEFINE o == files["migrationLock"].by
<1>1. Scrubbed' = Scrubbed /\ credentials' = credentials
  BY DEF Scrubbed, Data
<1>2. files'["registry"] = files["registry"] => Broken
  BY <1>1 DEF Broken
<1>3. CASE RegistryStep(s)
  <2>1. files'["registry"] = Absent
    BY <1>3 DEF RegistryStep, IInv, Shapes, Names
  <2>2. ~Broken
    BY <1>3 DEF RegistryStep, IInv, BrokenInv
  <2>3. ~Scrubbed
    BY <1>3, <2>2 DEF RegistryStep, Broken, Invalid
  <2> QED
    BY <1>1, <2>1, <2>3 DEF Broken, Absent, File
<1>4. CASE ~RegistryStep(s)
  <2>1. Nothing \/ LockStep(s) \/ JournalStep(s)
    BY <1>4 DEF Deed, HolderStep
  <2>2. files'["registry"] = files["registry"]
    BY <2>1 DEF Nothing, LockStep, JournalStep, IInv, Shapes, Names, Locks
  <2>3. Broken /\ BrokenInv
    BY <1>2, <2>2 DEF IInv
  <2>4. ASSUME LockStep(s) PROVE FALSE
    <3>1. PICK l \in Locks :
             \/ files[l] = Absent
             \/ files[l].by = starts[s].id /\ starts[s].pc \in {"token1", "token2", "release1", "release2"}
             \/ files[l] = starts[s].seen[l] /\ starts[s].pc \in Resuming
      BY <2>4 DEF LockStep
    <3>2. files[l] = Lock(o) /\ o # 0 /\ files[l].by = o /\ files[l] # Absent
      BY <2>3 DEF BrokenInv, Lock, Absent, File
    <3>3. starts[s].pc \in Resuming => starts[s].seen[l] # files[l]
      BY <2>3, <3>2 DEF BrokenInv
    <3>4. starts[s].id = o => starts[s].pc \notin {"token1", "token2", "release1", "release2"}
      BY <2>3 DEF BrokenInv
    <3> QED
      BY <3>1, <3>2, <3>3, <3>4
  <2>5. \A l \in Locks : files'[l] = files[l]
    BY <2>1, <2>4 DEF Nothing, JournalStep, IInv, Shapes, Names, Locks
  <2>6. files'["journal"] \in {files["journal"], Absent}
    BY <2>1, <2>4 DEF Nothing, JournalStep, IInv, Shapes, Names, Locks
  <2>7. \A t \in Slots : /\ starts'[t].pc \in Resuming => \A l \in Locks : starts'[t].seen[l] # Lock(o)
                         /\ starts'[t].id = o => Excused(starts'[t])
    BY <2>3 DEF BrokenInv, Keeps, Deed, Lives, Excused
  <2> QED
    BY <2>2, <2>3, <2>5, <2>6, <2>7 DEF BrokenInv, Excused, Absent, File, Locks
<1> QED
  BY <1>3, <1>4

------------------------
(* The steps. *)

\* A step leaves the state in form.
Formed(s) ==
  LET q == starts'[s] IN
  /\ DOMAIN starts' = Slots /\ DOMAIN files' = Names /\ DOMAIN sources' = Sources
  /\ used' \in [starts : Nat, faults : Nat, deaths : Nat]
  /\ DOMAIN q = Fields /\ q.pc \in Pcs /\ (q.pc = "idle" <=> q.id = 0)
  /\ q.pc \notin Removing => q.claim = Absent
  /\ Unclaimed(q)
  /\ Lives(s)

Good(s) ==
  /\ Formed(s)
  /\ ~raced /\ ~raced' => Deed(s) /\ Own(s)' /\ FileInv' /\ JournalInv' /\ BrokenInv'

LEMMA Used ==
  ASSUME Shapes, Fault \/ NoFault
  PROVE  used' \in [starts : Nat, faults : Nat, deaths : Nat] /\ used'.starts = used.starts
<1>1. CASE NoFault
  BY <1>1 DEF Shapes, NoFault
<1>2. CASE Fault
  BY <1>2 DEF Shapes, Fault, Use
<1> QED
  BY <1>1, <1>2

\* A step of a start that does not end it, to a record that keeps its id.
LEMMA Forms ==
  ASSUME IInv, NEW s \in Slots, NEW x, Step(s, x), DOMAIN x = Fields,
         starts[s].pc # "idle", x.id = starts[s].id,
         x.pc \in Pcs \ {"idle"}, x.pc \notin Removing => x.claim = Absent, Unclaimed(x),
         starts[s].pc \in Past => x.pc \in Past,
         DOMAIN files' = Names, DOMAIN sources' = Sources, Fault \/ NoFault
  PROVE  Formed(s) /\ starts'[s] = x
<1>1. starts'[s] = x /\ DOMAIN starts' = Slots /\ \A t \in Slots \ {s} : starts'[t] = starts[t]
  BY DEF Step, IInv, Shapes
<1>2. starts[s].id # 0
  BY DEF IInv, Ids
<1>3. used' \in [starts : Nat, faults : Nat, deaths : Nat] /\ used'.starts = used.starts
  BY Used DEF IInv
<1> QED
  BY <1>1, <1>2, <1>3 DEF Formed, Lives

\* A step that changes no file.
LEMMA QuietGood ==
  ASSUME IInv, NEW s \in Slots, Formed(s), Nothing, UNCHANGED Data,
         ~raced => Own(s)' /\ Keeps(s)
  PROVE  Good(s)
<1> SUFFICES ASSUME ~raced, ~raced' PROVE Deed(s) /\ Own(s)' /\ FileInv' /\ JournalInv' /\ BrokenInv'
  BY DEF Good
<1>1. Deed(s)
  BY DEF Deed, Formed, Stored
<1> QED
  BY <1>1, DeedFiles, DeedBroken

LEMMA FormedIds == ASSUME IInv, NEW s \in Slots, Formed(s) PROVE Shapes' /\ Ids'
<1>1. \A t \in Slots \ {s} : starts'[t] = starts[t]
  BY DEF Formed, Lives
<1>2. used.starts \in Nat /\ used'.starts \in Nat /\ used.starts <= used'.starts
  BY DEF Formed, Lives, IInv, Shapes
<1>3. Shapes'
  BY <1>1 DEF Formed, IInv, Shapes
<1>4. \A t \in Slots \ {s} : starts[t].id \in 0..used.starts /\ (starts'[s].id # 0 => starts[t].id # starts'[s].id)
  BY <1>2 DEF Formed, Lives, IInv, Ids
<1>5. starts[s].id \in 0..used.starts /\ starts'[s].id \in 0..used'.starts
  BY <1>2 DEF Formed, Lives, IInv, Ids
<1>6. Ids'
  BY <1>1, <1>2, <1>4, <1>5 DEF Formed, IInv, Ids, Pcs
<1> QED
  BY <1>3, <1>6

LEMMA InspectGood == ASSUME IInv, NEW s \in Slots, Inspect(s) PROVE Good(s)
<1> DEFINE r == starts[s]
           q == starts'[s]
<1>1. /\ r.pc = "inspect" /\ r.claim = Absent /\ DOMAIN r = Fields
      /\ Nothing /\ UNCHANGED Data
  BY DEF Inspect, At, IInv, Ids, Shapes, Removing, Nothing, Data
<1>3. PICK x \in {[r EXCEPT !.pc = "rollback", !.failed = TRUE], [r EXCEPT !.pc = "legacy"],
               [r EXCEPT !.pc = "upgrade", !.seen = files], [r EXCEPT !.pc = "release1"],
               [r EXCEPT !.pc = "journal", !.seen = files]} :
        /\ Step(s, x) /\ (Fault \/ NoFault)
        /\ x.pc = "legacy" => files["registry"].kind = "absent"
        /\ x.pc = "upgrade" => files["registry"].kind = "old"
        /\ x.pc = "journal" => Invalid(files["registry"]) /\ files["marker"] = Absent
  BY <1>1 DEF Inspect, Fails, Goto, Fields
<1>4. /\ DOMAIN x = Fields /\ x.id = r.id /\ x.claim = Absent
      /\ x.wrote = r.wrote /\ x.upgraded = r.upgraded /\ x.imports = r.imports /\ x.scrubbed = r.scrubbed
      /\ x.pc \in {"rollback", "legacy", "upgrade", "release1", "journal"}
      /\ x.pc = "rollback" => x.failed
      /\ x.pc = "journal" => x.seen = files
  BY <1>1, <1>3 DEF Fields
<1>5. Formed(s) /\ q = x
  BY <1>1, <1>3, <1>4, Forms DEF Unclaimed, Pcs, Holding, Quarantining, Importing, Undoing, Past, Nothing, Data, IInv, Shapes
<1> SUFFICES ASSUME ~raced PROVE Own(s)' /\ Keeps(s)
  BY <1>1, <1>5, QuietGood
<1>6. Own(s) /\ ~Broken /\ FileInv
  BY <1>1, HolderWhole DEF IInv, Excused, Holding
<1>7. OwnLocks(starts[s])'
  BY <1>1, <1>4, <1>5, <1>6 DEF Own, OwnLocks, Holding, Quarantining, Nothing
<1>8. OwnJournal(starts[s])'
  BY <1>1, <1>3, <1>4, <1>5, <1>6 DEF Own, OwnJournal, Quiet, Resuming, Nothing
<1>9. SeenInv(starts[s])'
  BY <1>4, <1>5 DEF SeenInv, Resuming
<1>10. Fresh(starts[s])'
  BY <1>1, <1>4, <1>5, <1>6 DEF Own, Fresh, Resuming, Locking, Quarantining, Undoing
<1>11. OwnImport(starts[s])'
  <2>1. ~Broken' /\ (Scrubbed' <=> Scrubbed)
    BY <1>1, <1>6 DEF Broken, Scrubbed, Nothing, Data
  <2>2. files'["registry"].kind # "current" => ~Scrubbed'
    BY <2>1 DEF Broken
  <2> QED
    BY <1>1, <1>3, <1>4, <1>5, <1>6, <2>1, <2>2 DEF Own, OwnImport, Fresh, Apart, FileInv, Nothing, Quarantining
<1>12. Keeps(s)
  BY <1>1, <1>4, <1>5, <1>6 DEF Keeps, Resuming
<1> QED
  BY <1>5, <1>7, <1>8, <1>9, <1>10, <1>11, <1>12 DEF Own

------------------------
(* The end of a start. *)

LEMMA IdleShape ==
  /\ DOMAIN Idle = Fields /\ Idle.pc = "idle" /\ Idle.id = 0 /\ Idle.claim = Absent
  /\ ~Idle.wrote /\ ~Idle.upgraded /\ Idle.imports = {} /\ Idle.scrubbed = {}
BY DEF Idle, Fields

LEMMA Ends ==
  ASSUME IInv, NEW s \in Slots, Step(s, Idle), starts[s].pc # "idle",
         DOMAIN files' = Names, DOMAIN sources' = Sources,
         used' \in [starts : Nat, faults : Nat, deaths : Nat], used'.starts = used.starts
  PROVE  /\ Formed(s) /\ Keeps(s) /\ starts'[s] = Idle
         /\ Own(s)'
<1>1. starts'[s] = Idle /\ DOMAIN starts' = Slots /\ \A t \in Slots \ {s} : starts'[t] = starts[t]
  BY DEF Step, IInv, Shapes
<1>2. Formed(s)
  BY <1>1, IdleShape DEF Formed, Lives, Pcs, Unclaimed
<1>3. Keeps(s)
  BY <1>1, IdleShape DEF Keeps, Resuming
<1>4. (starts[s].pc)' = "idle"
  BY <1>1, IdleShape
<1>5. OwnLocks(starts[s])' /\ OwnJournal(starts[s])'
  BY <1>4 DEF OwnLocks, OwnJournal, Holding, Quarantining, Importing, Undoing, Quiet, Resuming
<1>6. SeenInv(starts[s])' /\ Fresh(starts[s])' /\ OwnImport(starts[s])'
  BY <1>4 DEF SeenInv, Fresh, OwnImport, Resuming, Locking, Quarantining, Undoing
<1> QED
  BY <1>1, <1>2, <1>3, <1>5, <1>6 DEF Own

LEMMA EndGood == ASSUME IInv, NEW s \in Slots, End(s) \/ ResumeFails(s) PROVE Good(s)
<1>1. /\ starts[s].pc # "idle" /\ Step(s, Idle) /\ Nothing /\ UNCHANGED Data /\ UNCHANGED used
  BY DEF End, ResumeFails, At, Over, Nothing, Data
<1>2. Formed(s) /\ Keeps(s) /\ Own(s)'
  BY <1>1, Ends DEF IInv, Shapes, Nothing, Data
<1> QED
  BY <1>1, <1>2, QuietGood

LEMMA DieGood == ASSUME IInv, NEW s \in Slots, Die(s) PROVE Good(s)
<1>1. /\ starts[s].pc # "idle" /\ Step(s, Idle) /\ Nothing /\ UNCHANGED Data
      /\ used' \in [starts : Nat, faults : Nat, deaths : Nat] /\ used'.starts = used.starts
  BY DEF Die, Use, IInv, Ids, Shapes, Nothing, Data
<1>2. Formed(s) /\ Keeps(s) /\ Own(s)'
  BY <1>1, Ends DEF IInv, Shapes, Nothing, Data
<1> QED
  BY <1>1, <1>2, QuietGood

------------------------
(* A file that is taken away. *)

LEMMA RemoveForms ==
  ASSUME IInv, NEW s \in Slots, NEW name \in Names, NEW expected, NEW ok, NEW bad,
         Remove(s, name, expected, ok, bad), starts[s].pc \in Removing,
         DOMAIN ok = Fields, DOMAIN bad = Fields, ok.id = starts[s].id, bad.id = starts[s].id,
         bad.claim = starts[s].claim, ok.pc \in Pcs \ {"idle"}, bad.pc \in Pcs \ {"idle"},
         starts[s].pc \in Past => ok.pc \in Past /\ bad.pc \in Past,
         bad.pc \notin Resuming, starts[s].pc \in Resuming => expected = starts[s].seen[Target(starts[s].pc)] /\ expected # Absent
  PROVE  Formed(s) /\ UNCHANGED Data
<1> DEFINE r == starts[s]
<1>1. /\ DOMAIN r = Fields /\ r.pc \in Pcs \ {"idle"} /\ UNCHANGED Data
      /\ DOMAIN sources' = Sources /\ (Fault \/ NoFault)
  BY DEF Remove, IInv, Shapes, Ids, Pcs, Data, Removing
<1>2. DOMAIN files' = Names
  BY DEF Remove, Put, IInv, Shapes
<1>3. PICK x : /\ Step(s, x)
              /\ \/ x = [r EXCEPT !.claim = files[name]]
                 \/ x = bad /\ r.claim = Absent
                 \/ x = [ok EXCEPT !.claim = Absent] \/ x = [bad EXCEPT !.claim = Absent]
  BY DEF Remove
<1>4. CASE x = [r EXCEPT !.claim = files[name]]
  <2>1. DOMAIN x = Fields /\ x.id = r.id /\ x.pc = r.pc /\ x.seen = r.seen
    BY <1>1, <1>4 DEF Fields
  <2>2. Unclaimed(x)
    BY <2>1 DEF Unclaimed
  <2> QED
    BY <1>1, <1>2, <1>3, <2>1, <2>2, Forms
<1>5. CASE x = bad /\ r.claim = Absent
  BY <1>1, <1>2, <1>3, <1>5, Forms DEF Unclaimed
<1>6. CASE x = [ok EXCEPT !.claim = Absent]
  <2>1. DOMAIN x = Fields /\ x.id = r.id /\ x.pc = ok.pc /\ x.claim = Absent
    BY <1>6 DEF Fields
  <2> QED
    BY <1>1, <1>2, <1>3, <2>1, Forms DEF Unclaimed
<1>7. CASE x = [bad EXCEPT !.claim = Absent]
  <2>1. DOMAIN x = Fields /\ x.id = r.id /\ x.pc = bad.pc /\ x.claim = Absent
    BY <1>7 DEF Fields
  <2> QED
    BY <1>1, <1>2, <1>3, <2>1, Forms DEF Unclaimed
<1> QED
  BY <1>1, <1>3, <1>4, <1>5, <1>6, <1>7

\* What a start is after it took a file away, could not, or is done with it.
LEMMA RemoveIs ==
  ASSUME IInv, NEW s \in Slots, NEW name \in Names, NEW expected, NEW ok, NEW bad,
         Remove(s, name, expected, ok, bad), ~raced'
  PROVE  LET r == starts[s]
             q == starts'[s]
         IN \/ /\ r.claim = Absent /\ files[name] = expected /\ expected # Absent
               /\ files' = [files EXCEPT ![name] = Absent] /\ q = [r EXCEPT !.claim = expected]
            \/ r.claim = Absent /\ files' = files /\ q = bad
            \/ /\ r.claim = Absent /\ name \in Locks /\ files[name] = Absent
               /\ files' = [files EXCEPT ![name] = Blocked] /\ q = bad
            \/ r.claim # Absent /\ files' = files /\ q = [ok EXCEPT !.claim = Absent]
<1>1. \A x : Step(s, x) => starts'[s] = x
  BY DEF Step, IInv, Shapes
<1> QED
  BY <1>1 DEF Remove, Put

------------------------
(* The resume. *)

LEMMA ResumeOwn ==
  ASSUME IInv, ~raced, NEW s \in Slots, Lives(s),
         starts[s].pc \in Resuming, starts'[s].pc \in Resuming \union {"lock", "stuck"},
         starts'[s].id = starts[s].id, starts'[s].seen = starts[s].seen,
         starts'[s].wrote = starts[s].wrote, starts'[s].upgraded = starts[s].upgraded,
         starts'[s].imports = starts[s].imports, starts'[s].scrubbed = starts[s].scrubbed,
         files'["journal"] \in {files["journal"], Absent}, files'["marker"] = files["marker"],
         starts'[s].pc \in {"resumeCanonical", "resumeVerify"} => starts[s].pc = "resumeCanonical",
         (\/ starts'[s].pc = "lock"
          \/ /\ starts'[s].pc = "resumeJournal"
             /\ starts'[s].claim # Absent \/ starts[s].seen["journal"] = Absent)
           => files'["journal"] = Absent \/ files'["journal"].by # starts[s].seen["journal"].by
  PROVE  Own(s)' /\ Keeps(s)
<1> DEFINE r == starts[s]
           q == starts'[s]
<1>1. OwnJournal(r) /\ SeenInv(r) /\ Fresh(r) /\ r.id # 0
  BY DEF IInv, Own, Ids, Resuming
<1>2. used.starts \in Nat /\ used'.starts = used.starts
  BY <1>1 DEF Lives, IInv, Shapes, Ids
<1>3. OwnLocks(starts[s])'
  BY DEF OwnLocks, Resuming, Holding, Quarantining, Importing, Undoing
<1>4. OwnJournal(starts[s])'
  <2>1. Absent.by = 0
    BY DEF Absent, File
  <2> QED
    BY <1>1, <2>1 DEF OwnJournal, Resuming, Quiet, Importing, Undoing
<1>5. SeenInv(starts[s])'
  <2>1. r.seen["journal"].by \in 0..used.starts /\ r.seen["journal"].by # r.id
    BY <1>1 DEF SeenInv, Past, Resuming
  <2>2. \A t \in Slots : starts'[t].id # 0 => starts'[t].id = starts[t].id
    BY <1>1 DEF Lives
  <2>3. \A t \in Slots : starts'[t].id = r.seen["journal"].by /\ starts'[t].id # 0 => starts'[t].pc \in Past
    BY <1>1, <2>1, <2>2 DEF SeenInv, Lives
  <2>4. \A n : ~Alive(n) => ~Alive(n)'
    BY <2>2 DEF Alive
  <2>5. \A l \in Locks : r.seen[l] = Absent \/ \E n \in 1..used.starts : r.seen[l] = Lock(n) /\ ~Alive(n)
    BY <1>1 DEF SeenInv
  <2>6. q.pc = "resumeCanonical" => r.seen["registry"] = Absent \/ Invalid(r.seen["registry"])
    BY <1>1 DEF SeenInv
  <2> QED
    BY <1>2, <2>1, <2>3, <2>4, <2>5, <2>6 DEF SeenInv
<1>6. Fresh(starts[s])'
  BY <1>1 DEF Fresh, Resuming, Locking, Undoing, Quarantining
<1>7. OwnImport(starts[s])'
  BY DEF OwnImport, Resuming
<1>8. Keeps(s)
  BY DEF Keeps, Excused, Resuming
<1> QED
  BY <1>3, <1>4, <1>5, <1>6, <1>7, <1>8 DEF Own

\* A step outside the locks is good when it is one for the others.
LEMMA DeedGood ==
  ASSUME IInv, NEW s \in Slots, Formed(s), UNCHANGED Data, starts[s].pc \notin Holding,
         ~raced /\ ~raced' => Deed(s) /\ Own(s)' /\ Keeps(s)
  PROVE  Good(s)
BY DeedFiles, DeedBroken DEF Good

LEMMA ResumeGood ==
  ASSUME IInv, NEW s \in Slots, NEW pc, NEW name, NEW next, Resume(s, pc, name, next),
         \/ pc = "resumeCanonical" /\ name = "registry" /\ next = "resumeVerify"
         \/ pc = "resumeRegistry" /\ name = "registryLock" /\ next = "resumeMigration"
         \/ pc = "resumeMigration" /\ name = "migrationLock" /\ next = "resumeJournal"
         \/ pc = "resumeJournal" /\ name = "journal" /\ next = "lock"
  PROVE  Good(s)
<1> DEFINE r == starts[s]
           q == starts'[s]
           ok == [r EXCEPT !.pc = next]
           bad == [r EXCEPT !.pc = "stuck"]
           expected == r.seen[name]
<1>1. /\ r.pc = pc /\ DOMAIN r = Fields /\ r.pc \in Resuming \ {"resumeVerify"} /\ r.pc # "idle"
      /\ r.pc \in Removing /\ r.pc \notin Past /\ r.pc \notin Holding /\ r.id # 0
      /\ name \in Names /\ expected = r.seen[Target(r.pc)]
  BY DEF Resume, At, IInv, Shapes, Ids, Resuming, Removing, Past, Holding, Quarantining, Importing,
         Undoing, Names, Target, Locks
<1>2. /\ ok.pc = next /\ DOMAIN ok = Fields /\ ok.id = r.id /\ ok.seen = r.seen /\ ok.claim = r.claim
      /\ ok.wrote = r.wrote /\ ok.upgraded = r.upgraded /\ ok.imports = r.imports
      /\ ok.scrubbed = r.scrubbed
  BY <1>1 DEF Fields
<1>3. /\ bad.pc = "stuck" /\ DOMAIN bad = Fields /\ bad.id = r.id /\ bad.seen = r.seen
      /\ bad.claim = r.claim /\ bad.wrote = r.wrote /\ bad.upgraded = r.upgraded
      /\ bad.imports = r.imports /\ bad.scrubbed = r.scrubbed
  BY <1>1 DEF Fields
<1>4. /\ next \in Pcs \ {"idle"} /\ next # "stuck" /\ next \in Resuming \union {"lock"}
      /\ "stuck" \in Pcs \ {"idle"} /\ "stuck" \notin Resuming
      /\ next # "resumeCanonical" /\ (next = "resumeVerify" => r.pc = "resumeCanonical")
      /\ (next = "lock" => r.pc = "resumeJournal")
  BY <1>1 DEF Resuming, Pcs, Locking, Past
<1> HIDE DEF ok, bad
<1>5. CASE expected = Absent
  <2>1. Step(s, ok) /\ Nothing /\ UNCHANGED Data /\ NoFault
    BY <1>1, <1>5 DEF Resume, Goto, Nothing, Data, NoFault, ok
  <2>2. r.claim = Absent
    BY <1>1, <1>5 DEF IInv, Ids, Unclaimed
  <2>3. Formed(s) /\ q = ok
    BY <1>1, <1>2, <1>4, <2>1, <2>2, Forms DEF Unclaimed, Nothing, Data, IInv, Shapes
  <2>4. ~raced => Own(s)' /\ Keeps(s)
    <3>1. ~raced => /\ ok.pc = "resumeJournal" => OwnJournal(r)
                    /\ OwnJournal(r) /\ SeenInv(r)
      BY DEF IInv, Own
    <3>2. ok.pc = "lock" => expected = r.seen["journal"]
      BY <1>1, <1>2, <1>4
    <3>3. OwnJournal(r) /\ ok.pc = "lock" => files["journal"] = Absent \/ files["journal"].by # r.seen["journal"].by
      BY <1>2, <1>4, <1>5, <3>2 DEF OwnJournal
    <3>4. files' = files /\ Absent.by = 0
      BY <2>1 DEF Nothing, Absent, File
    <3>5. ~raced => (ok.pc = "resumeJournal" /\ r.seen["journal"] = Absent
                       => files["journal"] = Absent \/ files["journal"].by # 0)
      BY DEF IInv, JournalInv
    <3>6. SeenInv(r) /\ r.seen["journal"] = Absent => r.seen["journal"].by = 0
      BY <3>4
    <3> QED
      BY <1>1, <1>2, <1>4, <2>2, <2>3, <3>1, <3>3, <3>4, <3>5, <3>6, ResumeOwn DEF Formed
  <2> QED
    BY <2>1, <2>3, <2>4, QuietGood
<1>6. CASE expected # Absent
  <2>1. Remove(s, name, expected, ok, bad)
    BY <1>1, <1>6 DEF Resume, ok, bad
  <2>2. Formed(s) /\ UNCHANGED Data
    BY <1>1, <1>2, <1>3, <1>4, <1>6, <2>1, RemoveForms
  <2> SUFFICES ASSUME ~raced, ~raced' PROVE Deed(s) /\ Own(s)' /\ Keeps(s)
    BY <1>1, <2>2, DeedGood
  <2>3. SeenInv(r) /\ OwnJournal(r) /\ Lives(s) /\ JournalInv
    BY <2>2 DEF IInv, Own, Formed
  <2>4. \A n \in Names : DOMAIN files = Names
    BY DEF IInv, Shapes
  <2>5. CASE r.claim = Absent /\ files[name] = expected /\ files' = [files EXCEPT ![name] = Absent]
             /\ q = [r EXCEPT !.claim = expected]
    <3>1. /\ q.pc = r.pc /\ q.id = r.id /\ q.seen = r.seen /\ q.wrote = r.wrote
          /\ q.upgraded = r.upgraded /\ q.imports = r.imports /\ q.scrubbed = r.scrubbed
      BY <1>1, <2>5 DEF Fields
    <3>2. /\ files'["journal"] \in {files["journal"], Absent} /\ files'["marker"] = files["marker"]
          /\ pc = "resumeJournal" => files'["journal"] = Absent
      BY <1>1, <2>4, <2>5 DEF Names, Locks
    <3>3. Own(s)' /\ Keeps(s)
      BY <1>1, <2>3, <3>1, <3>2, ResumeOwn
    <3>4. pc = "resumeCanonical" => RegistryStep(s)
      BY <1>1, <1>6, <2>3, <2>5 DEF RegistryStep, SeenInv
    <3>5. pc = "resumeJournal" => JournalStep(s)
      BY <1>1, <2>5 DEF JournalStep
    <3>6. name \in Locks => LockStep(s)
      BY <1>1, <1>6, <2>5 DEF LockStep, Lock, Absent, File, Resuming
    <3> QED
      BY <1>1, <2>2, <2>3, <3>3, <3>4, <3>5, <3>6 DEF Deed, Stored, Locks
  <2>6. CASE r.claim = Absent /\ q = bad /\ files' = files
    <3>1. Own(s)' /\ Keeps(s)
      BY <1>1, <1>3, <2>3, <2>6, ResumeOwn
    <3> QED
      BY <2>2, <2>3, <2>6, <3>1 DEF Deed, Stored, Nothing
  <2>7. CASE r.claim = Absent /\ q = bad /\ name \in Locks /\ files[name] = Absent
             /\ files' = [files EXCEPT ![name] = Blocked]
    <3>1. files'["journal"] = files["journal"] /\ files'["marker"] = files["marker"]
      BY <2>4, <2>7 DEF Names, Locks
    <3>2. Own(s)' /\ Keeps(s)
      BY <1>1, <1>3, <2>3, <2>7, <3>1, ResumeOwn
    <3>3. LockStep(s)
      BY <1>1, <2>7 DEF LockStep, Lock, Blocked, File
    <3> QED
      BY <2>2, <2>3, <3>2, <3>3 DEF Deed, Stored
  <2>8. CASE r.claim # Absent /\ q = [ok EXCEPT !.claim = Absent] /\ files' = files
    <3>1. /\ q.pc = next /\ q.id = r.id /\ q.seen = r.seen /\ q.wrote = r.wrote /\ q.claim = Absent
          /\ q.upgraded = r.upgraded /\ q.imports = r.imports /\ q.scrubbed = r.scrubbed
      BY <1>2, <2>8 DEF Fields
    <3>2. next = "lock" => files["journal"] = Absent \/ files["journal"].by # r.seen["journal"].by
      BY <1>4, <2>3, <2>8 DEF OwnJournal
    <3>3. next = "resumeJournal" /\ r.seen["journal"] = Absent
            => files["journal"] = Absent \/ files["journal"].by # r.seen["journal"].by
      BY <2>3 DEF JournalInv, Absent, File
    <3>4. Own(s)' /\ Keeps(s)
      BY <1>1, <1>4, <2>3, <2>8, <3>1, <3>2, <3>3, ResumeOwn
    <3> QED
      BY <2>2, <2>3, <2>8, <3>4 DEF Deed, Stored, Nothing
  <2>9. \/ /\ r.claim = Absent /\ files[name] = expected /\ expected # Absent
           /\ files' = [files EXCEPT ![name] = Absent] /\ q = [r EXCEPT !.claim = expected]
        \/ r.claim = Absent /\ files' = files /\ q = bad
        \/ /\ r.claim = Absent /\ name \in Locks /\ files[name] = Absent
           /\ files' = [files EXCEPT ![name] = Blocked] /\ q = bad
        \/ r.claim # Absent /\ files' = files /\ q = [ok EXCEPT !.claim = Absent]
    <3> HIDE DEF expected
    <3> QED
      BY <1>1, <2>1, RemoveIs
  <2> QED
    BY <2>5, <2>6, <2>7, <2>8, <2>9
<1> QED
  BY <1>5, <1>6

LEMMA ResumeVerifyGood == ASSUME IInv, NEW s \in Slots, ResumeVerify(s) PROVE Good(s)
<1> DEFINE r == starts[s]
           q == starts'[s]
<1>1. /\ r.pc = "resumeVerify" /\ r.claim = Absent /\ DOMAIN r = Fields
      /\ Nothing /\ UNCHANGED Data
  BY DEF ResumeVerify, At, IInv, Ids, Shapes, Removing, Nothing, Data
<1>2. PICK p \in {"resumeRegistry", "stuck"} : Step(s, [r EXCEPT !.pc = p]) /\ (Fault \/ NoFault)
  BY DEF ResumeVerify, Goto
<1> DEFINE x == [r EXCEPT !.pc = p]
<1>3. /\ DOMAIN x = Fields /\ x.pc = p /\ x.id = r.id /\ x.claim = Absent /\ x.seen = r.seen
      /\ x.wrote = r.wrote /\ x.upgraded = r.upgraded /\ x.imports = r.imports /\ x.scrubbed = r.scrubbed
  BY <1>1 DEF Fields
<1> HIDE DEF x
<1>4. Step(s, x)
  BY <1>2 DEF x
<1>5. Formed(s) /\ q = x
  BY <1>1, <1>2, <1>3, <1>4, Forms DEF Unclaimed, Pcs, Resuming, Past, Nothing, Data, IInv, Shapes
<1>6. ~raced => Own(s)' /\ Keeps(s)
  BY <1>1, <1>2, <1>3, <1>5, ResumeOwn DEF Formed, Resuming, Nothing
<1> QED
  BY <1>1, <1>5, <1>6, QuietGood

------------------------
(* A start that has nothing to write any more. *)

LEMMA PastOwn ==
  ASSUME NEW s \in Slots, starts'[s].pc \in Past
  PROVE  Own(s)'
<1>1. OwnLocks(starts[s])' /\ OwnJournal(starts[s])'
  BY DEF OwnLocks, OwnJournal, Past, Holding, Quarantining, Importing, Undoing, Quiet, Resuming
<1>2. SeenInv(starts[s])' /\ Fresh(starts[s])' /\ OwnImport(starts[s])'
  BY DEF SeenInv, Fresh, OwnImport, Past, Resuming, Locking, Quarantining, Undoing
<1> QED
  BY <1>1, <1>2 DEF Own

LEMMA PastGood ==
  ASSUME IInv, NEW s \in Slots, NEW name, NEW expected, NEW ok, NEW bad,
         Remove(s, name, expected, ok, bad),
         \/ starts[s].pc = "release1" /\ name = "registryLock" /\ expected = Lock(starts[s].id)
         \/ starts[s].pc = "release2" /\ name = "migrationLock" /\ expected = Lock(starts[s].id)
         \/ starts[s].pc = "unjournal" /\ name = "journal" /\ expected.by = starts[s].id,
         DOMAIN ok = Fields, DOMAIN bad = Fields, ok.id = starts[s].id, bad.id = starts[s].id,
         bad.claim = starts[s].claim, ok.pc \in Past, bad.pc \in Past \ {"stuck"}
  PROVE  Good(s)
<1> DEFINE r == starts[s]
           q == starts'[s]
<1>1. /\ r.pc \in Removing /\ r.pc \in Past /\ r.pc \notin Resuming /\ r.pc \notin Holding /\ r.id # 0
      /\ name \in Names /\ DOMAIN r = Fields
  BY DEF Removing, Past, Resuming, Holding, Quarantining, Importing, Undoing, IInv, Ids, Shapes, Names, Locks
<1>2. ok.pc \in Pcs \ {"idle"} /\ bad.pc \in Pcs \ {"idle"} /\ bad.pc \notin Resuming
  BY DEF Pcs, Past, Resuming
<1>3. Formed(s) /\ UNCHANGED Data
  BY <1>1, <1>2, RemoveForms
<1> SUFFICES ASSUME ~raced, ~raced' PROVE Deed(s) /\ Own(s)' /\ Keeps(s)
  BY <1>1, <1>3, DeedGood
<1>4. \/ /\ r.claim = Absent /\ files[name] = expected /\ expected # Absent
         /\ files' = [files EXCEPT ![name] = Absent] /\ q = [r EXCEPT !.claim = expected]
      \/ r.claim = Absent /\ files' = files /\ q = bad
      \/ /\ r.claim = Absent /\ name \in Locks /\ files[name] = Absent
         /\ files' = [files EXCEPT ![name] = Blocked] /\ q = bad
      \/ r.claim # Absent /\ files' = files /\ q = [ok EXCEPT !.claim = Absent]
  BY <1>1, RemoveIs
<1>5. q.pc \in Past /\ q.id = r.id
  <2>1. [r EXCEPT !.claim = expected].pc = r.pc /\ [r EXCEPT !.claim = expected].id = r.id
    BY <1>1 DEF Fields
  <2>2. [ok EXCEPT !.claim = Absent].pc = ok.pc /\ [ok EXCEPT !.claim = Absent].id = ok.id
    BY DEF Fields
  <2> QED
    BY <1>1, <1>4, <2>1, <2>2
<1>6. Own(s)'
  BY <1>5, PastOwn
<1>7. Keeps(s)
  BY <1>1, <1>5 DEF Keeps, Excused, Past, Resuming
<1>8. Nothing \/ LockStep(s) \/ JournalStep(s)
  <2>1. CASE files' = files
    BY <2>1 DEF Nothing
  <2>2. Absent.by = 0 /\ Absent # Lock(r.id) /\ Blocked # Lock(r.id) /\ Lock(r.id).by = r.id
    BY <1>1 DEF Lock, Blocked, Absent, File
  <2>3. CASE files[name] = expected /\ files' = [files EXCEPT ![name] = Absent] /\ name \in Locks
    BY <1>1, <2>2, <2>3 DEF LockStep, Locks
  <2>4. CASE files[name] = expected /\ files' = [files EXCEPT ![name] = Absent] /\ name \notin Locks
    BY <1>1, <2>4 DEF JournalStep, Locks
  <2>5. CASE name \in Locks /\ files[name] = Absent /\ files' = [files EXCEPT ![name] = Blocked]
    BY <1>1, <2>2, <2>5 DEF LockStep
  <2> QED
    BY <1>4, <2>1, <2>3, <2>4, <2>5
<1> QED
  BY <1>3, <1>6, <1>7, <1>8 DEF Deed, Formed, Stored

LEMMA ReleaseRegistryLockGood ==
  ASSUME IInv, NEW s \in Slots, ReleaseRegistryLock(s) PROVE Good(s)
<1> DEFINE r == starts[s]
           ok == [r EXCEPT !.pc = "release2"]
           bad == [r EXCEPT !.pc = "release2", !.releases = FALSE]
<1>1. DOMAIN r = Fields
  BY DEF IInv, Shapes
<1>2. /\ DOMAIN ok = Fields /\ ok.id = r.id /\ ok.pc = "release2"
      /\ DOMAIN bad = Fields /\ bad.id = r.id /\ bad.pc = "release2" /\ bad.claim = r.claim
  BY <1>1 DEF Fields
<1>3. r.pc = "release1" /\ Remove(s, "registryLock", Lock(r.id), ok, bad)
  BY DEF ReleaseRegistryLock, At, ReleaseLock
<1> HIDE DEF ok, bad
<1> QED
  BY <1>2, <1>3, PastGood DEF Past

LEMMA ReleaseMigrationLockGood ==
  ASSUME IInv, NEW s \in Slots, ReleaseMigrationLock(s) PROVE Good(s)
<1> DEFINE r == starts[s]
           p == IF r.keep /\ r.releases THEN "unjournal" ELSE "over"
           ok == [r EXCEPT !.pc = p]
           bad == [r EXCEPT !.pc = "over", !.releases = FALSE]
<1>1. DOMAIN r = Fields /\ p \in {"unjournal", "over"}
  BY DEF IInv, Shapes
<1>2. r.pc = "release2" /\ Remove(s, "migrationLock", Lock(r.id), ok, bad)
  BY DEF ReleaseMigrationLock, At, ReleaseLock
<1> HIDE DEF p
<1>3. /\ DOMAIN ok = Fields /\ ok.id = r.id /\ ok.pc = p
      /\ DOMAIN bad = Fields /\ bad.id = r.id /\ bad.pc = "over" /\ bad.claim = r.claim
  BY <1>1 DEF Fields
<1> HIDE DEF ok, bad
<1> QED
  BY <1>1, <1>2, <1>3, PastGood DEF Past

LEMMA RemoveJournalGood == ASSUME IInv, NEW s \in Slots, RemoveJournal(s) PROVE Good(s)
<1> DEFINE r == starts[s]
           ok == [r EXCEPT !.pc = "over"]
           bad == [r EXCEPT !.pc = "over", !.releases = FALSE]
           journal == Journal(s, "released")
<1>1. DOMAIN r = Fields
  BY DEF IInv, Shapes
<1>2. /\ DOMAIN ok = Fields /\ ok.id = r.id /\ ok.pc = "over"
      /\ DOMAIN bad = Fields /\ bad.id = r.id /\ bad.pc = "over" /\ bad.claim = r.claim
  BY <1>1 DEF Fields
<1>3. r.pc = "unjournal" /\ Remove(s, "journal", journal, ok, bad) /\ journal.by = r.id
  BY DEF RemoveJournal, At, Journal, File
<1> HIDE DEF ok, bad, journal
<1> QED
  BY <1>2, <1>3, PastGood DEF Past

------------------------
(* A new start. *)

\* What a start resumes is an invalid registry with dead locks.
LEMMA ReadingIs ==
  ASSUME IInv, ~raced, Reading \notin {"invalid", "degraded", "busy"}
  PROVE  /\ Reading \in {"lock", "resumeCanonical", "resumeRegistry"}
         /\ Reading = "lock" => files["journal"] = Absent
         /\ Reading = "resumeCanonical" => /\ files["marker"] # Absent
                                           /\ files["registry"] = Absent \/ Invalid(files["registry"])
         /\ Reading # "lock" => /\ \A l \in Locks : files[l] = Absent \/ \E n \in 1..used.starts : files[l] = Lock(n) /\ ~Alive(n)
                                /\ ~Broken
         /\ \A t \in Slots : starts[t].id = files["journal"].by /\ starts[t].id # 0 => starts[t].pc \in Past
<1>1. FileInv /\ JournalInv /\ BrokenInv /\ Absent.by = 0 /\ Absent.kind = "absent"
  BY DEF IInv, Absent, File
<1>2. \A n : Torn(n).kind = "torn" /\ Blocked.kind = "torn" /\ Lock(n).by = n /\ Lock(n).kind = "whole"
              /\ Lock(n) # Absent
  BY DEF Torn, Blocked, Lock, Absent, File
<1>3. CASE files["journal"] = Absent
  <2>1. Reading = LeftoverReading
    BY <1>3 DEF Reading
  <2>2. Reading \in {"lock", "resumeRegistry"}
    BY <2>1 DEF LeftoverReading
  <2>3. ASSUME Reading # "lock"
        PROVE  /\ \A l \in Locks : files[l].kind # "torn" /\ (files[l] # Absent => ~Alive(files[l].by))
               /\ Invalid(files["registry"])
    BY <2>1, <2>2, <2>3 DEF LeftoverReading, Owners
  <2>4. Reading # "lock" => \A l \in Locks : files[l] = Absent \/ \E n \in 1..used.starts : files[l] = Lock(n) /\ ~Alive(n)
    BY <1>1, <1>2, <2>3 DEF FileInv
  <2>5. Reading # "lock" => ~Broken
    BY <1>1, <2>3 DEF BrokenInv
  <2> QED
    BY <1>1, <1>3, <2>2, <2>4, <2>5
<1>4. CASE files["journal"] # Absent
  <2> DEFINE journal == files["journal"]
  <2>1. Reading = JournalReading
    BY <1>4 DEF Reading
  <2>2. /\ journal.kind # "torn"
        /\ \A l \in Locks : files[l] \in {Absent, Lock(journal.by)}
        /\ Unlocked \/ ~Alive(journal.by)
        /\ Reading \in {"resumeCanonical", "resumeRegistry"}
        /\ Reading = "resumeCanonical" => files["marker"] # Absent
    BY <2>1 DEF JournalReading
  <2>3. journal.by \in 1..used.starts /\ (files["registry"] = Absent \/ Invalid(files["registry"]))
    BY <1>1, <1>4, <2>2 DEF JournalInv
  <2>4. \A l \in Locks : files[l] = Absent \/ \E n \in 1..used.starts : files[l] = Lock(n) /\ ~Alive(n)
    BY <2>2, <2>3 DEF Unlocked
  <2>5. ~Broken
    <3>1. SUFFICES ASSUME Broken PROVE FALSE
      OBVIOUS
    <3>2. PICK l \in Locks : TRUE
      BY DEF Locks
    <3>3. files[l] = Lock(files["migrationLock"].by) /\ journal.by # files["migrationLock"].by
      BY <1>1, <3>1, <3>2 DEF BrokenInv
    <3> QED
      BY <1>2, <2>2, <3>2, <3>3
  <2>6. ASSUME NEW t \in Slots, starts[t].id = journal.by, starts[t].id # 0
        PROVE  starts[t].pc \in Past
    <3>1. Unlocked
      BY <2>2, <2>6 DEF Alive
    <3>2. files["migrationLock"] = Absent
      BY <3>1 DEF Unlocked, Locks
    <3>3. OwnLocks(starts[t]) /\ OwnJournal(starts[t]) /\ starts[t].pc \in Pcs \ {"idle"}
      BY <2>6 DEF IInv, Own, Ids, Pcs
    <3>4. Absent \notin {Lock(starts[t].id), Torn(starts[t].id)}
      BY <1>2 DEF Absent, Torn, File
    <3>5. starts[t].pc \notin {"token1", "lock2", "token2"} \union Holding
      BY <3>2, <3>3, <3>4 DEF OwnLocks
    <3>6. starts[t].pc \notin Resuming \union {"lock"}
      BY <2>6, <3>3 DEF OwnJournal
    <3> QED
      BY <3>3, <3>5, <3>6 DEF Pcs, Locking
  <2> QED
    BY <2>2, <2>3, <2>4, <2>5, <2>6
<1> QED
  BY <1>3, <1>4

LEMMA StartGood == ASSUME IInv, NEW s \in Slots, Start(s) PROVE Good(s)
<1> DEFINE r == starts[s]
           q == starts'[s]
           x == [Idle EXCEPT !.pc = Reading, !.id = used.starts + 1, !.seen = files]
<1>1. /\ r.pc = "idle" /\ r.id = 0 /\ DOMAIN r = Fields /\ Nothing /\ UNCHANGED <<Data, raced>>
      /\ used.starts \in Nat /\ used'.starts = used.starts + 1
      /\ used' \in [starts : Nat, faults : Nat, deaths : Nat]
  BY DEF Start, At, Use, IInv, Ids, Shapes, Nothing, Data
<1>2. DOMAIN files' = Names /\ DOMAIN sources' = Sources /\ r.claim = Absent
  BY <1>1 DEF IInv, Shapes, Ids, Nothing, Data, Removing
<1>3. CASE Reading \in {"invalid", "degraded", "busy"}
  <2>1. starts' = starts
    BY <1>3 DEF Start
  <2>2. Formed(s)
    BY <1>1, <1>2, <2>1 DEF Formed, Lives, Pcs, IInv, Shapes, Unclaimed, Resuming
  <2>3. Keeps(s)
    BY <1>1, <2>1 DEF Keeps, Resuming
  <2>4. OwnLocks(starts[s])' /\ OwnJournal(starts[s])'
    BY <1>1, <2>1 DEF OwnLocks, OwnJournal, Holding, Quarantining, Importing, Undoing, Quiet, Resuming
  <2>5. SeenInv(starts[s])' /\ Fresh(starts[s])' /\ OwnImport(starts[s])'
    BY <1>1, <2>1 DEF SeenInv, Fresh, OwnImport, Resuming, Locking, Quarantining, Undoing
  <2> QED
    BY <1>1, <2>2, <2>3, <2>4, <2>5, QuietGood DEF Own
<1>4. CASE Reading \notin {"invalid", "degraded", "busy"}
  <2>1. Step(s, x)
    BY <1>4 DEF Start
  <2>2. /\ DOMAIN x = Fields /\ x.pc = Reading /\ x.id = used.starts + 1 /\ x.seen = files
        /\ x.claim = Absent /\ ~x.wrote /\ ~x.upgraded /\ x.imports = {} /\ x.scrubbed = {}
    BY DEF Idle, Fields
  <2>3. Reading \in {"lock", "resumeCanonical", "resumeRegistry"}
    BY <1>4 DEF Reading, LeftoverReading, JournalReading
  <2> HIDE DEF x
  <2>4. q = x /\ DOMAIN starts' = Slots /\ \A t \in Slots \ {s} : starts'[t] = starts[t]
    BY <2>1 DEF Step, IInv, Shapes
  <2>5. Formed(s)
    BY <1>1, <1>2, <2>2, <2>3, <2>4 DEF Formed, Lives, Pcs, Unclaimed, Resuming, Locking
  <2> SUFFICES ASSUME ~raced, ~raced' PROVE Deed(s) /\ Own(s)' /\ FileInv' /\ JournalInv' /\ BrokenInv'
    BY <2>5 DEF Good
  <2>6. Deed(s)
    BY <1>1, <2>5 DEF Deed, Formed, Stored
  <2>7. FileInv' /\ JournalInv'
    BY <1>1, <2>6, DeedFiles
  <2>8. /\ q.pc \in {"lock", "resumeCanonical", "resumeRegistry"}
        /\ q.pc = "lock" => files["journal"] = Absent
        /\ q.pc = "resumeCanonical" => /\ files["marker"] # Absent
                                       /\ files["registry"] = Absent \/ Invalid(files["registry"])
        /\ q.pc # "lock" => /\ \A l \in Locks : files[l] = Absent \/ \E n \in 1..used.starts : files[l] = Lock(n) /\ ~Alive(n)
                            /\ ~Broken
        /\ \A t \in Slots : starts[t].id = files["journal"].by /\ starts[t].id # 0 => starts[t].pc \in Past
    BY <1>4, <2>2, <2>4, ReadingIs
  <2>9. files["journal"].by \in 0..used.starts
    BY DEF IInv, JournalInv, Absent, File, Shapes
  <2>10. OwnLocks(starts[s])' /\ Fresh(starts[s])' /\ OwnImport(starts[s])'
    BY <2>2, <2>4, <2>8 DEF OwnLocks, Fresh, OwnImport, Resuming, Locking, Holding, Quarantining, Importing, Undoing
  <2>11. OwnJournal(starts[s])'
    <3>1. files["journal"].by # q.id
      BY <1>1, <2>2, <2>4, <2>9
    <3> QED
      BY <1>1, <2>8, <3>1 DEF OwnJournal, Resuming, Quiet, Importing, Undoing, Nothing
  <2>12. SeenInv(starts[s])'
    <3>1. \A n \in 1..used.starts : ~Alive(n) => ~Alive(n)'
      BY <1>1, <2>2, <2>4 DEF Alive
    <3>2. \A t \in Slots : starts'[t].id = files["journal"].by /\ starts'[t].id # 0 => starts'[t].pc \in Past
      BY <1>1, <2>2, <2>4, <2>8, <2>9
    <3> QED
      BY <1>1, <2>2, <2>4, <2>8, <2>9, <3>1, <3>2 DEF SeenInv, Resuming
  <2>13. BrokenInv'
    <3>1. Broken' <=> Broken
      BY <1>1 DEF Broken, Scrubbed, Nothing, Data
    <3>2. SUFFICES ASSUME Broken PROVE BrokenInv'
      BY <3>1 DEF BrokenInv
    <3>3. files["migrationLock"].by # used.starts + 1
      BY <1>1, <3>2 DEF IInv, FileInv, BrokenInv, Locks, Lock, Torn, Absent, Blocked, File
    <3>4. q.pc = "lock" /\ q.id # files["migrationLock"].by
      BY <2>2, <2>4, <2>8, <3>2, <3>3
    <3>5. \A t \in Slots : t # s => starts'[t] = starts[t]
      BY <2>4
    <3> QED
      BY <1>1, <3>2, <3>4, <3>5 DEF IInv, BrokenInv, Nothing, Resuming
  <2> QED
    BY <2>6, <2>7, <2>10, <2>11, <2>12, <2>13 DEF Own
<1> QED
  BY <1>3, <1>4

------------------------
(* The locks. *)

LEMMA LockingOwn ==
  ASSUME IInv, ~raced, NEW s \in Slots, starts[s].pc \in Locking, starts'[s].id = starts[s].id,
         starts'[s].pc \in {"token1", "lock2", "token2", "inspect"}, starts'[s].wrote = starts[s].wrote,
         starts'[s].upgraded = starts[s].upgraded, starts'[s].imports = starts[s].imports,
         starts'[s].scrubbed = starts[s].scrubbed, OwnLocks(starts[s])', files'["journal"] = Absent
  PROVE  Own(s)' /\ Keeps(s)
<1>1. Fresh(starts[s])
  BY DEF IInv, Own
<1>2. OwnJournal(starts[s])' /\ SeenInv(starts[s])' /\ OwnImport(starts[s])'
  BY DEF OwnJournal, SeenInv, OwnImport, Resuming
<1>3. Fresh(starts[s])'
  BY <1>1 DEF Fresh, Locking, Undoing
<1>4. Keeps(s)
  BY DEF Keeps, Excused, Resuming, Locking
<1> QED
  BY <1>2, <1>3, <1>4 DEF Own

LEMMA CreateLockGood ==
  ASSUME IInv, NEW s \in Slots, NEW pc, NEW lock, NEW token, CreateLock(s, pc, lock, token),
         \/ pc = "lock" /\ lock = "migrationLock" /\ token = "token1"
         \/ pc = "lock2" /\ lock = "registryLock" /\ token = "token2"
  PROVE  Good(s)
<1> DEFINE r == starts[s]
           q == starts'[s]
<1>1. /\ r.pc = pc /\ DOMAIN r = Fields /\ r.claim = Absent /\ UNCHANGED Data /\ lock \in Locks
      /\ r.id # 0 /\ DOMAIN files = Names /\ DOMAIN sources' = Sources /\ used' = used
      /\ r.pc # "idle" /\ r.pc \notin Past
  BY DEF CreateLock, At, IInv, Ids, Shapes, Removing, Data, Locks, Past, NoFault
<1>2. \A p \in {token, "release2"} :
        LET x == [r EXCEPT !.pc = p] IN
        /\ DOMAIN x = Fields /\ x.pc = p /\ x.id = r.id /\ x.claim = Absent /\ x.wrote = r.wrote
        /\ x.upgraded = r.upgraded /\ x.imports = r.imports /\ x.scrubbed = r.scrubbed
        /\ x.pc \in Pcs \ {"idle"} /\ Unclaimed(x)
  BY <1>1 DEF Fields, Pcs, Locking, Past, Unclaimed
<1>3. CASE files[lock] = Absent
  <2> DEFINE x == [r EXCEPT !.pc = token]
  <2>1. /\ files' = [files EXCEPT ![lock] = Torn(r.id)] /\ Step(s, x) /\ NoFault
        /\ raced' = (raced \/ files["journal"].by \notin {0, r.seen["journal"].by})
    BY <1>3 DEF CreateLock, Put, Goto
  <2>2. DOMAIN x = Fields /\ x.pc = token /\ x.id = r.id /\ x.wrote = r.wrote /\ x.upgraded = r.upgraded
        /\ x.imports = r.imports /\ x.scrubbed = r.scrubbed /\ x.pc \in Pcs \ {"idle"} /\ Unclaimed(x)
        /\ x.claim = Absent
    BY <1>2
  <2> HIDE DEF x
  <2>3. DOMAIN files' = Names
    BY <1>1, <2>1
  <2>4. Formed(s) /\ q = x
    BY <1>1, <2>1, <2>2, <2>3, Forms
  <2> SUFFICES ASSUME ~raced, ~raced' PROVE Deed(s) /\ Own(s)' /\ Keeps(s)
    BY <1>1, <2>4, DeedGood DEF Holding, Quarantining, Importing, Undoing
  <2>5. files["journal"] = Absent
    <3>1. CASE pc = "lock2"
      BY <1>1, <3>1 DEF IInv, Own, OwnJournal, Quiet
    <3>2. CASE pc = "lock"
      <4>1. files["journal"] = Absent \/ files["journal"].by # r.seen["journal"].by
        BY <1>1, <3>2 DEF IInv, Own, OwnJournal
      <4>2. files["journal"].by = 0 \/ files["journal"].by = r.seen["journal"].by
        BY <2>1
      <4>3. files["journal"] # Absent => files["journal"].by # 0
        BY DEF IInv, JournalInv
      <4> QED
        BY <4>1, <4>2, <4>3
    <3> QED
      BY <3>1, <3>2
  <2>6. /\ files'["journal"] = Absent /\ files'[lock] = Torn(r.id)
        /\ lock # "migrationLock" => files'["migrationLock"] = files["migrationLock"]
    BY <1>1, <2>1, <2>5 DEF Names, Locks
  <2>7. OwnLocks(starts[s])'
    BY <1>1, <2>2, <2>4, <2>6 DEF OwnLocks, IInv, Own, Holding, Quarantining, Importing, Undoing
  <2>8. Own(s)' /\ Keeps(s)
    BY <1>1, <2>2, <2>4, <2>6, <2>7, LockingOwn DEF Locking
  <2>9. LockStep(s)
    BY <1>1, <1>3, <2>1 DEF LockStep, Torn, Lock, File
  <2> QED
    BY <1>1, <2>4, <2>8, <2>9 DEF Deed, Formed, Stored
<1>4. CASE files[lock] # Absent /\ lock = "migrationLock"
  <2>1. Nothing /\ Step(s, Idle)
    BY <1>4 DEF CreateLock, Over, Nothing
  <2>2. Formed(s) /\ Keeps(s) /\ Own(s)'
    BY <1>1, <2>1, Ends DEF IInv, Shapes, Nothing
  <2> QED
    BY <1>1, <2>1, <2>2, QuietGood
<1>5. CASE files[lock] # Absent /\ lock # "migrationLock"
  <2> DEFINE x == [r EXCEPT !.pc = "release2"]
  <2>1. Nothing /\ Step(s, x) /\ NoFault
    BY <1>1, <1>5 DEF CreateLock, Nothing, NoFault
  <2>2. DOMAIN x = Fields /\ x.pc = "release2" /\ x.id = r.id /\ x.pc \in Pcs \ {"idle"} /\ Unclaimed(x)
        /\ x.claim = Absent
    BY <1>2
  <2> HIDE DEF x
  <2>3. Formed(s) /\ q = x
    BY <1>1, <2>1, <2>2, Forms DEF Nothing, IInv, Shapes
  <2>4. Own(s)' /\ Keeps(s)
    BY <1>1, <2>2, <2>3, PastOwn DEF Past, Keeps, Resuming, Excused
  <2> QED
    BY <1>1, <2>1, <2>3, <2>4, QuietGood
<1> QED
  BY <1>3, <1>4, <1>5

LEMMA WriteTokenGood ==
  ASSUME IInv, NEW s \in Slots, NEW pc, NEW lock, WriteToken(s, pc, lock),
         \/ pc = "token1" /\ lock = "migrationLock"
         \/ pc = "token2" /\ lock = "registryLock"
  PROVE  Good(s)
<1> DEFINE r == starts[s]
           q == starts'[s]
           next == NextOf(lock)
<1>1. /\ r.pc = pc /\ DOMAIN r = Fields /\ r.claim = Absent /\ UNCHANGED Data /\ lock \in Locks
      /\ r.id # 0 /\ DOMAIN files = Names /\ DOMAIN sources' = Sources /\ r.pc # "idle" /\ r.pc \notin Past
      /\ r.pc \notin Holding
  BY DEF WriteToken, At, IInv, Ids, Shapes, Removing, Data, Locks, Past, Holding, Quarantining, Importing, Undoing
<1>2. next = IF pc = "token1" THEN "lock2" ELSE "inspect"
  BY DEF NextOf
<1>3. \A p \in {next, "release2"} :
        LET x == [r EXCEPT !.pc = p] IN
        /\ DOMAIN x = Fields /\ x.pc = p /\ x.id = r.id /\ x.claim = Absent /\ x.wrote = r.wrote
        /\ x.upgraded = r.upgraded /\ x.imports = r.imports /\ x.scrubbed = r.scrubbed
        /\ x.pc \in Pcs \ {"idle"} /\ Unclaimed(x)
  BY <1>1, <1>2 DEF Fields, Pcs, Locking, Past, Unclaimed, Holding
<1> HIDE DEF next
<1>4. ~raced => /\ files["journal"] = Absent /\ files[lock] = Torn(r.id) /\ files[lock].by = r.id
                /\ lock # "migrationLock" => files["migrationLock"] = Lock(r.id)
  <2>1. Torn(r.id).by = r.id /\ (~raced => Own(s))
    BY DEF Torn, File, IInv
  <2> QED
    BY <1>1, <2>1 DEF Own, OwnJournal, OwnLocks, Quiet
<1>5. CASE files' = [files EXCEPT ![lock] = Lock(r.id)] /\ Goto(s, next) /\ NoFault
  <2> DEFINE x == [r EXCEPT !.pc = next]
  <2>1. Step(s, x)
    BY <1>5 DEF Goto
  <2>2. DOMAIN x = Fields /\ x.pc = next /\ x.id = r.id /\ x.wrote = r.wrote /\ x.upgraded = r.upgraded
        /\ x.imports = r.imports /\ x.scrubbed = r.scrubbed /\ x.pc \in Pcs \ {"idle"} /\ Unclaimed(x)
        /\ x.claim = Absent
    BY <1>3
  <2> HIDE DEF x
  <2>3. Formed(s) /\ q = x
    BY <1>1, <1>5, <2>1, <2>2, Forms
  <2> SUFFICES ASSUME ~raced, ~raced' PROVE Deed(s) /\ Own(s)' /\ Keeps(s)
    BY <1>1, <2>3, DeedGood
  <2>4. /\ files'["journal"] = Absent /\ files'[lock] = Lock(r.id)
        /\ lock # "migrationLock" => files'["migrationLock"] = Lock(r.id)
    BY <1>1, <1>4, <1>5 DEF Names, Locks
  <2>5. OwnLocks(starts[s])'
    BY <1>1, <1>2, <2>2, <2>3, <2>4 DEF OwnLocks, Holding, Quarantining, Importing, Undoing
  <2>6. Own(s)' /\ Keeps(s)
    BY <1>1, <1>2, <2>2, <2>3, <2>4, <2>5, LockingOwn DEF Locking
  <2>7. LockStep(s)
    BY <1>1, <1>4, <1>5 DEF LockStep
  <2> QED
    BY <1>1, <2>3, <2>6, <2>7 DEF Deed, Formed, Stored
<1>6. CASE ~(files' = [files EXCEPT ![lock] = Lock(r.id)] /\ Goto(s, next) /\ NoFault)
  <2>1. /\ Fault /\ (files' = [files EXCEPT ![lock] = Absent] \/ Nothing)
        /\ IF lock = "migrationLock" THEN Step(s, Idle) ELSE Step(s, [r EXCEPT !.pc = "release2"])
    BY <1>6 DEF WriteToken, Put, Over, Nothing, next
  <2>2. DOMAIN files' = Names
    BY <1>1, <2>1 DEF Nothing
  <2>3. Formed(s) /\ Own(s)' /\ Keeps(s)
    <3>1. CASE lock = "migrationLock"
      BY <1>1, <2>1, <2>2, <3>1, Ends, Used DEF IInv
    <3>2. CASE lock # "migrationLock"
      <4> DEFINE x == [r EXCEPT !.pc = "release2"]
      <4>1. DOMAIN x = Fields /\ x.pc = "release2" /\ x.id = r.id /\ x.pc \in Pcs \ {"idle"} /\ Unclaimed(x)
            /\ x.claim = Absent
        BY <1>3
      <4>2. Step(s, x)
        BY <2>1, <3>2
      <4> HIDE DEF x
      <4>3. Formed(s) /\ q = x
        BY <1>1, <2>1, <2>2, <4>1, <4>2, Forms
      <4> QED
        BY <1>1, <4>1, <4>3, PastOwn DEF Past, Keeps, Resuming, Excused
    <3> QED
      BY <3>1, <3>2
  <2>4. ~raced => Nothing \/ LockStep(s)
    BY <1>1, <1>4, <2>1 DEF LockStep, Lock, Absent, File
  <2> QED
    BY <1>1, <2>3, <2>4, DeedGood DEF Deed, Formed, Stored
<1> QED
  BY <1>5, <1>6

------------------------
(* A start that holds both locks. *)

LEMMA HolderGood ==
  ASSUME IInv, NEW s \in Slots, Formed(s), starts[s].pc \in Holding,
         ~raced /\ ~raced' => HolderStep(s) /\ Own(s)' /\ FileInv' /\ JournalInv' /\ BrokenInv'
  PROVE  Good(s)
BY DEF Good, Deed, Formed, Stored

LEMMA HoldsOn ==
  ASSUME IInv, ~raced, NEW s \in Slots, starts[s].pc \in Holding, starts'[s].pc \in Holding,
         starts'[s].id = starts[s].id, \A l \in Locks : files'[l] = files[l]
  PROVE  OwnLocks(starts[s])'
BY DEF IInv, Own, OwnLocks, Locks, Holding, Quarantining, Importing, Undoing

LEMMA WholeStays == ASSUME ~Broken' PROVE BrokenInv'
BY DEF BrokenInv

\* A holder that writes neither the registry nor what is imported.
LEMMA HolderRegistry ==
  ASSUME IInv, ~raced, NEW s \in Slots, Formed(s), starts[s].pc \in Holding, ~Excused(starts[s]),
         files'["registry"] = files["registry"], \A l \in Locks : files'[l] = files[l],
         UNCHANGED Data
  PROVE  FileInv' /\ BrokenInv'
<1>1. ~Broken /\ FileInv /\ used.starts \in Nat /\ used'.starts \in {used.starts, used.starts + 1}
  BY HolderWhole DEF IInv, Shapes, Formed, Lives
<1>2. ~Broken'
  BY <1>1 DEF Broken, Scrubbed, Data
<1>3. FileInv'
  BY <1>1 DEF FileInv
<1> QED
  BY <1>2, <1>3, WholeStays

\* A holder that takes no part in the quarantine leaves no journal.
LEMMA NoJournal == ASSUME files'["journal"] = Absent PROVE JournalInv'
BY DEF JournalInv

LEMMA JournalStays ==
  ASSUME IInv, ~raced, NEW s \in Slots, Formed(s), \A n \in Names : files'[n] = files[n]
  PROVE  JournalInv'
<1>1. JournalInv /\ used.starts \in Nat /\ used'.starts \in {used.starts, used.starts + 1}
  BY DEF IInv, Shapes, Formed, Lives
<1>2. /\ files'["journal"] = files["journal"] /\ files'["registry"] = files["registry"]
      /\ files'["marker"] = files["marker"] /\ \A l \in Locks : files'[l] = files[l]
  BY DEF Names, Locks
<1> QED
  BY <1>1, <1>2 DEF JournalInv

LEMMA QuarantineOwn ==
  ASSUME IInv, ~raced, NEW s \in Slots, starts[s].pc \in Quarantining, starts'[s].id = starts[s].id,
         starts'[s].pc \in Quarantining \union {"rollback"}, starts'[s].wrote = starts[s].wrote,
         starts'[s].upgraded = starts[s].upgraded, starts'[s].imports = starts[s].imports,
         starts'[s].scrubbed = starts[s].scrubbed, starts'[s].pc = "rollback" => starts'[s].failed,
         \A l \in Locks : files'[l] = files[l], OwnJournal(starts[s])'
  PROVE  Own(s)'
<1>1. Fresh(starts[s])
  BY DEF IInv, Own
<1>2. /\ ~starts'[s].wrote /\ ~starts'[s].upgraded /\ starts'[s].imports = {}
      /\ starts'[s].scrubbed = {}
  BY <1>1 DEF Fresh
<1>3. OwnLocks(starts[s])'
  BY HoldsOn DEF Holding, Undoing
<1>4. SeenInv(starts[s])'
  BY DEF SeenInv, Resuming, Quarantining
<1>5. Fresh(starts[s])'
  BY <1>2 DEF Fresh, Quarantining, Undoing
<1>6. OwnImport(starts[s])'
  BY <1>2 DEF OwnImport, Apart, Quarantining
<1> QED
  BY <1>3, <1>4, <1>5, <1>6 DEF Own

LEMMA CreateJournalGood == ASSUME IInv, NEW s \in Slots, CreateJournal(s) PROVE Good(s)
<1> DEFINE r == starts[s]
           q == starts'[s]
           x == [r EXCEPT !.pc = "journalText"]
           y == [r EXCEPT !.pc = "rollback", !.failed = TRUE]
<1>1. /\ r.pc = "journal" /\ r.claim = Absent /\ DOMAIN r = Fields /\ UNCHANGED <<Data, raced>>
      /\ r.pc \in Quarantining /\ r.pc \in Holding /\ r.pc \notin Past /\ r.id \in 1..used.starts
      /\ DOMAIN files = Names /\ DOMAIN sources' = Sources /\ NoFault /\ used.starts \in Nat
  BY DEF CreateJournal, At, IInv, Ids, Shapes, Removing, Data, Quarantining, Holding, Past, NoFault
<1>2. /\ DOMAIN x = Fields /\ x.pc = "journalText" /\ x.id = r.id /\ x.claim = Absent /\ x.seen = r.seen
      /\ x.wrote = r.wrote /\ x.upgraded = r.upgraded /\ x.imports = r.imports
      /\ x.scrubbed = r.scrubbed /\ x.pc \in Pcs \ {"idle"} /\ Unclaimed(x)
  BY <1>1 DEF Fields, Pcs, Holding, Quarantining, Unclaimed
<1>3. DOMAIN y = Fields /\ y.pc \in Pcs \ {"idle"} /\ y.id = r.id /\ y.claim = Absent /\ Unclaimed(y)
  BY <1>1 DEF Fields, Pcs, Holding, Undoing, Unclaimed
<1> HIDE DEF x, y
<1>4. CASE files["journal"] # Absent
  <2>1. Nothing /\ Step(s, y)
    BY <1>4 DEF CreateJournal, Fails, Nothing, y
  <2>2. Formed(s)
    BY <1>1, <1>3, <2>1, Forms DEF Nothing
  <2>3. raced
    BY <1>1, <1>4 DEF IInv, Own, OwnJournal, Quiet
  <2> QED
    BY <2>2, <2>3 DEF Good
<1>5. CASE files["journal"] = Absent
  <2>1. files' = [files EXCEPT !["journal"] = Torn(r.id)] /\ Step(s, x)
    BY <1>5 DEF CreateJournal, Put, Goto, x
  <2>2. /\ files'["journal"] = Torn(r.id) /\ DOMAIN files' = Names
        /\ \A n \in Names \ {"journal"} : files'[n] = files[n]
    BY <1>1, <2>1 DEF Names
  <2>3. \A l \in Locks : l \in Names /\ files'[l] = files[l]
    BY <2>2 DEF Names, Locks
  <2>4. Formed(s) /\ q = x
    BY <1>1, <1>2, <2>1, <2>2, Forms
  <2> SUFFICES ASSUME ~raced, ~raced'
               PROVE  HolderStep(s) /\ Own(s)' /\ FileInv' /\ JournalInv' /\ BrokenInv'
    BY <1>1, <2>4, HolderGood
  <2>5. OwnJournal(r) /\ OwnLocks(r)
    BY DEF IInv, Own
  <2>6. OwnJournal(starts[s])'
    BY <1>1, <1>2, <2>2, <2>4, <2>5 DEF OwnJournal, Names, Quiet, Importing, Undoing, Resuming
  <2>7. Own(s)'
    BY <1>1, <1>2, <2>3, <2>4, <2>6, QuarantineOwn DEF Quarantining
  <2>8. FileInv' /\ BrokenInv'
    BY <1>1, <2>2, <2>4, HolderRegistry DEF Names, Locks, Excused
  <2>9. JournalInv'
    <3>1. Torn(r.id).by = r.id /\ Torn(r.id).kind = "torn"
      BY DEF Torn, File
    <3>2. \A l \in Locks : files'[l] = Lock(r.id)
      BY <1>1, <2>3, <2>5 DEF OwnLocks, Locks
    <3>3. used'.starts = used.starts
      BY <1>1 DEF NoFault
    <3> QED
      BY <1>1, <2>2, <3>1, <3>2, <3>3 DEF JournalInv
  <2>10. HolderStep(s)
    BY <1>1, <2>2, <2>3 DEF HolderStep, Torn, File, Names
  <2> QED
    BY <2>7, <2>8, <2>9, <2>10
<1> QED
  BY <1>4, <1>5

LEMMA WriteJournalGood == ASSUME IInv, NEW s \in Slots, WriteJournal(s) PROVE Good(s)
<1> DEFINE r == starts[s]
           q == starts'[s]
           x == [r EXCEPT !.pc = "link"]
           y == [r EXCEPT !.pc = "rollback", !.failed = TRUE]
           journal == Journal(s, "prepared")
<1>1. /\ r.pc = "journalText" /\ r.claim = Absent /\ DOMAIN r = Fields /\ UNCHANGED <<Data, raced>>
      /\ r.pc \in Quarantining /\ r.pc \in Holding /\ r.pc \notin Past /\ r.id \in 1..used.starts
      /\ DOMAIN files = Names /\ DOMAIN sources' = Sources /\ used.starts \in Nat
  BY DEF WriteJournal, At, IInv, Ids, Shapes, Removing, Data, Quarantining, Holding, Past
<1>2. /\ DOMAIN x = Fields /\ x.pc = "link" /\ x.id = r.id /\ x.claim = Absent /\ x.seen = r.seen
      /\ x.wrote = r.wrote /\ x.upgraded = r.upgraded /\ x.imports = r.imports
      /\ x.scrubbed = r.scrubbed /\ x.pc \in Pcs \ {"idle"} /\ Unclaimed(x)
  BY <1>1 DEF Fields, Pcs, Holding, Quarantining, Unclaimed
<1>3. /\ DOMAIN y = Fields /\ y.pc = "rollback" /\ y.id = r.id /\ y.claim = Absent /\ y.seen = r.seen
      /\ y.wrote = r.wrote /\ y.upgraded = r.upgraded /\ y.imports = r.imports /\ y.failed
      /\ y.scrubbed = r.scrubbed /\ y.pc \in Pcs \ {"idle"} /\ Unclaimed(y)
  BY <1>1 DEF Fields, Pcs, Holding, Undoing, Unclaimed
<1> HIDE DEF x, y, journal
<1>4. PICK z \in {x, y} :
        /\ files' = [files EXCEPT !["journal"] = IF z = x THEN journal ELSE Absent]
        /\ Step(s, z) /\ (Fault \/ NoFault)
  <2>1. x # y
    BY <1>2, <1>3
  <2> QED
    BY <2>1 DEF WriteJournal, Put, Goto, Fails, x, y, journal
<1>5. /\ files'["journal"] = IF z = x THEN journal ELSE Absent
      /\ DOMAIN files' = Names /\ \A n \in Names \ {"journal"} : files'[n] = files[n]
  BY <1>1, <1>4 DEF Names
<1>6. \A l \in Locks : l \in Names /\ files'[l] = files[l]
  BY <1>5 DEF Names, Locks
<1>7. Formed(s) /\ q = z
  BY <1>1, <1>2, <1>3, <1>4, <1>5, Forms
<1> SUFFICES ASSUME ~raced, ~raced'
             PROVE  HolderStep(s) /\ Own(s)' /\ FileInv' /\ JournalInv' /\ BrokenInv'
  BY <1>1, <1>7, HolderGood
<1>8. OwnJournal(r) /\ OwnLocks(r)
  BY DEF IInv, Own
<1>9. journal = File(r.id, "prepared", {r.seen["registry"]}) /\ journal.by = r.id /\ journal.kind = "prepared"
      /\ journal.of = {r.seen["registry"]}
  BY DEF journal, Journal, File
<1>10. OwnJournal(starts[s])'
  BY <1>1, <1>2, <1>3, <1>5, <1>7, <1>8, <1>9 DEF OwnJournal, Names, Quiet, Importing, Undoing, Resuming
<1>11. Own(s)'
  BY <1>1, <1>2, <1>3, <1>6, <1>7, <1>10, QuarantineOwn DEF Quarantining
<1>12. FileInv' /\ BrokenInv'
  BY <1>1, <1>5, <1>7, HolderRegistry DEF Names, Locks, Excused
<1>13. JournalInv'
  <2>1. CASE z = x
    <3>1. \A l \in Locks : files'[l] = Lock(r.id)
      BY <1>1, <1>6, <1>8 DEF OwnLocks, Locks
    <3>2. used'.starts = used.starts
      BY <1>4, Used DEF IInv
    <3>3. /\ files'["registry"] = r.seen["registry"] /\ Invalid(files'["registry"])
          /\ files'["marker"] = Absent
      BY <1>1, <1>5, <1>8 DEF OwnJournal, Names
    <3> QED
      BY <1>1, <1>5, <1>9, <2>1, <3>1, <3>2, <3>3 DEF JournalInv, Invalid
  <2>2. CASE z # x
    BY <1>5, <2>2, NoJournal
  <2> QED
    BY <2>1, <2>2
<1>14. HolderStep(s)
  BY <1>1, <1>5, <1>6, <1>9 DEF HolderStep, Names
<1> QED
  BY <1>11, <1>12, <1>13, <1>14

LEMMA LinkGood == ASSUME IInv, NEW s \in Slots, Link(s) PROVE Good(s)
<1> DEFINE r == starts[s]
           q == starts'[s]
           x == [r EXCEPT !.pc = "markLinked"]
           y == [r EXCEPT !.pc = "unprepare"]
<1>1. /\ r.pc = "link" /\ r.claim = Absent /\ DOMAIN r = Fields /\ UNCHANGED <<Data, raced>>
      /\ r.pc \in Quarantining /\ r.pc \in Holding /\ r.pc \notin Past /\ r.id # 0
      /\ DOMAIN files = Names /\ DOMAIN sources' = Sources
  BY DEF Link, At, IInv, Ids, Shapes, Removing, Data, Quarantining, Holding, Past
<1>2. /\ DOMAIN x = Fields /\ x.pc = "markLinked" /\ x.id = r.id /\ x.claim = Absent /\ x.seen = r.seen
      /\ x.wrote = r.wrote /\ x.upgraded = r.upgraded /\ x.imports = r.imports
      /\ x.scrubbed = r.scrubbed /\ x.pc \in Pcs \ {"idle"} /\ Unclaimed(x)
  BY <1>1 DEF Fields, Pcs, Holding, Quarantining, Unclaimed
<1>3. /\ DOMAIN y = Fields /\ y.pc = "unprepare" /\ y.id = r.id /\ y.claim = Absent /\ y.seen = r.seen
      /\ y.wrote = r.wrote /\ y.upgraded = r.upgraded /\ y.imports = r.imports
      /\ y.scrubbed = r.scrubbed /\ y.pc \in Pcs \ {"idle"} /\ Unclaimed(y)
  BY <1>1 DEF Fields, Pcs, Holding, Quarantining, Unclaimed
<1> HIDE DEF x, y
<1>4. PICK z \in {x, y} :
        /\ IF z = x THEN files' = [files EXCEPT !["marker"] = files["registry"]] ELSE files' = files
        /\ Step(s, z) /\ (Fault \/ NoFault)
  <2>1. x # y
    BY <1>2, <1>3
  <2> QED
    BY <2>1 DEF Link, Put, Goto, x, y
<1>5. /\ files'["marker"] = IF z = x THEN files["registry"] ELSE files["marker"]
      /\ DOMAIN files' = Names /\ \A n \in Names \ {"marker"} : files'[n] = files[n]
  BY <1>1, <1>4 DEF Names
<1>6. \A l \in Locks : l \in Names /\ files'[l] = files[l]
  BY <1>5 DEF Names, Locks
<1>7. Formed(s) /\ q = z
  BY <1>1, <1>2, <1>3, <1>4, <1>5, Forms
<1> SUFFICES ASSUME ~raced, ~raced'
             PROVE  HolderStep(s) /\ Own(s)' /\ FileInv' /\ JournalInv' /\ BrokenInv'
  BY <1>1, <1>7, HolderGood
<1>8. OwnJournal(r)
  BY DEF IInv, Own
<1>9. /\ files["marker"] = Absent /\ Invalid(files["registry"]) /\ files["registry"] # Absent
      /\ files["journal"] = File(r.id, "prepared", {r.seen["registry"]})
  BY <1>1, <1>8 DEF OwnJournal, Invalid, Absent, File
<1>10. OwnJournal(starts[s])'
  BY <1>1, <1>2, <1>3, <1>5, <1>7, <1>9 DEF OwnJournal, Names, Quiet, Importing, Undoing, Resuming
<1>11. Own(s)'
  BY <1>1, <1>2, <1>3, <1>6, <1>7, <1>10, QuarantineOwn DEF Quarantining
<1>12. FileInv' /\ BrokenInv'
  BY <1>1, <1>5, <1>7, HolderRegistry DEF Names, Locks, Excused
<1>13. JournalInv'
  <2>1. JournalInv /\ used'.starts = used.starts
    BY <1>4, Used DEF IInv
  <2>2. ~Invalid(Absent)
    BY DEF Invalid, Absent, File
  <2> QED
    BY <1>5, <1>9, <2>1, <2>2 DEF JournalInv, Names, Locks
<1>14. HolderStep(s)
  BY <1>1, <1>5, <1>6, <1>9 DEF HolderStep, Names
<1> QED
  BY <1>11, <1>12, <1>13, <1>14

LEMMA UnprepareGood == ASSUME IInv, NEW s \in Slots, Unprepare(s) PROVE Good(s)
<1> DEFINE r == starts[s]
           q == starts'[s]
           ok == [r EXCEPT !.pc = "rollback", !.failed = TRUE]
           bad == [r EXCEPT !.pc = "stuck"]
           expected == Journal(s, "prepared")
<1>1. /\ r.pc = "unprepare" /\ DOMAIN r = Fields /\ r.pc \in Removing
      /\ r.pc \in Quarantining /\ r.pc \in Holding /\ r.pc \notin Past /\ r.pc \notin Resuming
      /\ DOMAIN files = Names
  BY DEF Unprepare, At, IInv, Ids, Shapes, Removing, Quarantining, Holding, Past, Resuming
<1>2. /\ DOMAIN ok = Fields /\ ok.pc = "rollback" /\ ok.id = r.id /\ ok.seen = r.seen
      /\ ok.wrote = r.wrote /\ ok.upgraded = r.upgraded /\ ok.imports = r.imports /\ ok.failed
      /\ ok.scrubbed = r.scrubbed /\ ok.pc \in Pcs \ {"idle"}
  BY <1>1 DEF Fields, Pcs, Holding, Undoing
<1>3. /\ DOMAIN bad = Fields /\ bad.pc = "stuck" /\ bad.id = r.id /\ bad.claim = r.claim
      /\ bad.pc \in Pcs \ {"idle"} /\ bad.pc \notin Resuming /\ bad.pc \in Past
  BY <1>1 DEF Fields, Pcs, Past, Resuming
<1>4. Remove(s, "journal", expected, ok, bad) /\ expected # Absent /\ "journal" \in Names
  BY DEF Unprepare, expected, Journal, Absent, File, Names
<1> HIDE DEF ok, bad, expected
<1>5. Formed(s) /\ UNCHANGED Data
  BY <1>1, <1>2, <1>3, <1>4, RemoveForms
<1> SUFFICES ASSUME ~raced, ~raced'
             PROVE  HolderStep(s) /\ Own(s)' /\ FileInv' /\ JournalInv' /\ BrokenInv'
  BY <1>1, <1>5, HolderGood
<1>6. \/ /\ r.claim = Absent /\ files["journal"] = expected /\ expected # Absent
         /\ files' = [files EXCEPT !["journal"] = Absent] /\ q = [r EXCEPT !.claim = expected]
      \/ r.claim = Absent /\ files' = files /\ q = bad
      \/ r.claim # Absent /\ files' = files /\ q = [ok EXCEPT !.claim = Absent]
  BY <1>1, <1>4, RemoveIs DEF Locks
<1>7. /\ DOMAIN files' = Names /\ \A n \in Names \ {"journal"} : files'[n] = files[n]
      /\ files'["journal"] \in {files["journal"], Absent}
  BY <1>1, <1>6 DEF Names
<1>8. \A l \in Locks : l \in Names /\ files'[l] = files[l]
  BY <1>7 DEF Names, Locks
<1>9. OwnJournal(r) /\ JournalInv
  BY DEF IInv, Own
<1>10. Own(s)'
  <2>1. CASE r.claim = Absent /\ q = bad
    BY <1>3, <2>1, PastOwn
  <2>2. CASE /\ r.claim = Absent /\ files' = [files EXCEPT !["journal"] = Absent]
             /\ q = [r EXCEPT !.claim = expected]
    <3>1. /\ q.pc = r.pc /\ q.id = r.id /\ q.seen = r.seen /\ q.wrote = r.wrote /\ q.claim = expected
          /\ q.upgraded = r.upgraded /\ q.imports = r.imports /\ q.scrubbed = r.scrubbed
      BY <1>1, <2>2 DEF Fields
    <3>2. files'["journal"] = Absent
      BY <1>1, <2>2 DEF Names
    <3>3. OwnJournal(starts[s])'
      BY <1>1, <1>4, <1>7, <1>9, <3>1, <3>2 DEF OwnJournal, Names, Quiet, Importing, Undoing, Resuming
    <3> QED
      BY <1>1, <1>8, <3>1, <3>3, QuarantineOwn DEF Quarantining
  <2>3. CASE r.claim # Absent /\ files' = files /\ q = [ok EXCEPT !.claim = Absent]
    <3>1. /\ q.pc = "rollback" /\ q.id = r.id /\ q.seen = r.seen /\ q.wrote = r.wrote /\ q.failed
          /\ q.upgraded = r.upgraded /\ q.imports = r.imports /\ q.scrubbed = r.scrubbed
      BY <1>2, <2>3 DEF Fields
    <3>2. OwnJournal(starts[s])'
      BY <1>1, <1>9, <2>3, <3>1 DEF OwnJournal, Names, Quiet, Importing, Undoing, Resuming
    <3> QED
      BY <1>1, <1>8, <3>1, <3>2, QuarantineOwn DEF Quarantining
  <2> QED
    BY <1>6, <2>1, <2>2, <2>3
<1>11. FileInv' /\ BrokenInv'
  BY <1>1, <1>5, <1>7, <1>8, HolderRegistry DEF Names, Excused
<1>12. JournalInv'
  <2>1. CASE files' = files
    BY <1>5, <2>1, JournalStays
  <2>2. CASE files'["journal"] = Absent
    BY <2>2, NoJournal
  <2> QED
    BY <1>1, <1>6, <2>1, <2>2 DEF Names
<1>13. HolderStep(s)
  BY <1>1, <1>7, <1>8 DEF HolderStep, Names
<1> QED
  BY <1>10, <1>11, <1>12, <1>13

\* The journal of a start that has linked the marker.
LEMMA Linked ==
  ASSUME IInv, ~raced, NEW s \in Slots, starts[s].pc \in {"markLinked", "release", "markReleased"}
  PROVE  LET f == starts[s].seen["registry"] IN
         /\ files["journal"].by = starts[s].id /\ files["journal"].of = {f} /\ Invalid(f)
         /\ files["marker"] = f /\ f # Absent /\ files["registry"] \in {Absent, f}
         /\ \A l \in Locks : files[l] = Lock(starts[s].id)
         /\ starts[s].id \in 1..used.starts
<1>1. OwnJournal(starts[s]) /\ OwnLocks(starts[s]) /\ JournalInv
  BY DEF IInv, Own
<1>2. \E phase \in {"prepared", "linked"} :
        files["journal"] = File(starts[s].id, phase, {starts[s].seen["registry"]})
  BY <1>1 DEF OwnJournal
<1>3. /\ files["journal"].by = starts[s].id /\ files["journal"].of = {starts[s].seen["registry"]}
      /\ files["journal"] # Absent /\ files["journal"].kind # "torn"
  BY <1>2 DEF File, Absent
<1>4. files["marker"] # Absent
  BY <1>1 DEF OwnJournal
<1>5. \A l \in Locks : files[l] = Lock(starts[s].id)
  BY <1>1 DEF OwnLocks, Holding, Quarantining, Locks
<1>6. ~Invalid(Absent)
  BY DEF Invalid, Absent, File
<1> QED
  BY <1>1, <1>3, <1>4, <1>5, <1>6 DEF JournalInv

LEMMA MarkGood ==
  ASSUME IInv, NEW s \in Slots, NEW pc, NEW phase, NEW next, Mark(s, pc, phase, next),
         \/ pc = "markLinked" /\ phase = "linked" /\ next.pc = "release"
         \/ pc = "markReleased" /\ phase = "released" /\ next.pc = "activity",
         DOMAIN next = Fields, next.id = starts[s].id, next.claim = starts[s].claim,
         next.seen = starts[s].seen, next.wrote = starts[s].wrote,
         next.upgraded = starts[s].upgraded, next.imports = starts[s].imports,
         next.scrubbed = starts[s].scrubbed
  PROVE  Good(s)
<1> DEFINE r == starts[s]
           q == starts'[s]
           bad == [r EXCEPT !.pc = "stuck"]
           journal == Journal(s, phase)
<1>1. /\ r.pc = pc /\ r.claim = Absent /\ DOMAIN r = Fields /\ UNCHANGED <<Data, raced>>
      /\ r.pc \in Quarantining /\ r.pc \in Holding /\ r.pc \notin Past /\ r.pc # "idle"
      /\ DOMAIN files = Names /\ DOMAIN sources' = Sources
  BY DEF Mark, At, IInv, Ids, Shapes, Removing, Data, Quarantining, Holding, Past
<1>2. next.pc \in Pcs \ {"idle"} /\ Unclaimed(next)
  BY DEF Pcs, Holding, Quarantining, Unclaimed, Resuming
<1>3. /\ DOMAIN bad = Fields /\ bad.pc = "stuck" /\ bad.id = r.id /\ bad.claim = Absent
      /\ bad.pc \in Pcs \ {"idle"} /\ bad.pc \in Past /\ Unclaimed(bad)
  BY <1>1 DEF Fields, Pcs, Past, Unclaimed
<1> HIDE DEF bad, journal
<1>4. PICK z \in {next, bad} :
        /\ Step(s, z) /\ (Fault \/ NoFault)
        /\ \/ files' = files /\ z = bad
           \/ files' = [files EXCEPT !["journal"] = journal] /\ files["journal"].by = r.id
  BY DEF Mark, ReplaceFile, Put, Goto, bad, journal
<1>5. /\ DOMAIN files' = Names /\ \A n \in Names \ {"journal"} : files'[n] = files[n]
      /\ \/ files' = files /\ z = bad
         \/ files'["journal"] = journal
  BY <1>1, <1>4 DEF Names
<1>6. \A l \in Locks : l \in Names /\ files'[l] = files[l]
  BY <1>5 DEF Names, Locks
<1>7. Formed(s) /\ q = z
  BY <1>1, <1>2, <1>3, <1>4, <1>5, Forms
<1> SUFFICES ASSUME ~raced, ~raced'
             PROVE  HolderStep(s) /\ Own(s)' /\ FileInv' /\ JournalInv' /\ BrokenInv'
  BY <1>1, <1>7, HolderGood
<1>8. journal = File(r.id, phase, {r.seen["registry"]}) /\ journal.by = r.id /\ journal.kind = phase
      /\ journal.of = {r.seen["registry"]} /\ journal # Absent
  BY DEF journal, Journal, File, Absent
<1>9. LET f == r.seen["registry"] IN
      /\ Invalid(f) /\ files["marker"] = f /\ f # Absent /\ files["registry"] \in {Absent, f}
      /\ \A l \in Locks : files[l] = Lock(r.id)
      /\ r.id \in 1..used.starts
  BY <1>1, Linked
<1>10. Own(s)'
  <2>1. CASE z = bad
    BY <1>3, <1>7, <2>1, PastOwn
  <2>2. CASE z = next /\ pc = "markLinked" /\ z # bad
    <3>1. OwnJournal(starts[s])'
      BY <1>1, <1>5, <1>7, <1>8, <1>9, <2>2 DEF OwnJournal, Names, Quiet, Importing, Undoing, Resuming
    <3> QED
      BY <1>1, <1>6, <1>7, <2>2, <3>1, QuarantineOwn DEF Quarantining
  <2>3. CASE z = next /\ pc = "markReleased" /\ z # bad
    <3>1. (starts[s].pc)' = "activity"
      BY <1>7, <2>3
    <3>2. OwnLocks(starts[s])'
      BY <1>1, <1>6, <1>7, <2>3, HoldsOn DEF Holding
    <3>3. OwnJournal(starts[s])' /\ SeenInv(starts[s])' /\ Fresh(starts[s])' /\ OwnImport(starts[s])'
      BY <3>1 DEF OwnJournal, SeenInv, Fresh, OwnImport, Quiet, Importing, Undoing, Resuming, Locking, Quarantining
    <3> QED
      BY <3>2, <3>3 DEF Own
  <2> QED
    BY <1>4, <2>1, <2>2, <2>3
<1>11. FileInv' /\ BrokenInv'
  BY <1>1, <1>5, <1>6, <1>7, HolderRegistry DEF Names, Locks, Excused
<1>12. JournalInv'
  <2>1. CASE files' = files
    BY <1>7, <2>1, JournalStays
  <2>2. CASE files'["journal"] = journal
    <3>1. used'.starts = used.starts
      BY <1>4, Used DEF IInv
    <3>2. files'["registry"] = files["registry"] /\ files'["marker"] = files["marker"]
      BY <1>5 DEF Names
    <3> QED
      BY <1>6, <1>8, <1>9, <2>2, <3>1, <3>2 DEF JournalInv
  <2> QED
    BY <1>5, <2>1, <2>2
<1>13. HolderStep(s)
  BY <1>1, <1>5, <1>6, <1>8 DEF HolderStep, Names
<1> QED
  BY <1>10, <1>11, <1>12, <1>13

LEMMA MarksGood == ASSUME IInv, NEW s \in Slots, MarkLinked(s) \/ MarkReleased(s) PROVE Good(s)
<1> DEFINE r == starts[s]
           x == [r EXCEPT !.pc = "release"]
           y == [r EXCEPT !.pc = "activity", !.keep = TRUE]
<1>1. DOMAIN r = Fields
  BY DEF IInv, Shapes
<1>2. /\ DOMAIN x = Fields /\ x.pc = "release" /\ x.id = r.id /\ x.claim = r.claim /\ x.seen = r.seen
      /\ x.wrote = r.wrote /\ x.upgraded = r.upgraded /\ x.imports = r.imports /\ x.scrubbed = r.scrubbed
  BY <1>1 DEF Fields
<1>3. /\ DOMAIN y = Fields /\ y.pc = "activity" /\ y.id = r.id /\ y.claim = r.claim /\ y.seen = r.seen
      /\ y.wrote = r.wrote /\ y.upgraded = r.upgraded /\ y.imports = r.imports /\ y.scrubbed = r.scrubbed
  BY <1>1 DEF Fields
<1>4. Mark(s, "markLinked", "linked", x) \/ Mark(s, "markReleased", "released", y)
  BY DEF MarkLinked, MarkReleased
<1> HIDE DEF x, y
<1> QED
  BY <1>2, <1>3, <1>4, MarkGood

LEMMA ReleaseCanonicalGood == ASSUME IInv, NEW s \in Slots, ReleaseCanonical(s) PROVE Good(s)
<1> DEFINE r == starts[s]
           q == starts'[s]
           ok == [r EXCEPT !.pc = "markReleased"]
           bad == [r EXCEPT !.pc = "stuck"]
           f == r.seen["registry"]
<1>1. /\ r.pc = "release" /\ DOMAIN r = Fields /\ r.pc \in Removing
      /\ r.pc \in Quarantining /\ r.pc \in Holding /\ r.pc \notin Past /\ r.pc \notin Resuming
      /\ DOMAIN files = Names
  BY DEF ReleaseCanonical, At, IInv, Ids, Shapes, Removing, Quarantining, Holding, Past, Resuming
<1>2. /\ DOMAIN ok = Fields /\ ok.pc = "markReleased" /\ ok.id = r.id /\ ok.seen = r.seen
      /\ ok.wrote = r.wrote /\ ok.upgraded = r.upgraded /\ ok.imports = r.imports
      /\ ok.scrubbed = r.scrubbed /\ ok.pc \in Pcs \ {"idle"}
  BY <1>1 DEF Fields, Pcs, Holding, Quarantining
<1>3. /\ DOMAIN bad = Fields /\ bad.pc = "stuck" /\ bad.id = r.id /\ bad.claim = r.claim
      /\ bad.pc \in Pcs \ {"idle"} /\ bad.pc \notin Resuming /\ bad.pc \in Past
  BY <1>1 DEF Fields, Pcs, Past, Resuming
<1>4. Remove(s, "registry", f, ok, bad) /\ "registry" \in Names /\ "registry" \notin Locks
  BY DEF ReleaseCanonical, Names, Locks
<1> HIDE DEF ok, bad
<1>5. Formed(s) /\ UNCHANGED Data
  BY <1>1, <1>2, <1>3, <1>4, RemoveForms
<1> SUFFICES ASSUME ~raced, ~raced'
             PROVE  HolderStep(s) /\ Own(s)' /\ FileInv' /\ JournalInv' /\ BrokenInv'
  BY <1>1, <1>5, HolderGood
<1>6. \/ /\ r.claim = Absent /\ files["registry"] = f
         /\ files' = [files EXCEPT !["registry"] = Absent] /\ q = [r EXCEPT !.claim = f]
      \/ r.claim = Absent /\ files' = files /\ q = bad
      \/ r.claim # Absent /\ files' = files /\ q = [ok EXCEPT !.claim = Absent]
  <2> HIDE DEF f
  <2> QED
    BY <1>4, RemoveIs
<1>7. /\ DOMAIN files' = Names /\ \A n \in Names \ {"registry"} : files'[n] = files[n]
      /\ files'["registry"] \in {files["registry"], Absent}
  BY <1>1, <1>6 DEF Names
<1>8. \A l \in Locks : l \in Names /\ files'[l] = files[l]
  BY <1>7 DEF Names, Locks
<1>9. /\ files["journal"].by = r.id /\ files["journal"].of = {f} /\ Invalid(f)
      /\ files["marker"] = f /\ f # Absent /\ files["registry"] \in {Absent, f}
      /\ \A l \in Locks : files[l] = Lock(r.id)
      /\ r.id \in 1..used.starts
  BY <1>1, Linked
<1>10. Own(s)'
  <2>1. CASE q = bad
    BY <1>3, <2>1, PastOwn
  <2>2. CASE q \in {[r EXCEPT !.claim = f], [ok EXCEPT !.claim = Absent]}
    <3>1. /\ q.pc \in {"release", "markReleased"} /\ q.id = r.id /\ q.seen = r.seen /\ q.wrote = r.wrote
          /\ q.upgraded = r.upgraded /\ q.imports = r.imports /\ q.scrubbed = r.scrubbed
      BY <1>1, <1>2, <2>2 DEF Fields
    <3>2. OwnJournal(r) /\ files'["journal"] = files["journal"] /\ files'["marker"] = files["marker"]
      BY <1>7 DEF IInv, Own, Names
    <3>3. OwnJournal(starts[s])'
      BY <1>1, <1>9, <3>1, <3>2 DEF OwnJournal, Quiet, Importing, Undoing, Resuming
    <3> QED
      BY <1>1, <1>8, <3>1, <3>3, QuarantineOwn DEF Quarantining
  <2> QED
    BY <1>6, <2>1, <2>2
<1>11. FileInv' /\ BrokenInv' /\ JournalInv'
  <2>1. CASE files' = files
    BY <1>1, <1>5, <1>8, <2>1, HolderRegistry, JournalStays DEF Excused
  <2>2. CASE files'["registry"] = Absent /\ files["registry"] = f
    <3>1. FileInv /\ JournalInv /\ used.starts \in Nat /\ used'.starts \in {used.starts, used.starts + 1}
      BY <1>5 DEF IInv, Shapes, Formed, Lives
    <3>2. Absent.of = {} /\ Absent.kind = "absent"
      BY DEF Absent, File
    <3>3. FileInv'
      BY <1>8, <2>2, <3>1, <3>2 DEF FileInv
    <3>4. ~Broken
      BY <1>1, HolderWhole DEF Excused
    <3>5. ~Scrubbed
      BY <1>9, <2>2, <3>4 DEF Broken, Invalid
    <3>6. ~Broken'
      BY <1>5, <2>2, <3>2, <3>5 DEF Broken, Scrubbed, Data
    <3>7. files'["journal"] = files["journal"] /\ files'["marker"] = f
      BY <1>7, <1>9 DEF Names
    <3>8. JournalInv'
      BY <1>8, <1>9, <2>2, <3>1, <3>7 DEF JournalInv
    <3> QED
      BY <3>3, <3>6, <3>8, WholeStays
  <2> QED
    BY <1>1, <1>6, <2>1, <2>2 DEF Names
<1>12. HolderStep(s)
  BY <1>1, <1>7, <1>8 DEF HolderStep, Names
<1> QED
  BY <1>10, <1>11, <1>12

------------------------
(* The upgrade and the import. *)

LEMMA BuildsOwn ==
  ASSUME IInv, ~raced, NEW s \in Slots, starts[s].pc \in Holding, starts[s].pc \in Quiet,
         starts'[s].pc \in {"upgrade", "verifyUpgrade", "legacy", "activity"} \union Importing \union Undoing,
         starts'[s].id = starts[s].id, \A l \in Locks : files'[l] = files[l],
         files'["journal"] = files["journal"], Fresh(starts[s])', OwnImport(starts[s])'
  PROVE  Own(s)'
<1>1. files["journal"] = Absent
  BY DEF IInv, Own, OwnJournal
<1>2. OwnLocks(starts[s])'
  BY HoldsOn DEF Holding
<1>3. OwnJournal(starts[s])' /\ SeenInv(starts[s])'
  BY <1>1 DEF OwnJournal, SeenInv, Importing, Undoing, Resuming
<1> QED
  BY <1>2, <1>3 DEF Own

\* What the others see of a step that writes nothing but the registry, the sources and the
\* credentials.
LEMMA BuildsGood ==
  ASSUME IInv, NEW s \in Slots, Formed(s), starts[s].pc \in Holding, starts[s].pc \in Quiet,
         \A n \in Names \ {"registry"} : files'[n] = files[n],
         ~raced /\ ~raced' =>
           /\ Own(s)' /\ BrokenInv'
           /\ (files'["registry"].kind = "absent" => files'["registry"] = Absent)
           /\ (files'["registry"].kind # "current" => files'["registry"].of = {})
  PROVE  Good(s)
<1> SUFFICES ASSUME ~raced, ~raced' PROVE HolderStep(s) /\ FileInv' /\ JournalInv'
  BY HolderGood
<1>1. \A l \in Locks : files'[l] = files[l]
  BY DEF Names, Locks
<1>2. files'["journal"] = files["journal"] /\ files'["marker"] = files["marker"]
  BY DEF Names
<1>3. files["journal"] = Absent
  BY DEF IInv, Own, OwnJournal
<1>4. FileInv /\ used.starts \in Nat /\ used'.starts \in {used.starts, used.starts + 1}
  BY DEF IInv, Shapes, Formed, Lives
<1>5. FileInv'
  BY <1>1, <1>4 DEF FileInv
<1>6. HolderStep(s)
  BY <1>1, <1>2 DEF HolderStep, Formed
<1> QED
  BY <1>2, <1>3, <1>5, <1>6, NoJournal

\* A step that writes nothing at all, of a start that is not excused.
LEMMA LooksGood ==
  ASSUME IInv, NEW s \in Slots, Formed(s), starts[s].pc \in Holding, starts[s].pc \in Quiet,
         ~Excused(starts[s]), Nothing, UNCHANGED Data, starts'[s].id = starts[s].id,
         starts'[s].pc \notin Resuming, ~raced => Own(s)'
  PROVE  Good(s)
<1>1. ~raced => Keeps(s)
  BY HolderWhole DEF Keeps
<1> QED
  BY <1>1, QuietGood

LEMMA VerifyGood ==
  ASSUME IInv, NEW s \in Slots, VerifyUpgrade(s) \/ VerifyRegistry(s) PROVE Good(s)
<1> DEFINE r == starts[s]
           q == starts'[s]
           x == [r EXCEPT !.pc = "activity"]
           y == [r EXCEPT !.pc = "scrub", !.todo = Parseable]
           w == [r EXCEPT !.pc = "rollback", !.failed = TRUE]
<1>1. /\ r.pc \in {"verify", "verifyUpgrade"} /\ r.claim = Absent /\ DOMAIN r = Fields /\ Nothing
      /\ UNCHANGED Data /\ DOMAIN files' = Names /\ DOMAIN sources' = Sources
      /\ r.pc \in Holding /\ r.pc \in Quiet /\ r.pc \notin Past /\ r.pc # "idle"
  BY DEF VerifyUpgrade, VerifyRegistry, Verify, At, IInv, Ids, Shapes, Removing, Data, Nothing,
         Holding, Importing, Quiet, Past
<1>2. /\ DOMAIN x = Fields /\ x.pc = "activity" /\ x.id = r.id /\ x.claim = Absent
      /\ x.pc \in Pcs \ {"idle"} /\ Unclaimed(x)
  BY <1>1 DEF Fields, Pcs, Holding, Unclaimed
<1>3. /\ DOMAIN y = Fields /\ y.pc = "scrub" /\ y.id = r.id /\ y.claim = Absent /\ y.todo = Parseable
      /\ y.wrote = r.wrote /\ y.upgraded = r.upgraded /\ y.imports = r.imports
      /\ y.scrubbed = r.scrubbed /\ y.pc \in Pcs \ {"idle"} /\ Unclaimed(y)
  BY <1>1 DEF Fields, Pcs, Holding, Importing, Unclaimed
<1>4. /\ DOMAIN w = Fields /\ w.pc = "rollback" /\ w.id = r.id /\ w.claim = Absent
      /\ w.wrote = r.wrote /\ w.upgraded = r.upgraded /\ w.imports = r.imports /\ w.failed
      /\ w.scrubbed = r.scrubbed /\ w.pc \in Pcs \ {"idle"} /\ Unclaimed(w)
  BY <1>1 DEF Fields, Pcs, Holding, Undoing, Unclaimed
<1> HIDE DEF x, y, w
<1>5. PICK z \in {x, y, w} : /\ Step(s, z) /\ (Fault \/ NoFault)
                             /\ z.pc = "scrub" => r.pc = "verify"
                             /\ z.pc = "activity" => r.pc = "verifyUpgrade"
  BY <1>2, <1>3, <1>4 DEF VerifyUpgrade, VerifyRegistry, Verify, At, Fails, x, y, w
<1>51. DOMAIN z = Fields /\ z.pc \in Pcs \ {"idle"} /\ z.id = r.id /\ z.claim = Absent /\ Unclaimed(z)
  BY <1>2, <1>3, <1>4, <1>5
<1>6. Formed(s) /\ q = z
  BY <1>1, <1>5, <1>51, Forms
<1>7. ASSUME ~raced PROVE Own(s)'
  <2>1. Fresh(r) /\ OwnImport(r)
    BY <1>7 DEF IInv, Own
  <2>2. Fresh(starts[s])'
    <3>1. CASE z = x
      BY <1>2, <1>6, <3>1 DEF Fresh, Resuming, Locking, Quarantining, Undoing
    <3>2. CASE z = y
      <4>1. r.pc = "verify"
        BY <1>3, <1>5, <3>2
      <4> QED
        BY <1>3, <1>6, <2>1, <3>2, <4>1 DEF Fresh, Resuming, Locking, Quarantining, Undoing
    <3>3. CASE z = w
      <4>1. r.scrubbed = {}
        BY <1>1, <2>1 DEF Fresh
      <4> QED
        BY <1>4, <1>6, <3>3, <4>1 DEF Fresh, Resuming, Locking, Quarantining, Undoing
    <3> QED
      BY <1>5, <3>1, <3>2, <3>3
  <2>3. files' = files /\ sources' = sources /\ credentials' = credentials
    BY <1>1 DEF Nothing, Data
  <2>4. CASE z = x
    <3>1. OwnImport(starts[s])'
      BY <1>2, <1>6, <2>4 DEF OwnImport
    <3> QED
      BY <1>1, <1>2, <1>6, <1>7, <2>2, <2>3, <2>4, <3>1, BuildsOwn
  <2>5. CASE z = y /\ r.pc = "verify"
    <3>1. ~Scrubbed /\ WroteReg(r)
      BY <2>1, <2>5 DEF OwnImport
    <3>2. \A k \in Sources : sources[k] # "scrubbed"
      BY <3>1 DEF Scrubbed
    <3>3. WroteReg(starts[s])'
      BY <1>3, <1>6, <2>3, <2>5, <3>1 DEF WroteReg
    <3>4. Known(starts[s])'
      BY <2>3, <3>2 DEF Known
    <3>5. \A k \in (starts[s].todo)' : k \in Sources /\ sources'[k] # "scrubbed"
      BY <1>3, <1>6, <2>3, <2>5, <3>2 DEF Parseable
    <3>6. OwnImport(starts[s])'
      BY <1>3, <1>6, <2>5, <3>3, <3>4, <3>5 DEF OwnImport
    <3> QED
      BY <1>1, <1>3, <1>6, <1>7, <2>2, <2>3, <2>5, <3>6, BuildsOwn DEF Importing
  <2>6. CASE z = w
    <3>1. ~Scrubbed /\ ~Scrubbed'
      BY <1>1, <2>1, <2>3 DEF OwnImport, Scrubbed
    <3>2. Known(starts[s])'
      BY <3>1 DEF Known, Scrubbed
    <3>3. starts'[s].wrote => r.pc = "verify" /\ WroteReg(starts[s])'
      BY <1>1, <1>4, <1>6, <2>1, <2>3, <2>6 DEF Fresh, OwnImport, WroteReg
    <3>4. ~starts'[s].wrote => starts'[s].imports = {}
      BY <1>1, <1>4, <1>6, <2>1, <2>6 DEF Fresh
    <3>5. starts'[s].upgraded => ~starts'[s].wrote
      BY <1>1, <1>4, <1>6, <2>1, <2>6 DEF Fresh
    <3>6. OwnImport(starts[s])'
      BY <1>4, <1>6, <2>6, <3>1, <3>2, <3>3, <3>4, <3>5 DEF OwnImport, Apart
    <3> QED
      BY <1>1, <1>4, <1>6, <1>7, <2>2, <2>3, <2>6, <3>6, BuildsOwn DEF Undoing
  <2> QED
    BY <1>3, <1>5, <2>4, <2>5, <2>6
<1>8. starts'[s].pc \notin Resuming /\ starts'[s].id = r.id
  BY <1>2, <1>3, <1>4, <1>5, <1>6 DEF Resuming
<1> QED
  BY <1>1, <1>6, <1>7, <1>8, LooksGood DEF Excused

LEMMA UpgradeGood == ASSUME IInv, NEW s \in Slots, Upgrade(s) PROVE Good(s)
<1> DEFINE r == starts[s]
           q == starts'[s]
<1>1. /\ r.pc = "upgrade" /\ r.claim = Absent /\ DOMAIN r = Fields /\ UNCHANGED <<Data, raced>>
      /\ DOMAIN files = Names /\ DOMAIN sources' = Sources
      /\ r.pc \in Holding /\ r.pc \in Quiet /\ r.pc \notin Past /\ r.pc # "idle"
  BY DEF Upgrade, At, IInv, Ids, Shapes, Removing, Data, Holding, Quiet, Past
<1>2. PICK replaced, failed, told, keep \in BOOLEAN :
        /\ Fault \/ NoFault
        /\ IF replaced THEN files' = [files EXCEPT !["registry"] = File(r.id, "current", {})]
                       ELSE files' = files
        /\ Step(s, [r EXCEPT !.pc = IF failed THEN "rollback" ELSE "verifyUpgrade",
                             !.failed = failed, !.upgraded = told, !.keep = keep])
  BY DEF Upgrade, ReplaceFile, Put
<1> DEFINE x == [r EXCEPT !.pc = IF failed THEN "rollback" ELSE "verifyUpgrade",
                          !.failed = failed, !.upgraded = told, !.keep = keep]
<1>3. /\ DOMAIN x = Fields /\ x.pc = (IF failed THEN "rollback" ELSE "verifyUpgrade") /\ x.id = r.id
      /\ x.claim = Absent /\ x.failed = failed /\ x.wrote = r.wrote
      /\ x.imports = r.imports /\ x.scrubbed = r.scrubbed
  BY <1>1 DEF Fields
<1>4. Step(s, x)
  BY <1>2
<1> HIDE DEF x
<1>5. x.pc \in Pcs \ {"idle"} /\ Unclaimed(x)
  BY <1>3 DEF Pcs, Holding, Undoing, Unclaimed
<1>6. /\ DOMAIN files' = Names /\ \A n \in Names \ {"registry"} : files'[n] = files[n]
      /\ files'["registry"] \in {files["registry"], File(r.id, "current", {})}
  BY <1>1, <1>2 DEF Names
<1>7. Formed(s) /\ q = x
  BY <1>1, <1>2, <1>3, <1>4, <1>5, <1>6, Forms
<1>8. ASSUME ~raced, ~raced'
      PROVE  /\ Own(s)' /\ BrokenInv'
             /\ files'["registry"].kind = "absent" => files'["registry"] = Absent
             /\ files'["registry"].kind # "current" => files'["registry"].of = {}
  <2>1. Fresh(r) /\ OwnImport(r) /\ FileInv /\ ~Broken
    BY <1>1, <1>8, HolderWhole DEF IInv, Own, Excused
  <2>2. /\ File(r.id, "current", {}).kind = "current" /\ File(r.id, "current", {}).of = {}
    BY DEF File
  <2>3. ~Scrubbed' /\ credentials' = credentials
    BY <1>1, <2>1 DEF OwnImport, Scrubbed, Data
  <2>4. files'["registry"].of \subseteq credentials'
    BY <1>6, <2>1, <2>2, <2>3 DEF Broken
  <2>5. BrokenInv'
    BY <2>3, <2>4, WholeStays DEF Broken
  <2>6. /\ files'["registry"].kind = "absent" => files'["registry"] = Absent
        /\ files'["registry"].kind # "current" => files'["registry"].of = {}
    BY <1>6, <2>1, <2>2 DEF FileInv
  <2>7. ~x.wrote /\ x.imports = {} /\ x.scrubbed = {}
    BY <1>1, <1>3, <2>1 DEF Fresh
  <2>8. Fresh(starts[s])'
    BY <1>3, <1>7, <2>7 DEF Fresh, Resuming, Locking, Quarantining, Undoing
  <2>9. OwnImport(starts[s])'
    BY <1>3, <1>7, <2>3, <2>7 DEF OwnImport, Apart
  <2>10. \A l \in Locks \union {"journal"} : files'[l] = files[l]
    BY <1>6 DEF Names, Locks
  <2> QED
    BY <1>1, <1>3, <1>7, <1>8, <2>5, <2>6, <2>8, <2>9, <2>10, BuildsOwn DEF Undoing
<1> QED
  BY <1>1, <1>6, <1>7, <1>8, BuildsGood

\* A start whose import failed before it scrubbed anything.
LEMMA FailOwn ==
  ASSUME IInv, ~raced, NEW s \in Slots, starts[s].pc \in Holding, starts[s].pc \in Quiet,
         starts'[s].pc = "rollback", starts'[s].id = starts[s].id, starts'[s].failed,
         ~starts'[s].upgraded, ~starts'[s].wrote, starts'[s].scrubbed = {},
         \A l \in Locks : files'[l] = files[l], files'["journal"] = files["journal"],
         files'["registry"].of = {}
  PROVE  Own(s)'
<1>1. Fresh(starts[s])'
  BY DEF Fresh, Resuming, Locking, Quarantining, Undoing
<1>2. OwnImport(starts[s])'
  BY DEF OwnImport, Apart
<1> QED
  BY <1>1, <1>2, BuildsOwn DEF Undoing

LEMMA ReadSourcesGood == ASSUME IInv, NEW s \in Slots, ReadSources(s) PROVE Good(s)
<1> DEFINE r == starts[s]
           q == starts'[s]
           w == [r EXCEPT !.pc = "rollback", !.failed = TRUE]
           x == [r EXCEPT !.pc = "release1"]
<1>1. /\ r.pc = "legacy" /\ r.claim = Absent /\ DOMAIN r = Fields /\ Nothing /\ UNCHANGED Data
      /\ DOMAIN files' = Names /\ DOMAIN sources' = Sources
      /\ r.pc \in Holding /\ r.pc \in Quiet /\ r.pc \notin Past /\ r.pc # "idle"
  BY DEF ReadSources, At, IInv, Ids, Shapes, Removing, Data, Nothing, Holding, Quiet, Past
<1>2. PICK chosen : \/ Step(s, x) /\ NoFault
                    \/ Step(s, w) /\ Fault
                    \/ Step(s, [r EXCEPT !.pc = "credentials", !.todo = chosen, !.imports = {}]) /\ NoFault
  BY DEF ReadSources, Fails
<1> DEFINE y == [r EXCEPT !.pc = "credentials", !.todo = chosen, !.imports = {}]
<1>3. /\ DOMAIN x = Fields /\ x.pc = "release1" /\ x.id = r.id /\ x.claim = Absent
      /\ DOMAIN w = Fields /\ w.pc = "rollback" /\ w.id = r.id /\ w.claim = Absent /\ w.failed
      /\ w.wrote = r.wrote /\ w.upgraded = r.upgraded /\ w.scrubbed = r.scrubbed
      /\ DOMAIN y = Fields /\ y.pc = "credentials" /\ y.id = r.id /\ y.claim = Absent /\ y.imports = {}
      /\ y.wrote = r.wrote /\ y.upgraded = r.upgraded /\ y.scrubbed = r.scrubbed
  BY <1>1 DEF Fields
<1>4. PICK z \in {x, y, w} : Step(s, z) /\ (Fault \/ NoFault)
  BY <1>2
<1> HIDE DEF x, y, w
<1>5. /\ DOMAIN z = Fields /\ z.pc \in {"release1", "rollback", "credentials"} /\ z.id = r.id
      /\ z.claim = Absent
  BY <1>3, <1>4
<1>6. z.pc \in Pcs \ {"idle"} /\ Unclaimed(z) /\ z.pc \notin Resuming
  BY <1>5 DEF Pcs, Past, Holding, Undoing, Importing, Unclaimed, Resuming
<1>7. Formed(s) /\ q = z
  BY <1>1, <1>4, <1>5, <1>6, Forms
<1>8. ASSUME ~raced PROVE Own(s)'
  <2>1. /\ ~r.wrote /\ ~r.upgraded /\ r.scrubbed = {} /\ files["registry"] = Absent /\ ~Scrubbed
    BY <1>1, <1>8 DEF IInv, Own, Fresh, OwnImport
  <2>2. Absent.of = {} /\ files' = files /\ sources' = sources
    BY <1>1 DEF Absent, File, Nothing, Data
  <2>3. CASE z = x
    BY <1>3, <1>7, <2>3, PastOwn DEF Past
  <2>4. CASE z = w
    BY <1>1, <1>3, <1>7, <1>8, <2>1, <2>2, <2>4, FailOwn
  <2>5. CASE z = y
    <3>1. Fresh(starts[s])'
      BY <1>3, <1>7, <2>1, <2>5 DEF Fresh, Resuming, Locking, Quarantining, Undoing
    <3>2. ~Scrubbed'
      BY <2>1, <2>2 DEF Scrubbed
    <3>3. OwnImport(starts[s])'
      BY <1>3, <1>7, <2>1, <2>2, <2>5, <3>2 DEF OwnImport
    <3> QED
      BY <1>1, <1>3, <1>7, <1>8, <2>2, <2>5, <3>1, <3>3, BuildsOwn DEF Importing
  <2> QED
    BY <1>4, <2>3, <2>4, <2>5
<1> QED
  BY <1>1, <1>5, <1>6, <1>7, <1>8, LooksGood DEF Excused

LEMMA SetCredentialGood == ASSUME IInv, NEW s \in Slots, SetCredential(s) PROVE Good(s)
<1> DEFINE r == starts[s]
           q == starts'[s]
<1>1. /\ r.pc = "credentials" /\ r.claim = Absent /\ DOMAIN r = Fields /\ files' = files
      /\ sources' = sources /\ DOMAIN files' = Names /\ DOMAIN sources' = Sources
      /\ r.pc \in Holding /\ r.pc \in Quiet /\ r.pc \notin Past /\ r.pc # "idle"
  BY DEF SetCredential, At, IInv, Ids, Shapes, Removing, Holding, Importing, Quiet, Past
<1>2. PICK k :
        LET ref == <<r.id, k>>
            next == [r EXCEPT !.todo = @ \ {k}, !.imports = @ \union {ref}]
        IN /\ Fault \/ NoFault
           /\ \/ Step(s, [r EXCEPT !.pc = "registry"]) /\ credentials' = credentials
              \/ credentials' = credentials \union {ref} /\ Step(s, next)
              \/ /\ credentials \subseteq credentials'
                 /\ Step(s, [next EXCEPT !.pc = "rollback", !.failed = TRUE])
  BY DEF SetCredential, Goto, NoFault
<1> DEFINE ref == <<r.id, k>>
           next == [r EXCEPT !.todo = @ \ {k}, !.imports = @ \union {ref}]
           x == [r EXCEPT !.pc = "registry"]
           w == [next EXCEPT !.pc = "rollback", !.failed = TRUE]
<1>3. /\ DOMAIN x = Fields /\ x.pc = "registry" /\ x.id = r.id /\ x.claim = Absent
      /\ x.wrote = r.wrote /\ x.upgraded = r.upgraded /\ x.scrubbed = r.scrubbed /\ x.imports = r.imports
  BY <1>1 DEF Fields
<1>4. /\ DOMAIN next = Fields /\ next.pc = "credentials" /\ next.id = r.id /\ next.claim = Absent
      /\ next.wrote = r.wrote /\ next.upgraded = r.upgraded /\ next.scrubbed = r.scrubbed
      /\ next.imports = r.imports \union {ref}
  BY <1>1 DEF Fields
<1>5. /\ DOMAIN w = Fields /\ w.pc = "rollback" /\ w.id = r.id /\ w.claim = Absent /\ w.failed
      /\ w.wrote = r.wrote /\ w.upgraded = r.upgraded /\ w.scrubbed = r.scrubbed
  BY <1>1 DEF Fields
<1>6. PICK z \in {x, next, w} :
        /\ Step(s, z) /\ credentials \subseteq credentials'
        /\ z = next => credentials' = credentials \union {ref}
  BY <1>2, <1>3, <1>4, <1>5
<1> HIDE DEF x, next, w
<1>7. /\ DOMAIN z = Fields /\ z.pc \in {"registry", "rollback", "credentials"} /\ z.id = r.id
      /\ z.claim = Absent
  BY <1>3, <1>4, <1>5, <1>6
<1>8. z.pc \in Pcs \ {"idle"} /\ Unclaimed(z)
  BY <1>7 DEF Pcs, Holding, Undoing, Importing, Unclaimed
<1>9. Formed(s) /\ q = z
  BY <1>1, <1>2, <1>6, <1>7, <1>8, Forms
<1>10. ASSUME ~raced
       PROVE  Own(s)' /\ BrokenInv' /\ files["registry"] = Absent
  <2>1. /\ ~r.wrote /\ ~r.upgraded /\ r.scrubbed = {} /\ files["registry"] = Absent /\ ~Scrubbed
        /\ r.imports \subseteq credentials
    BY <1>1, <1>10 DEF IInv, Own, Fresh, OwnImport
  <2>2. Absent.of = {} /\ ~Scrubbed'
    BY <1>1, <2>1 DEF Absent, File, Scrubbed
  <2>3. BrokenInv'
    BY <1>1, <2>1, <2>2, WholeStays DEF Broken
  <2>4. CASE z = w
    BY <1>1, <1>5, <1>9, <1>10, <2>1, <2>2, <2>3, <2>4, FailOwn
  <2>5. CASE z \in {x, next}
    <3>1. /\ z.pc \in {"credentials", "registry"} /\ z.wrote = r.wrote /\ z.upgraded = r.upgraded
          /\ z.scrubbed = r.scrubbed /\ z.imports \subseteq credentials'
      BY <1>3, <1>4, <1>6, <2>1, <2>5
    <3>2. Fresh(starts[s])'
      BY <1>9, <2>1, <3>1 DEF Fresh, Resuming, Locking, Quarantining, Undoing
    <3>3. OwnImport(starts[s])'
      BY <1>1, <1>9, <2>1, <2>2, <3>1 DEF OwnImport
    <3> QED
      BY <1>1, <1>7, <1>9, <1>10, <2>1, <2>3, <3>1, <3>2, <3>3, BuildsOwn DEF Importing
  <2> QED
    BY <1>6, <2>1, <2>3, <2>4, <2>5
<1>11. Absent.of = {}
  BY DEF Absent, File
<1> QED
  BY <1>1, <1>9, <1>10, <1>11, BuildsGood

LEMMA CreateRegistryGood == ASSUME IInv, NEW s \in Slots, CreateRegistry(s) PROVE Good(s)
<1> DEFINE r == starts[s]
           q == starts'[s]
           x == [r EXCEPT !.pc = "registryText"]
           w == [r EXCEPT !.pc = "rollback", !.failed = TRUE]
<1>1. /\ r.pc = "registry" /\ r.claim = Absent /\ DOMAIN r = Fields /\ UNCHANGED <<Data, raced>>
      /\ DOMAIN files = Names /\ DOMAIN sources' = Sources
      /\ r.pc \in Holding /\ r.pc \in Quiet /\ r.pc \notin Past /\ r.pc # "idle"
  BY DEF CreateRegistry, At, IInv, Ids, Shapes, Removing, Data, Holding, Importing, Quiet, Past
<1>2. /\ DOMAIN x = Fields /\ x.pc = "registryText" /\ x.id = r.id /\ x.claim = Absent
      /\ x.wrote = r.wrote /\ x.upgraded = r.upgraded /\ x.scrubbed = r.scrubbed /\ x.imports = r.imports
      /\ DOMAIN w = Fields /\ w.pc = "rollback" /\ w.id = r.id /\ w.claim = Absent /\ w.failed
  BY <1>1 DEF Fields
<1>3. NoFault /\ \/ files["registry"] = Absent /\ Step(s, x) /\ files' = [files EXCEPT !["registry"] = Torn(r.id)]
                 \/ files["registry"] # Absent /\ Step(s, w) /\ files' = files
  BY DEF CreateRegistry, Goto, Fails, NoFault, Put
<1> HIDE DEF x, w
<1>4. PICK z \in {x, w} : Step(s, z)
  BY <1>3
<1>5. DOMAIN z = Fields /\ z.pc \in {"registryText", "rollback"} /\ z.id = r.id /\ z.claim = Absent
  BY <1>2, <1>4
<1>6. z.pc \in Pcs \ {"idle"} /\ Unclaimed(z)
  BY <1>5 DEF Pcs, Holding, Undoing, Importing, Unclaimed
<1>7. DOMAIN files' = Names /\ \A n \in Names \ {"registry"} : files'[n] = files[n]
  BY <1>1, <1>3 DEF Names
<1>8. Formed(s) /\ q = z
  BY <1>1, <1>3, <1>4, <1>5, <1>6, <1>7, Forms
<1>9. ASSUME ~raced
      PROVE  Own(s)' /\ BrokenInv' /\ files'["registry"] = Torn(r.id)
  <2>1. /\ ~r.wrote /\ ~r.upgraded /\ r.scrubbed = {} /\ files["registry"] = Absent /\ ~Scrubbed
        /\ r.imports \subseteq credentials
    BY <1>1, <1>9 DEF IInv, Own, Fresh, OwnImport
  <2>2. Step(s, x) /\ files'["registry"] = Torn(r.id) /\ Torn(r.id).of = {}
    BY <1>1, <1>3, <2>1 DEF Names, Torn, File
  <2>3. q = x
    BY <2>2 DEF Step, IInv, Shapes
  <2>4. ~Scrubbed' /\ credentials' = credentials
    BY <1>1, <2>1 DEF Scrubbed, Data
  <2>5. BrokenInv'
    BY <2>2, <2>4, WholeStays DEF Broken
  <2>6. Fresh(starts[s])'
    BY <1>2, <2>1, <2>3 DEF Fresh, Resuming, Locking, Quarantining, Undoing
  <2>7. OwnImport(starts[s])'
    BY <1>2, <2>1, <2>2, <2>3, <2>4 DEF OwnImport
  <2>8. \A l \in Locks \union {"journal"} : files'[l] = files[l]
    BY <1>7 DEF Names, Locks
  <2> QED
    BY <1>1, <1>2, <1>9, <2>2, <2>3, <2>5, <2>6, <2>7, <2>8, BuildsOwn DEF Importing
<1>10. Torn(r.id).of = {} /\ Torn(r.id).kind = "torn"
  BY DEF Torn, File
<1> QED
  BY <1>1, <1>7, <1>8, <1>9, <1>10, BuildsGood

LEMMA WriteRegistryGood == ASSUME IInv, NEW s \in Slots, WriteRegistry(s) PROVE Good(s)
<1> DEFINE r == starts[s]
           q == starts'[s]
           x == [r EXCEPT !.pc = "verify", !.wrote = TRUE]
           w == [r EXCEPT !.pc = "rollback", !.failed = TRUE]
           v == [r EXCEPT !.pc = "rollback", !.failed = TRUE, !.keep = TRUE]
           f == File(r.id, "current", r.imports)
<1>1. /\ r.pc = "registryText" /\ r.claim = Absent /\ DOMAIN r = Fields /\ UNCHANGED <<Data, raced>>
      /\ DOMAIN files = Names /\ DOMAIN sources' = Sources
      /\ r.pc \in Holding /\ r.pc \in Quiet /\ r.pc \notin Past /\ r.pc # "idle"
  BY DEF WriteRegistry, At, IInv, Ids, Shapes, Removing, Data, Holding, Importing, Quiet, Past
<1>2. /\ DOMAIN x = Fields /\ x.pc = "verify" /\ x.id = r.id /\ x.claim = Absent /\ x.wrote
      /\ x.upgraded = r.upgraded /\ x.scrubbed = r.scrubbed /\ x.imports = r.imports
  BY <1>1 DEF Fields
<1>3. /\ DOMAIN w = Fields /\ w.pc = "rollback" /\ w.id = r.id /\ w.claim = Absent /\ w.failed
      /\ w.wrote = r.wrote /\ w.upgraded = r.upgraded /\ w.scrubbed = r.scrubbed
      /\ DOMAIN v = Fields /\ v.pc = "rollback" /\ v.id = r.id /\ v.claim = Absent /\ v.failed
      /\ v.wrote = r.wrote /\ v.upgraded = r.upgraded /\ v.scrubbed = r.scrubbed
  BY <1>1 DEF Fields
<1>4. /\ Fault \/ NoFault
      /\ \/ Step(s, x) /\ files' = [files EXCEPT !["registry"] = f]
         \/ Step(s, w) /\ files' = [files EXCEPT !["registry"] = Absent]
         \/ Step(s, v) /\ files' = files
  BY DEF WriteRegistry, Fails, Put
<1> HIDE DEF x, w, v
<1>5. PICK z \in {x, w, v} : /\ Step(s, z)
                             /\ \/ z = x /\ files' = [files EXCEPT !["registry"] = f]
                                \/ z = w /\ files' = [files EXCEPT !["registry"] = Absent]
                                \/ z = v /\ files' = files
  BY <1>4
<1>6. DOMAIN z = Fields /\ z.pc \in {"verify", "rollback"} /\ z.id = r.id /\ z.claim = Absent
  BY <1>2, <1>3, <1>5
<1>7. z.pc \in Pcs \ {"idle"} /\ Unclaimed(z)
  BY <1>6 DEF Pcs, Holding, Undoing, Importing, Unclaimed
<1>8. DOMAIN files' = Names /\ \A n \in Names \ {"registry"} : files'[n] = files[n]
  BY <1>1, <1>5 DEF Names
<1>9. Formed(s) /\ q = z
  BY <1>1, <1>4, <1>5, <1>6, <1>7, <1>8, Forms
<1>10. f.kind = "current" /\ f.of = r.imports /\ f # Absent /\ Absent.of = {}
  BY DEF File, Absent
<1>11. ASSUME ~raced
       PROVE  /\ Own(s)' /\ BrokenInv'
              /\ files'["registry"].kind = "absent" => files'["registry"] = Absent
              /\ files'["registry"].kind # "current" => files'["registry"].of = {}
  <2>1. /\ ~r.wrote /\ ~r.upgraded /\ r.scrubbed = {} /\ files["registry"].of = {} /\ ~Scrubbed
        /\ r.imports \subseteq credentials /\ FileInv
    BY <1>1, <1>11 DEF IInv, Own, Fresh, OwnImport
  <2>2. ~Scrubbed' /\ credentials' = credentials
    BY <1>1, <2>1 DEF Scrubbed, Data
  <2>3. \A l \in Locks \union {"journal"} : files'[l] = files[l]
    BY <1>8 DEF Names, Locks
  <2>4. CASE z = x /\ files' = [files EXCEPT !["registry"] = f]
    <3>1. files'["registry"] = f
      BY <1>1, <2>4 DEF Names
    <3>2. BrokenInv'
      BY <1>10, <2>1, <2>2, <3>1, WholeStays DEF Broken
    <3>3. Fresh(starts[s])'
      BY <1>2, <1>9, <2>1, <2>4 DEF Fresh, Resuming, Locking, Quarantining, Undoing
    <3>4. WroteReg(starts[s])'
      BY <1>2, <1>9, <2>1, <2>2, <2>4, <3>1 DEF WroteReg
    <3>5. OwnImport(starts[s])'
      BY <1>2, <1>9, <2>2, <2>4, <3>4 DEF OwnImport
    <3> QED
      BY <1>1, <1>2, <1>9, <1>10, <1>11, <2>3, <2>4, <3>1, <3>2, <3>3, <3>5, BuildsOwn DEF Importing
  <2>5. CASE z \in {w, v} /\ files'["registry"] \in {files["registry"], Absent}
    <3>1. files'["registry"].of = {}
      BY <1>10, <2>1, <2>5
    <3>2. BrokenInv'
      BY <2>2, <3>1, WholeStays DEF Broken
    <3>3. Own(s)'
      BY <1>1, <1>3, <1>9, <1>11, <2>1, <2>3, <2>5, <3>1, FailOwn
    <3> QED
      BY <2>1, <2>5, <3>1, <3>2, <3>3 DEF FileInv
  <2>6. files' \in {files, [files EXCEPT !["registry"] = Absent]} => files'["registry"] \in {files["registry"], Absent}
    BY <1>1 DEF Names
  <2> QED
    BY <1>5, <2>4, <2>5, <2>6
<1> QED
  BY <1>1, <1>8, <1>9, <1>11, BuildsGood

------------------------
(* The sources are scrubbed, and everything is taken back. *)

\* A holder that takes back what it did may leave the import in pieces.
LEMMA BreaksInv ==
  ASSUME IInv, ~raced, NEW s \in Slots, Formed(s), starts[s].pc \in Holding, starts[s].pc \in Quiet,
         starts'[s].id = starts[s].id, starts'[s].pc \notin Resuming,
         \A n \in Names \ {"registry"} : files'[n] = files[n],
         Broken' => ~Invalid(files'["registry"]) /\ Excused(starts'[s])
  PROVE  BrokenInv'
<1> SUFFICES ASSUME Broken' PROVE BrokenInv'
  BY DEF BrokenInv
<1> DEFINE o == starts[s].id
<1>1. o # 0 /\ o \in 1..used.starts
  BY DEF IInv, Ids, Shapes, Holding, Quarantining, Importing, Undoing
<1>2. files["journal"] = Absent /\ \A l \in Locks : files[l] = Lock(o)
  BY DEF IInv, Own, OwnJournal, OwnLocks, Locks
<1>3. files'["journal"].by # o /\ \A l \in Locks : files'[l] = Lock(o)
  BY <1>1, <1>2 DEF Names, Locks, Absent, File
<1>4. files'["migrationLock"].by = o
  BY <1>3 DEF Locks, Lock, File
<1>5. \A t \in Slots \ {s} : starts'[t] = starts[t] /\ starts[t].id # o
  BY <1>1 DEF Formed, Lives, IInv, Ids
<1>6. ASSUME NEW t \in Slots, starts'[t].pc \in Resuming, NEW l \in Locks
      PROVE  starts'[t].seen[l] # Lock(o)
  <2>1. t # s /\ SeenInv(starts[t]) /\ starts'[t] = starts[t]
    BY <1>5, <1>6 DEF IInv, Own
  <2>2. starts[t].seen[l] = Absent \/ \E n \in 1..used.starts : starts[t].seen[l] = Lock(n) /\ ~Alive(n)
    BY <1>6, <2>1 DEF SeenInv
  <2>3. Alive(o)
    BY <1>1 DEF Alive
  <2>4. \A n : Lock(n) = Lock(o) => n = o
    BY DEF Lock, File
  <2>5. Absent # Lock(o)
    BY DEF Lock, Absent, File
  <2> QED
    BY <2>1, <2>2, <2>3, <2>4, <2>5
<1>7. \A t \in Slots : starts'[t].id = o => Excused(starts'[t])
  BY <1>5
<1> QED
  BY <1>1, <1>3, <1>4, <1>6, <1>7 DEF BrokenInv, Excused

LEMMA ScrubGood == ASSUME IInv, NEW s \in Slots, Scrub(s) PROVE Good(s)
<1> DEFINE r == starts[s]
           q == starts'[s]
           x == [r EXCEPT !.pc = "activity"]
           w == [r EXCEPT !.pc = "rollback", !.failed = TRUE]
<1>1. /\ r.pc = "scrub" /\ r.claim = Absent /\ DOMAIN r = Fields
      /\ files' = files /\ credentials' = credentials
      /\ DOMAIN files' = Names /\ DOMAIN sources = Sources
      /\ r.pc \in Holding /\ r.pc \in Quiet /\ r.pc \notin Past /\ r.pc # "idle"
  BY DEF Scrub, At, IInv, Ids, Shapes, Removing, Data, Holding, Importing, Quiet, Past
<1>2. \E k : LET done == [r EXCEPT !.todo = @ \ {k}, !.scrubbed = @ \union {<<k, sources[k]>>}] IN
        \/ Step(s, x) /\ sources' = sources /\ NoFault
        \/ Step(s, w) /\ sources' \in {sources, [sources EXCEPT ![k] = "forgotten"]} /\ Fault
        \/ /\ Fault \/ NoFault
           /\ k \in r.todo /\ sources' = [sources EXCEPT ![k] = "scrubbed"]
           /\ Step(s, done) \/ Step(s, [done EXCEPT !.pc = "rollback", !.failed = TRUE])
  <2>1. CASE r.todo = {}
    BY <2>1 DEF Scrub, NoFault
  <2>2. CASE r.todo # {}
    <3> HIDE DEF x
    <3>1. PICK k \in r.todo, replaced, failed, told \in BOOLEAN :
            LET done == IF told
                          THEN [r EXCEPT !.todo = @ \ {k}, !.scrubbed = @ \union {<<k, sources[k]>>}]
                          ELSE r
            IN /\ ReplaceFile(TRUE, replaced, failed) /\ Told(replaced, failed, told)
               /\ IF replaced THEN sources' = [sources EXCEPT ![k] = IF told THEN "scrubbed"
                                                                    ELSE "forgotten"]
                  ELSE UNCHANGED sources
               /\ Step(s, IF failed THEN [done EXCEPT !.pc = "rollback", !.failed = TRUE] ELSE done)
      BY <2>2 DEF Scrub
    <3>2. CASE told
      BY <3>1, <3>2 DEF ReplaceFile, Told
    <3>3. CASE ~told
      <4>1. failed /\ Fault
        BY <3>1, <3>3 DEF ReplaceFile, Told
      <4>2. sources' \in {sources, [sources EXCEPT ![k] = "forgotten"]}
        BY <3>1, <3>3
      <4> QED
        BY <3>1, <3>3, <4>1, <4>2
    <3> QED BY <3>2, <3>3
  <2> QED
    BY <2>1, <2>2
<1>3. PICK k : LET done == [r EXCEPT !.todo = @ \ {k}, !.scrubbed = @ \union {<<k, sources[k]>>}] IN
        \/ Step(s, x) /\ sources' = sources /\ NoFault
        \/ Step(s, w) /\ sources' \in {sources, [sources EXCEPT ![k] = "forgotten"]} /\ Fault
        \/ /\ Fault \/ NoFault
           /\ k \in r.todo /\ sources' = [sources EXCEPT ![k] = "scrubbed"]
           /\ Step(s, done) \/ Step(s, [done EXCEPT !.pc = "rollback", !.failed = TRUE])
  BY <1>2
<1> DEFINE change == <<k, sources[k]>>
           done == [r EXCEPT !.todo = @ \ {k}, !.scrubbed = @ \union {change}]
           v == [done EXCEPT !.pc = "rollback", !.failed = TRUE]
<1>4. /\ DOMAIN x = Fields /\ x.pc = "activity" /\ x.id = r.id /\ x.claim = Absent
      /\ DOMAIN w = Fields /\ w.pc = "rollback" /\ w.id = r.id /\ w.claim = Absent /\ w.failed
      /\ w.wrote = r.wrote /\ w.upgraded = r.upgraded /\ w.imports = r.imports /\ w.scrubbed = r.scrubbed
  BY <1>1 DEF Fields
<1>5. /\ DOMAIN done = Fields /\ done.pc = "scrub" /\ done.id = r.id /\ done.claim = Absent
      /\ done.wrote = r.wrote /\ done.upgraded = r.upgraded /\ done.imports = r.imports
      /\ done.scrubbed = r.scrubbed \union {change} /\ done.todo = r.todo \ {k}
  BY <1>1 DEF Fields
<1>6. /\ DOMAIN v = Fields /\ v.pc = "rollback" /\ v.id = r.id /\ v.claim = Absent /\ v.failed
      /\ v.wrote = r.wrote /\ v.upgraded = r.upgraded /\ v.imports = r.imports
      /\ v.scrubbed = r.scrubbed \union {change}
  <2> HIDE DEF done
  <2> QED
    BY <1>5 DEF Fields
<1> DEFINE forgets == [sources EXCEPT ![k] = "forgotten"]
<1>7. (Fault \/ NoFault) /\ \/ Step(s, x) /\ sources' = sources
                            \/ Step(s, w) /\ sources' \in {sources, forgets}
                            \/ /\ k \in r.todo /\ sources' = [sources EXCEPT ![k] = "scrubbed"]
                               /\ Step(s, done) \/ Step(s, v)
  BY <1>3
<1> HIDE DEF x, w, done, v
<1>8. PICK z \in {x, w, done, v} :
        /\ Step(s, z)
        /\ \/ z = x /\ sources' = sources
           \/ z = w /\ sources' \in {sources, forgets}
           \/ z \in {done, v} /\ k \in r.todo /\ sources' = [sources EXCEPT ![k] = "scrubbed"]
  BY <1>7
<1>9. DOMAIN z = Fields /\ z.pc \in {"activity", "rollback", "scrub"} /\ z.id = r.id /\ z.claim = Absent
  BY <1>4, <1>5, <1>6, <1>8
<1>10. z.pc \in Pcs \ {"idle"} /\ Unclaimed(z)
  BY <1>9 DEF Pcs, Holding, Undoing, Importing, Unclaimed
<1>11. DOMAIN sources' = Sources
  BY <1>1, <1>8
<1>12. Formed(s) /\ q = z
  BY <1>1, <1>7, <1>8, <1>9, <1>10, <1>11, Forms
<1>13. ASSUME ~raced PROVE Own(s)' /\ BrokenInv' /\ FileInv
  <2>1. /\ r.wrote /\ ~r.upgraded /\ WroteReg(r) /\ Known(r)
        /\ (\A y \in r.todo : y \in Sources /\ sources[y] # "scrubbed")
        /\ (\A ch \in r.scrubbed : ch[2] # "scrubbed")
        /\ FileInv
    BY <1>1, <1>13 DEF IInv, Own, Fresh, OwnImport
  <2>2. files["registry"].kind = "current" /\ files["registry"].of \subseteq credentials
    BY <2>1 DEF WroteReg, File
  <2>3. BrokenInv'
    BY <1>1, <2>2, WholeStays DEF Broken
  <2>4. CASE z = x
    <3>1. Fresh(starts[s])' /\ OwnImport(starts[s])'
      BY <1>4, <1>12, <2>4 DEF Fresh, OwnImport, Resuming, Locking, Quarantining, Undoing
    <3> QED
      BY <1>1, <1>4, <1>12, <1>13, <2>1, <2>3, <2>4, <3>1, BuildsOwn
  <2>5. CASE z \in {w, done, v}
    <3>1. /\ z.wrote = r.wrote /\ z.upgraded = r.upgraded /\ z.imports = r.imports
          /\ z.pc \in {"rollback", "scrub"} /\ (z.pc = "rollback" => z.failed)
      BY <1>4, <1>5, <1>6, <2>5
    <3>2. WroteReg(starts[s])'
      BY <1>1, <1>9, <1>12, <2>1, <3>1 DEF WroteReg
    <3>3. Known(starts[s])' /\ \A ch \in z.scrubbed : ch[2] # "scrubbed"
      <4>1. CASE z = w /\ sources' \in {sources, forgets}
        <5>1. \A y \in Sources : sources'[y] = "scrubbed" => sources[y] = "scrubbed"
          BY <1>1, <4>1
        <5> QED
          BY <1>4, <1>12, <2>1, <4>1, <5>1 DEF Known
      <4>2. CASE z \in {done, v} /\ k \in r.todo /\ sources' = [sources EXCEPT ![k] = "scrubbed"]
        <5>1. z.scrubbed = r.scrubbed \union {change} /\ change[1] = k /\ change[2] # "scrubbed"
          BY <1>5, <1>6, <2>1, <4>2
        <5>2. \A y \in Sources : sources'[y] = "scrubbed" => y = k \/ sources[y] = "scrubbed"
          BY <1>1, <4>2
        <5>3. \A y \in Sources : sources'[y] = "scrubbed" => \E ch \in z.scrubbed : ch[1] = y
          BY <2>1, <5>1, <5>2 DEF Known
        <5> QED
          BY <1>12, <2>1, <5>1, <5>3 DEF Known
      <4>3. x.pc # "rollback" /\ x.pc # "scrub"
        BY <1>4
      <4> QED
        BY <1>8, <3>1, <4>1, <4>2, <4>3
    <3>4. z.pc = "scrub" => \A y \in z.todo : y \in Sources /\ sources'[y] # "scrubbed"
      <4>1. ASSUME z.pc = "scrub" PROVE z = done
        BY <1>4, <1>6, <2>5, <4>1
      <4>2. CASE z = done
        <5>1. sources' \in {sources, forgets, [sources EXCEPT ![k] = "scrubbed"]}
          BY <1>8
        <5> QED
          BY <1>1, <1>5, <2>1, <4>2, <5>1
      <4> QED
        BY <4>1, <4>2
    <3>5. Fresh(starts[s])'
      BY <1>12, <2>1, <3>1, <3>3 DEF Fresh, Resuming, Locking, Quarantining, Undoing
    <3>6. OwnImport(starts[s])'
      BY <1>12, <2>1, <3>1, <3>2, <3>3, <3>4 DEF OwnImport
    <3> QED
      BY <1>1, <1>9, <1>12, <1>13, <2>1, <2>3, <3>1, <3>5, <3>6, BuildsOwn DEF Importing, Undoing
  <2> QED
    BY <1>8, <2>4, <2>5
<1>14. ~raced =>
         /\ Own(s)' /\ BrokenInv'
         /\ (files'["registry"].kind = "absent" => files'["registry"] = Absent)
         /\ (files'["registry"].kind # "current" => files'["registry"].of = {})
  BY <1>1, <1>13 DEF FileInv
<1> QED
  BY <1>1, <1>12, <1>14, BuildsGood

LEMMA ActivityGood == ASSUME IInv, NEW s \in Slots, Activity(s) PROVE Good(s)
<1> DEFINE r == starts[s]
           q == starts'[s]
           x == [r EXCEPT !.pc = "stuck"]
           y == [r EXCEPT !.pc = "release1"]
<1>1. /\ r.pc = "activity" /\ r.claim = Absent /\ DOMAIN r = Fields /\ Nothing /\ UNCHANGED Data
      /\ DOMAIN files' = Names /\ DOMAIN sources' = Sources /\ r.pc # "idle" /\ r.pc \notin Past
  BY DEF Activity, At, IInv, Ids, Shapes, Removing, Data, Nothing, Past
<1>2. /\ Fault \/ NoFault
      /\ Step(s, x) \/ (Step(s, y) /\ ~(r.failed /\ r.keep))
  BY DEF Activity
<1>3. /\ DOMAIN x = Fields /\ x.pc = "stuck" /\ x.id = r.id /\ x.claim = Absent
      /\ DOMAIN y = Fields /\ y.pc = "release1" /\ y.id = r.id /\ y.claim = Absent
  BY <1>1 DEF Fields
<1> HIDE DEF x, y
<1>4. PICK z \in {x, y} : Step(s, z) /\ (r.failed /\ r.keep => z = x)
  BY <1>2
<1>5. z.pc \in Pcs \ {"idle"} /\ z.pc \in Past /\ z.pc \notin Resuming /\ Unclaimed(z)
  BY <1>3, <1>4 DEF Pcs, Past, Resuming, Unclaimed
<1>6. Formed(s) /\ q = z
  BY <1>1, <1>2, <1>3, <1>4, <1>5, Forms
<1>7. Own(s)'
  BY <1>5, <1>6, PastOwn
<1>8. Keeps(s)
  BY <1>1, <1>3, <1>4, <1>5, <1>6 DEF Keeps, Excused
<1> QED
  BY <1>1, <1>6, <1>7, <1>8, QuietGood

\* The parts of a rollback: the upgraded registry, a scrubbed source, the decision what is next.
LEMMA RollbackUpgrade ==
  ASSUME IInv, NEW s \in Slots, At(s, "rollback"), starts[s].upgraded, UNCHANGED <<Data, raced>>,
         NEW replaced \in BOOLEAN, NEW failed \in BOOLEAN, Fault \/ NoFault,
         IF replaced THEN Put("registry", File(starts[s].id, "old", {})) ELSE UNCHANGED files,
         Step(s, [starts[s] EXCEPT !.upgraded = FALSE, !.keep = @ \/ failed])
  PROVE  Good(s)
<1> DEFINE r == starts[s]
           q == starts'[s]
           x == [r EXCEPT !.upgraded = FALSE, !.keep = @ \/ failed]
           f == File(r.id, "old", {})
<1>1. /\ r.pc = "rollback" /\ r.claim = Absent /\ DOMAIN r = Fields
      /\ DOMAIN files = Names /\ DOMAIN sources' = Sources
      /\ r.pc \in Holding /\ r.pc \in Quiet /\ r.pc \notin Past /\ r.pc # "idle"
  BY DEF At, IInv, Ids, Shapes, Removing, Data, Holding, Undoing, Quiet, Past
<1>2. /\ DOMAIN x = Fields /\ x.pc = "rollback" /\ x.id = r.id /\ x.claim = Absent /\ ~x.upgraded
      /\ x.wrote = r.wrote /\ x.imports = r.imports /\ x.scrubbed = r.scrubbed /\ x.failed = r.failed
  BY <1>1 DEF Fields
<1>3. x.pc \in Pcs \ {"idle"} /\ Unclaimed(x)
  BY <1>2 DEF Pcs, Holding, Undoing, Unclaimed
<1>4. files' = files \/ files' = [files EXCEPT !["registry"] = f]
  BY DEF Put
<1>5. /\ DOMAIN files' = Names /\ \A n \in Names \ {"registry"} : files'[n] = files[n]
      /\ files'["registry"] \in {files["registry"], f}
  BY <1>1, <1>4 DEF Names
<1> HIDE DEF x
<1>6. Step(s, x)
  BY DEF x
<1>7. Formed(s) /\ q = x
  BY <1>1, <1>2, <1>3, <1>5, <1>6, Forms
<1>8. f.of = {} /\ f.kind = "old"
  BY DEF File
<1>9. ASSUME ~raced
      PROVE  /\ Own(s)' /\ BrokenInv'
             /\ files'["registry"].kind = "absent" => files'["registry"] = Absent
             /\ files'["registry"].kind # "current" => files'["registry"].of = {}
  <2>1. /\ ~Scrubbed /\ ~r.wrote /\ r.imports = {} /\ FileInv /\ r.failed
        /\ \A ch \in r.scrubbed : ch[2] # "scrubbed"
    BY <1>1, <1>9 DEF IInv, Own, OwnImport, Fresh, Undoing
  <2>2. ~Broken
    BY <1>1, <1>9, HolderWhole DEF Excused
  <2>3. ~Scrubbed' /\ credentials' = credentials
    BY <2>1 DEF Scrubbed, Data
  <2>4. BrokenInv'
    BY <1>5, <1>8, <2>2, <2>3, WholeStays DEF Broken
  <2>5. Fresh(starts[s])'
    BY <1>2, <1>7, <2>1 DEF Fresh, Resuming, Locking, Quarantining, Undoing
  <2>6. OwnImport(starts[s])'
    BY <1>2, <1>7, <2>1 DEF OwnImport, Apart
  <2>7. \A l \in Locks \union {"journal"} : files'[l] = files[l]
    BY <1>5 DEF Names, Locks
  <2>8. Own(s)'
    BY <1>1, <1>2, <1>7, <1>9, <2>5, <2>6, <2>7, BuildsOwn DEF Undoing
  <2> QED
    BY <1>5, <1>8, <2>1, <2>4, <2>8 DEF FileInv
<1> QED
  BY <1>1, <1>5, <1>7, <1>9, BuildsGood

LEMMA RollbackSource ==
  ASSUME IInv, NEW s \in Slots, At(s, "rollback"), ~starts[s].upgraded,
         UNCHANGED <<files, credentials, raced>>, NEW change \in starts[s].scrubbed,
         NEW replaced \in BOOLEAN, NEW failed \in BOOLEAN, Fault \/ NoFault, replaced \/ failed,
         IF replaced THEN sources' = [sources EXCEPT ![change[1]] = change[2]]
                     ELSE UNCHANGED sources,
         Step(s, [starts[s] EXCEPT !.scrubbed = @ \ {change}, !.keep = @ \/ failed])
  PROVE  Good(s)
<1> DEFINE r == starts[s]
           q == starts'[s]
           x == [r EXCEPT !.scrubbed = @ \ {change}, !.keep = @ \/ failed]
<1>1. /\ r.pc = "rollback" /\ r.claim = Absent /\ DOMAIN r = Fields /\ files' = files
      /\ DOMAIN files' = Names /\ DOMAIN sources' = Sources /\ DOMAIN sources = Sources
      /\ r.pc \in Holding /\ r.pc \in Quiet /\ r.pc \notin Past /\ r.pc # "idle"
  BY DEF At, IInv, Ids, Shapes, Removing, Holding, Undoing, Quiet, Past
<1>2. /\ DOMAIN x = Fields /\ x.pc = "rollback" /\ x.id = r.id /\ x.claim = Absent
      /\ x.upgraded = r.upgraded /\ x.wrote = r.wrote /\ x.imports = r.imports
      /\ x.scrubbed = r.scrubbed \ {change} /\ x.failed = r.failed /\ (r.keep \/ failed => x.keep)
  BY <1>1 DEF Fields
<1>3. x.pc \in Pcs \ {"idle"} /\ Unclaimed(x)
  BY <1>2 DEF Pcs, Holding, Undoing, Unclaimed
<1> HIDE DEF x
<1>4. Step(s, x)
  BY DEF x
<1>5. Formed(s) /\ q = x
  BY <1>1, <1>2, <1>3, <1>4, Forms
<1>6. ASSUME ~raced PROVE Own(s)' /\ BrokenInv' /\ FileInv
  <2>1. /\ r.wrote => WroteReg(r) /\ (r.keep \/ Known(r))
        /\ ~r.wrote => Apart(r)
        /\ FileInv /\ r.failed
        /\ \A ch \in r.scrubbed : ch[2] # "scrubbed"
    BY <1>1, <1>6 DEF IInv, Own, OwnImport, Fresh, Undoing
  <2>2. ~Broken
    BY <1>1, <1>6, HolderWhole DEF Excused
  <2>3. \A y \in Sources : sources'[y] = "scrubbed" => sources[y] = "scrubbed" /\ (failed \/ y # change[1])
    BY <1>1, <2>1
  <2>4. BrokenInv'
    BY <1>1, <2>2, <2>3, WholeStays DEF Broken, Scrubbed
  <2>5. Fresh(starts[s])'
    BY <1>2, <1>5, <2>1 DEF Fresh, Resuming, Locking, Quarantining, Undoing
  <2>6. r.wrote => WroteReg(starts[s])'
    BY <1>1, <1>2, <1>5, <2>1 DEF WroteReg
  <2>7. ~r.wrote => Apart(starts[s])'
    BY <1>1, <1>2, <1>5, <2>1 DEF Apart
  <2>8. Known(r) => x.keep \/ Known(starts[s])'
    BY <1>2, <1>5, <2>3 DEF Known
  <2>9. OwnImport(starts[s])'
    BY <1>2, <1>5, <2>1, <2>6, <2>7, <2>8 DEF OwnImport
  <2> QED
    BY <1>1, <1>2, <1>5, <1>6, <2>1, <2>4, <2>5, <2>9, BuildsOwn DEF Undoing
<1>7. ~raced =>
         /\ Own(s)' /\ BrokenInv'
         /\ (files'["registry"].kind = "absent" => files'["registry"] = Absent)
         /\ (files'["registry"].kind # "current" => files'["registry"].of = {})
  BY <1>1, <1>6 DEF FileInv
<1> QED
  BY <1>1, <1>5, <1>7, BuildsGood

LEMMA RollbackNext ==
  ASSUME IInv, NEW s \in Slots, At(s, "rollback"), ~starts[s].upgraded, starts[s].scrubbed = {},
         NEW pc, Goto(s, pc), UNCHANGED <<files, Data, used>>,
         \/ pc = "rollbackCredentials" /\ ~starts[s].wrote
         \/ pc = "rollbackRegistry" /\ starts[s].wrote
  PROVE  Good(s)
<1> DEFINE r == starts[s]
           q == starts'[s]
           x == [r EXCEPT !.pc = pc]
<1>1. /\ r.pc = "rollback" /\ r.claim = Absent /\ DOMAIN r = Fields /\ Nothing /\ UNCHANGED Data
      /\ DOMAIN files' = Names /\ DOMAIN sources' = Sources
      /\ r.pc \in Holding /\ r.pc \in Quiet /\ r.pc \notin Past /\ r.pc # "idle"
  BY DEF At, IInv, Ids, Shapes, Removing, Data, Nothing, Holding, Undoing, Quiet, Past
<1>2. /\ DOMAIN x = Fields /\ x.pc = pc /\ x.id = r.id /\ x.claim = Absent /\ x.keep = r.keep
      /\ x.wrote = r.wrote /\ x.imports = r.imports /\ x.failed = r.failed
  BY <1>1 DEF Fields
<1>3. x.pc \in Pcs \ {"idle"} /\ Unclaimed(x) /\ x.pc \notin Resuming /\ x.pc \in Undoing
  BY <1>2 DEF Pcs, Holding, Undoing, Unclaimed, Resuming
<1> HIDE DEF x
<1>4. Step(s, x) /\ (Fault \/ NoFault)
  BY DEF x, Goto, NoFault
<1>5. Formed(s) /\ q = x
  BY <1>1, <1>2, <1>3, <1>4, Forms
<1>6. ASSUME ~raced PROVE Own(s)'
  <2>1. /\ r.wrote => WroteReg(r) /\ (r.keep \/ Known(r))
        /\ ~r.wrote => Apart(r)
        /\ r.failed
    BY <1>1, <1>6 DEF IInv, Own, OwnImport, Fresh, Undoing
  <2>2. ~Broken
    BY <1>1, <1>6, HolderWhole DEF Excused
  <2>3. files' = files /\ sources' = sources /\ credentials' = credentials
    BY <1>1 DEF Nothing, Data
  <2>4. ~Broken' /\ (Scrubbed' => Scrubbed)
    BY <2>2, <2>3 DEF Broken, Scrubbed
  <2>5. Fresh(starts[s])'
    BY <1>2, <1>5, <2>1 DEF Fresh, Resuming, Locking, Quarantining, Undoing
  <2>6. r.wrote => WroteReg(starts[s])'
    BY <1>2, <1>5, <2>1, <2>3 DEF WroteReg
  <2>7. ~r.wrote => Apart(starts[s])'
    BY <1>2, <1>5, <2>1, <2>3 DEF Apart
  <2>8. Known(r) => ~Scrubbed
    BY DEF Known, Scrubbed
  <2>9. OwnImport(starts[s])'
    BY <1>2, <1>5, <2>1, <2>4, <2>6, <2>7, <2>8 DEF OwnImport
  <2> QED
    BY <1>1, <1>2, <1>3, <1>5, <1>6, <2>3, <2>5, <2>9, BuildsOwn
<1> QED
  BY <1>1, <1>2, <1>3, <1>5, <1>6, LooksGood DEF Excused

LEMMA RollbackGood == ASSUME IInv, NEW s \in Slots, Rollback(s) PROVE Good(s)
<1> DEFINE r == starts[s]
<1>1. At(s, "rollback") /\ UNCHANGED raced
  BY DEF Rollback
<1>2. CASE r.upgraded
  <2>1. PICK replaced, failed \in BOOLEAN :
          /\ Fault \/ NoFault
          /\ IF replaced THEN Put("registry", File(r.id, "old", {})) ELSE UNCHANGED files
          /\ Step(s, [r EXCEPT !.upgraded = FALSE, !.keep = @ \/ failed])
    BY <1>2 DEF Rollback, ReplaceFile
  <2>2. UNCHANGED <<Data, raced>>
    BY <1>1, <1>2 DEF Rollback
  <2> QED
    BY <1>1, <1>2, <2>1, <2>2, RollbackUpgrade
<1>3. CASE ~r.upgraded /\ r.scrubbed # {}
  <2>1. PICK change \in r.scrubbed, replaced \in BOOLEAN, failed \in BOOLEAN :
          /\ Fault \/ NoFault
          /\ replaced \/ failed
          /\ IF replaced THEN sources' = [sources EXCEPT ![change[1]] = change[2]]
                         ELSE UNCHANGED sources
          /\ Step(s, [r EXCEPT !.scrubbed = @ \ {change}, !.keep = @ \/ failed])
    BY <1>3 DEF Rollback, ReplaceFile
  <2>2. UNCHANGED <<files, credentials, raced>>
    BY <1>1, <1>3 DEF Rollback
  <2> QED
    BY <1>1, <1>3, <2>1, <2>2, RollbackSource
<1>4. CASE ~r.upgraded /\ r.scrubbed = {}
  BY <1>1, <1>4, RollbackNext DEF Rollback
<1> QED
  BY <1>2, <1>3, <1>4

LEMMA RollbackRegistryGood == ASSUME IInv, NEW s \in Slots, RollbackRegistry(s) PROVE Good(s)
<1> DEFINE r == starts[s]
           q == starts'[s]
           f == File(r.id, "current", r.imports)
           ok == [r EXCEPT !.pc = "rollbackCredentials"]
           bad == [r EXCEPT !.pc = "rollbackCredentials", !.keep = TRUE]
           x == [r EXCEPT !.claim = f]
           y == [ok EXCEPT !.claim = Absent]
<1>1. /\ r.pc = "rollbackRegistry" /\ r.pc \in Removing /\ DOMAIN r = Fields
      /\ DOMAIN files = Names /\ r.pc \in Holding /\ r.pc \in Quiet
      /\ r.pc \notin Past /\ r.pc \notin Resuming
  BY DEF RollbackRegistry, At, IInv, Ids, Shapes, Removing, Holding, Undoing, Quiet, Past, Resuming
<1>2. /\ DOMAIN ok = Fields /\ ok.pc = "rollbackCredentials" /\ ok.id = r.id /\ ok.imports = r.imports
      /\ ok.keep = r.keep /\ ok.failed = r.failed
      /\ DOMAIN bad = Fields /\ bad.pc = "rollbackCredentials" /\ bad.id = r.id
      /\ bad.claim = r.claim /\ bad.keep /\ bad.failed = r.failed
      /\ x.pc = r.pc /\ x.id = r.id /\ x.claim = f /\ x.imports = r.imports /\ x.keep = r.keep
      /\ x.failed = r.failed
  BY <1>1 DEF Fields
<1> HIDE DEF ok, bad, x
<1>3. y.pc = ok.pc /\ y.id = r.id /\ y.imports = r.imports /\ y.keep = r.keep /\ y.failed = r.failed
  BY <1>2 DEF Fields
<1> HIDE DEF y
<1>4. Remove(s, "registry", f, ok, bad) /\ "registry" \in Names /\ "registry" \notin Locks
  BY DEF RollbackRegistry, ok, bad, Names, Locks
<1>5. ok.pc \in Pcs \ {"idle"} /\ bad.pc \in Pcs \ {"idle"} /\ bad.pc \notin Resuming
  BY <1>2 DEF Pcs, Holding, Undoing, Resuming
<1>6. Formed(s) /\ UNCHANGED Data
  BY <1>1, <1>2, <1>4, <1>5, RemoveForms
<1>7. f.kind = "current" /\ f # Absent /\ Absent.of = {} /\ Absent.kind = "absent"
  BY DEF File, Absent
<1>8. ~raced' => \/ /\ r.claim = Absent /\ files["registry"] = f
                    /\ files' = [files EXCEPT !["registry"] = Absent] /\ q = x
                 \/ r.claim = Absent /\ files' = files /\ q = bad
                 \/ r.claim # Absent /\ files' = files /\ q = y
  <2> HIDE DEF f
  <2> QED
    BY <1>4, RemoveIs DEF x, y
<1>9. \A n \in Names \ {"registry"} : files'[n] = files[n]
  BY <1>1, <1>4 DEF Remove, Put
<1>10. ASSUME ~raced, ~raced'
       PROVE  /\ Own(s)' /\ BrokenInv'
              /\ files'["registry"].kind = "absent" => files'["registry"] = Absent
              /\ files'["registry"].kind # "current" => files'["registry"].of = {}
  <2>1. /\ Scrubbed => r.keep
        /\ IF r.claim = Absent THEN WroteReg(r) ELSE files["registry"] = Absent
        /\ r.failed /\ FileInv
    BY <1>1, <1>10 DEF IInv, Own, OwnImport, Fresh, Undoing
  <2>2. /\ files'["registry"] \in {f, Absent}
        /\ q.pc \in {"rollbackRegistry", "rollbackCredentials"} /\ q.id = r.id /\ q.failed
    BY <1>1, <1>2, <1>3, <1>8, <1>10, <2>1 DEF WroteReg, Names
  <2>3. ~Invalid(files'["registry"])
    BY <1>7, <2>2 DEF Invalid
  <2>4. q.pc \notin Resuming /\ Excused(q) /\ q.pc \in Undoing
    BY <2>2 DEF Resuming, Excused, Undoing
  <2>5. BrokenInv'
    BY <1>1, <1>6, <1>9, <1>10, <2>2, <2>3, <2>4, BreaksInv
  <2>6. Fresh(starts[s])'
    BY <2>2 DEF Fresh, Resuming, Locking, Quarantining, Undoing
  <2>7. (Scrubbed' => Scrubbed) /\ credentials' = credentials
    BY <1>6 DEF Scrubbed, Data
  <2>8. OwnImport(starts[s])'
    <3>1. CASE q = x /\ files' = [files EXCEPT !["registry"] = Absent]
      <4>1. files'["registry"] = Absent
        BY <1>1, <3>1 DEF Names
      <4> QED
        BY <1>1, <1>2, <1>7, <2>1, <2>7, <3>1, <4>1 DEF OwnImport
    <3>2. CASE q = bad
      BY <1>2, <3>2 DEF OwnImport
    <3>3. CASE q = y /\ r.claim # Absent /\ files' = files
      <4>1. files'["registry"] = Absent
        BY <2>1, <3>3
      <4>2. Apart(starts[s])' /\ (Broken' => q.keep)
        BY <1>3, <1>7, <2>1, <2>7, <3>3, <4>1 DEF Apart, Broken
      <4> QED
        BY <1>2, <1>3, <3>3, <4>2 DEF OwnImport
    <3> QED
      BY <1>8, <1>10, <3>1, <3>2, <3>3
  <2>9. \A l \in Locks \union {"journal"} : files'[l] = files[l]
    BY <1>9 DEF Names, Locks
  <2>10. Own(s)'
    BY <1>1, <1>10, <2>2, <2>4, <2>6, <2>8, <2>9, BuildsOwn
  <2> QED
    BY <1>7, <2>2, <2>5, <2>10
<1> QED
  BY <1>1, <1>6, <1>9, <1>10, BuildsGood

LEMMA RollbackCredentialGood == ASSUME IInv, NEW s \in Slots, RollbackCredential(s) PROVE Good(s)
<1> DEFINE r == starts[s]
           q == starts'[s]
<1>1. /\ r.pc = "rollbackCredentials" /\ r.claim = Absent /\ DOMAIN r = Fields /\ files' = files
      /\ sources' = sources /\ DOMAIN files' = Names /\ DOMAIN sources' = Sources
      /\ r.pc \in Holding /\ r.pc \in Quiet /\ r.pc \notin Past /\ r.pc # "idle"
  BY DEF RollbackCredential, At, IInv, Ids, Shapes, Removing, Holding, Undoing, Quiet, Past
<1>2. PICK ref :
        /\ Fault \/ NoFault
        /\ \/ Step(s, [r EXCEPT !.pc = "activity"]) /\ credentials' = credentials
           \/ /\ ref \in r.imports /\ credentials' = credentials \ {ref}
              /\ Step(s, [r EXCEPT !.imports = @ \ {ref}])
           \/ credentials' = credentials /\ Step(s, [r EXCEPT !.imports = @ \ {ref}, !.keep = TRUE])
  BY DEF RollbackCredential, Goto, NoFault
<1> DEFINE x == [r EXCEPT !.pc = "activity"]
           y == [r EXCEPT !.imports = @ \ {ref}]
           w == [r EXCEPT !.imports = @ \ {ref}, !.keep = TRUE]
<1>3. /\ DOMAIN x = Fields /\ x.pc = "activity" /\ x.id = r.id /\ x.claim = Absent /\ x.keep = r.keep
      /\ x.failed = r.failed
      /\ DOMAIN y = Fields /\ y.pc = r.pc /\ y.id = r.id /\ y.claim = Absent /\ y.keep = r.keep
      /\ y.failed = r.failed /\ y.imports = r.imports \ {ref}
      /\ DOMAIN w = Fields /\ w.pc = r.pc /\ w.id = r.id /\ w.claim = Absent /\ w.keep
      /\ w.failed = r.failed
  BY <1>1 DEF Fields
<1> HIDE DEF x, y, w
<1>4. PICK z \in {x, y, w} :
        /\ Step(s, z)
        /\ \/ z \in {x, w} /\ credentials' = credentials
           \/ z = y /\ ref \in r.imports /\ credentials' = credentials \ {ref}
  BY <1>2 DEF x, y, w
<1>5. /\ DOMAIN z = Fields /\ z.pc \in {"activity", "rollbackCredentials"} /\ z.id = r.id
      /\ z.claim = Absent /\ z.failed = r.failed
  BY <1>1, <1>3, <1>4
<1>6. z.pc \in Pcs \ {"idle"} /\ Unclaimed(z) /\ z.pc \notin Resuming
  BY <1>5 DEF Pcs, Holding, Undoing, Unclaimed, Resuming
<1>7. Formed(s) /\ q = z
  BY <1>1, <1>2, <1>4, <1>5, <1>6, Forms
<1>8. ASSUME ~raced PROVE Own(s)' /\ BrokenInv' /\ FileInv
  <2>1. /\ Broken => r.keep
        /\ r.keep \/ Apart(r)
        /\ r.failed /\ FileInv
    BY <1>1, <1>8 DEF IInv, Own, OwnImport, Fresh, Undoing
  <2>2. Scrubbed' <=> Scrubbed
    BY <1>1 DEF Scrubbed
  <2>3. Apart(r) => (Broken' => Broken)
    BY <1>1, <1>4, <2>2 DEF Apart, Broken
  <2>4. Broken' => r.keep
    BY <2>1, <2>3
  <2>5. r.keep => z.keep
    BY <1>3, <1>4
  <2>6. Broken' => ~Invalid(files'["registry"])
    <3>1. CASE Broken
      BY <1>1, <1>8, <3>1 DEF IInv, BrokenInv
    <3>2. CASE ~Broken /\ Broken'
      <4>1. files["registry"].of # {}
        BY <1>1, <2>2, <3>2 DEF Broken
      <4> QED
        BY <1>1, <2>1, <4>1 DEF FileInv, Invalid
    <3> QED
      BY <3>1, <3>2
  <2>7. Broken' => Excused(q)
    BY <1>5, <1>7, <2>1, <2>4, <2>5 DEF Excused
  <2>8. BrokenInv'
    BY <1>1, <1>5, <1>6, <1>7, <1>8, <2>6, <2>7, BreaksInv
  <2>9. Fresh(starts[s])'
    BY <1>5, <1>7, <2>1 DEF Fresh, Resuming, Locking, Quarantining, Undoing
  <2>10. z.pc = "rollbackCredentials" => z.keep \/ Apart(starts[s])'
    <3>1. CASE z = x
      BY <1>3, <3>1
    <3>2. CASE z = y
      BY <1>1, <1>3, <1>7, <2>1, <3>2 DEF Apart
    <3>3. CASE z = w
      BY <1>3, <3>3
    <3> QED
      BY <1>4, <3>1, <3>2, <3>3
  <2>11. OwnImport(starts[s])'
    BY <1>5, <1>7, <2>4, <2>5, <2>10 DEF OwnImport
  <2> QED
    BY <1>1, <1>5, <1>7, <1>8, <2>1, <2>8, <2>9, <2>11, BuildsOwn DEF Undoing
<1>9. ~raced =>
         /\ Own(s)' /\ BrokenInv'
         /\ (files'["registry"].kind = "absent" => files'["registry"] = Absent)
         /\ (files'["registry"].kind # "current" => files'["registry"].of = {})
  BY <1>1, <1>8 DEF FileInv
<1> QED
  BY <1>1, <1>7, <1>9, BuildsGood

------------------------
(* The invariant. *)

LEMMA InitIInv == ASSUME Init PROVE IInv
<1>1. /\ DOMAIN files = Names /\ DOMAIN sources = Sources /\ \A s \in Slots : starts[s] = Idle
      /\ DOMAIN starts = Slots /\ used = [starts |-> 0, faults |-> 0, deaths |-> 0]
  BY DEF Init
<1>2. Shapes
  BY <1>1, IdleShape DEF Shapes
<1>3. Ids
  BY <1>1, IdleShape DEF Ids, Unclaimed, Removing
<1>4. \A l \in Locks \union {"journal", "marker"} : files[l] = Absent
  BY DEF Init, Names, Locks
<1>5. /\ files["registry"].kind = "absent" => files["registry"] = Absent
      /\ files["registry"].of = {}
  <2>1. files["registry"] \in {Absent, File(0, "bad", {}), File(0, "old", {}), File(0, "current", {})}
    BY DEF Init, Names
  <2> QED
    BY <2>1 DEF File, Absent
<1>6. FileInv /\ JournalInv
  BY <1>4, <1>5 DEF FileInv, JournalInv
<1>7. ~Scrubbed
  BY DEF Init, Scrubbed
<1>8. BrokenInv
  BY <1>5, <1>7 DEF BrokenInv, Broken
<1>9. ASSUME NEW s \in Slots PROVE Own(s)
  <2>1. starts[s].pc = "idle"
    BY <1>1, IdleShape
  <2>2. OwnLocks(starts[s]) /\ OwnJournal(starts[s])
    BY <2>1 DEF OwnLocks, OwnJournal, Holding, Quarantining, Importing, Undoing, Quiet, Resuming
  <2>3. SeenInv(starts[s]) /\ Fresh(starts[s]) /\ OwnImport(starts[s])
    BY <2>1 DEF SeenInv, Fresh, OwnImport, Resuming, Locking, Quarantining, Undoing
  <2> QED
    BY <2>2, <2>3 DEF Own
<1> QED
  BY <1>2, <1>3, <1>6, <1>8, <1>9 DEF IInv

\* Every step of a start is good.
LEMMA StepGood == ASSUME IInv, NEW s \in Slots, MigrationStep(s) \/ Die(s) PROVE Good(s)
<1>1. ResumeCanonical(s) \/ ResumeRegistryLock(s) \/ ResumeMigrationLock(s) \/ ResumeJournal(s) => Good(s)
  BY ResumeGood DEF ResumeCanonical, ResumeRegistryLock, ResumeMigrationLock, ResumeJournal
<1>2. Start(s) \/ ResumeVerify(s) \/ ResumeFails(s) \/ End(s) \/ Die(s) => Good(s)
  BY StartGood, ResumeVerifyGood, EndGood, DieGood
<1>3. CreateLock(s, "lock", "migrationLock", "token1") \/ WriteToken(s, "token1", "migrationLock") => Good(s)
  BY CreateLockGood, WriteTokenGood
<1>4. CreateLock(s, "lock2", "registryLock", "token2") \/ WriteToken(s, "token2", "registryLock") => Good(s)
  BY CreateLockGood, WriteTokenGood
<1>5. Inspect(s) \/ CreateJournal(s) \/ WriteJournal(s) \/ Link(s) \/ Unprepare(s) => Good(s)
  BY InspectGood, CreateJournalGood, WriteJournalGood, LinkGood, UnprepareGood
<1>6. MarkLinked(s) \/ ReleaseCanonical(s) \/ MarkReleased(s) => Good(s)
  BY MarksGood, ReleaseCanonicalGood
<1>7. Upgrade(s) \/ VerifyUpgrade(s) \/ ReadSources(s) \/ SetCredential(s) => Good(s)
  BY UpgradeGood, VerifyGood, ReadSourcesGood, SetCredentialGood
<1>8. CreateRegistry(s) \/ WriteRegistry(s) \/ VerifyRegistry(s) \/ Scrub(s) => Good(s)
  BY CreateRegistryGood, WriteRegistryGood, VerifyGood, ScrubGood
<1>9. Rollback(s) \/ RollbackRegistry(s) \/ RollbackCredential(s) \/ Activity(s) => Good(s)
  BY RollbackGood, RollbackRegistryGood, RollbackCredentialGood, ActivityGood
<1>10. ReleaseRegistryLock(s) \/ ReleaseMigrationLock(s) \/ RemoveJournal(s) => Good(s)
  BY ReleaseRegistryLockGood, ReleaseMigrationLockGood, RemoveJournalGood
<1> QED
  BY <1>1, <1>2, <1>3, <1>4, <1>5, <1>6, <1>7, <1>8, <1>9, <1>10 DEF MigrationStep

\* What went wrong between two starts stays on record.
LEMMA RacedStays == ASSUME raced, NEW s \in Slots, MigrationStep(s) \/ Die(s) PROVE raced'
<1>1. ASSUME NEW n, NEW e, NEW ok, NEW bad, Remove(s, n, e, ok, bad) PROVE raced'
  BY <1>1 DEF Remove
<1>2. ResumeCanonical(s) \/ ResumeRegistryLock(s) \/ ResumeMigrationLock(s) \/ ResumeJournal(s) => raced'
  BY <1>1 DEF ResumeCanonical, ResumeRegistryLock, ResumeMigrationLock, ResumeJournal, Resume
<1>3. Start(s) \/ ResumeVerify(s) \/ ResumeFails(s) \/ End(s) \/ Die(s) => raced'
  BY DEF Start, ResumeVerify, ResumeFails, End, Die, Over
<1>4. ASSUME NEW pc, NEW l, NEW t, CreateLock(s, pc, l, t) PROVE raced'
  BY <1>4 DEF CreateLock, Over
<1>5. ASSUME NEW pc, NEW l, WriteToken(s, pc, l) PROVE raced'
  BY <1>5 DEF WriteToken, Over
<1>6. Inspect(s) \/ CreateJournal(s) \/ WriteJournal(s) \/ Link(s) \/ Unprepare(s) => raced'
  BY <1>1 DEF Inspect, CreateJournal, WriteJournal, Link, Unprepare
<1>7. MarkLinked(s) \/ ReleaseCanonical(s) \/ MarkReleased(s) => raced'
  BY <1>1 DEF MarkLinked, Mark, ReleaseCanonical, MarkReleased
<1>8. Upgrade(s) \/ VerifyUpgrade(s) \/ ReadSources(s) \/ SetCredential(s) => raced'
  BY DEF Upgrade, VerifyUpgrade, Verify, ReadSources, SetCredential
<1>9. CreateRegistry(s) \/ WriteRegistry(s) \/ VerifyRegistry(s) \/ Scrub(s) => raced'
  BY DEF CreateRegistry, WriteRegistry, VerifyRegistry, Verify, Scrub
<1>10. Rollback(s) \/ RollbackRegistry(s) \/ RollbackCredential(s) \/ Activity(s) => raced'
  BY <1>1 DEF Rollback, RollbackRegistry, RollbackCredential, Activity
<1>11. ReleaseRegistryLock(s) \/ ReleaseMigrationLock(s) \/ RemoveJournal(s) => raced'
  BY <1>1 DEF ReleaseRegistryLock, ReleaseMigrationLock, RemoveJournal, ReleaseLock
<1> QED
  BY <1>2, <1>3, <1>4, <1>5, <1>6, <1>7, <1>8, <1>9, <1>10, <1>11 DEF MigrationStep

LEMMA StepIInv == ASSUME IInv, [Next]_migrationVars PROVE IInv'
<1>1. CASE UNCHANGED migrationVars
  <2>1. /\ files' = files /\ sources' = sources /\ credentials' = credentials /\ starts' = starts
        /\ used' = used /\ raced' = raced
    BY <1>1 DEF migrationVars
  <2>2. Shapes' /\ Ids'
    BY <2>1 DEF IInv, Shapes, Ids, Unclaimed
  <2>3. ~raced => FileInv' /\ JournalInv' /\ BrokenInv'
    BY <2>1 DEF IInv, FileInv, JournalInv, BrokenInv, Broken, Scrubbed
  <2>4. ASSUME ~raced, NEW s \in Slots PROVE Own(s)'
    <3>1. Own(s) /\ starts'[s] = starts[s]
      BY <2>1, <2>4 DEF IInv
    <3>2. OwnLocks(starts[s])' /\ OwnJournal(starts[s])'
      BY <2>1, <3>1 DEF Own, OwnLocks, OwnJournal
    <3>3. SeenInv(starts[s])'
      BY <2>1, <3>1 DEF Own, SeenInv, Alive
    <3>4. Fresh(starts[s])' /\ OwnImport(starts[s])'
      BY <2>1, <3>1 DEF Own, Fresh, OwnImport, Broken, Scrubbed, WroteReg, Known, Apart
    <3> QED
      BY <3>2, <3>3, <3>4 DEF Own
  <2> QED
    BY <2>1, <2>2, <2>3, <2>4 DEF IInv
<1>2. CASE Next
  <2>1. PICK s \in Slots : MigrationStep(s) \/ Die(s)
    BY <1>2 DEF Next
  <2>2. Good(s)
    BY <2>1, StepGood
  <2>3. Shapes' /\ Ids'
    BY <2>2, FormedIds DEF Good
  <2>4. ASSUME ~raced'
        PROVE  FileInv' /\ JournalInv' /\ BrokenInv' /\ \A t \in Slots : Own(t)'
    <3>1. ~raced
      BY <2>1, <2>4, RacedStays
    <3>2. Deed(s) /\ Own(s)' /\ FileInv' /\ JournalInv' /\ BrokenInv'
      BY <2>2, <2>4, <3>1 DEF Good
    <3>3. \A t \in Slots \ {s} : Own(t)'
      BY <3>1, <3>2, OthersOwn
    <3> QED
      BY <3>2, <3>3
  <2> QED
    BY <2>3, <2>4 DEF IInv
<1> QED
  BY <1>1, <1>2

LEMMA WholeWhenUnlocked == ASSUME IInv PROVE UnlockedIsWhole
<1> SUFFICES ASSUME Unlocked, ~raced
             PROVE  /\ Scrubbed => files["registry"].kind = "current"
                    /\ files["registry"].of \subseteq credentials
  BY DEF UnlockedIsWhole, Scrubbed
<1>1. files["migrationLock"].by = 0
  BY DEF Unlocked, Locks, Absent, File
<1> QED
  BY <1>1 DEF IInv, BrokenInv, Broken

\* The locks there are are whole, of one start that is no more.
LEMMA ResumesQuarantine == ASSUME IInv PROVE QuarantineResumes
<1> DEFINE journal == files["journal"]
<1> SUFFICES ASSUME \A s \in Slots : starts[s] = Idle,
                    journal # Absent \/ Invalid(files["registry"]),
                    journal.kind # "torn", \A l \in Locks : files[l].kind # "torn",
                    ~(\E o, p \in Owners : o # p), ~raced
             PROVE  \/ Reading \in {"resumeCanonical", "resumeRegistry"}
                    \/ Reading = "lock" /\ Unlocked
  BY DEF QuarantineResumes
<1>1. \A n : ~Alive(n)
  BY IdleShape DEF Alive
<1>2. CASE journal = Absent
  BY <1>1, <1>2 DEF Reading, LeftoverReading
<1>3. CASE journal # Absent
  <2>1. /\ \A l \in Locks : files[l] \in {Absent, Lock(journal.by)}
        /\ \E f \in {files["registry"], files["marker"]} :
             /\ Invalid(f) /\ journal.of = {f}
             /\ files["registry"] \in {Absent, f} /\ files["marker"] \in {Absent, f}
             /\ files["marker"] = Absent => journal.kind = "prepared" /\ files["registry"] = f
    BY <1>3 DEF IInv, JournalInv
  <2>2. ~Invalid(Absent)
    BY DEF Invalid, Absent, File
  <2> QED
    BY <1>1, <1>3, <2>1, <2>2 DEF Reading, JournalReading
<1> QED
  BY <1>2, <1>3

\* The invariant holds in every state of a migration.
THEOREM Inductive == Spec => []IInv
<1>1. Init => IInv
  BY InitIInv
<1>2. IInv /\ [Next]_migrationVars => IInv'
  BY StepIInv
<1> QED
  BY <1>1, <1>2, PTL DEF Spec

\* migrateLegacyConfiguration: where no lock stops the next start, a legacy file is scrubbed
\* only under a registry that names its Providers, and the secrets of every Provider are stored.
\* A "forgotten" file, replaced by a start that does not know it (migration.mjs:1001), is none of these.
THEOREM ImportsAreWhole == Spec => []UnlockedIsWhole
BY Inductive, WholeWhenUnlocked, PTL

\* resumeInvalidRegistryQuarantine: whatever dead starts have left of putting an invalid registry
\* aside, the next start resumes it.
THEOREM QuarantinesResume == Spec => []QuarantineResumes
BY Inductive, ResumesQuarantine, PTL
==============================================================================
