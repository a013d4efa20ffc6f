----------------------------- MODULE MCRecovery -----------------------------
(***************************************************************************)
(* The two programs that change files of others and may die at any step:  *)
(* the bootstrap of the Codex configuration and the legacy migration.  A   *)
(* behaviour is one of exactly one of them, chosen at the start.           *)
(***************************************************************************)
EXTENDS TLC

CONSTANTS Clients, Rollouts, Databases, MaxRuns, MaxWrites, BootstrapFaults, MaxChecks,
          Slots, Sources, MaxStarts, MigrationFaults,
          MaxDeaths

VARIABLES part,
          config, history, backups, pending, lock, runs, stale, status, bounds,
          files, sources, credentials, starts, raced, used

Bootstrap == INSTANCE CodexBootstrap WITH MaxFaults <- BootstrapFaults
Legacy == INSTANCE MigrationProofs WITH MaxFaults <- MigrationFaults

bootstrapVars == <<config, history, backups, pending, lock, runs, stale, status, bounds>>
legacyVars == <<files, sources, credentials, starts, raced, used>>
vars == <<part, bootstrapVars, legacyVars>>

\* A program that is not the one of the behaviour is in one state for good.
Off == "off"
BootstrapOff ==
  /\ config = Off /\ history = Off /\ backups = Off /\ pending = Off /\ lock = Off
  /\ runs = Off /\ stale = Off /\ status = Off /\ bounds = Off
LegacyOff ==
  /\ files = Off /\ sources = Off /\ credentials = Off /\ starts = Off
  /\ raced = Off /\ used = Off

Init ==
  \/ part = "bootstrap" /\ Bootstrap!Init /\ LegacyOff
  \/ part = "legacy" /\ Legacy!Init /\ BootstrapOff

Next ==
  /\ UNCHANGED part
  /\ \/ part = "bootstrap" /\ Bootstrap!Next /\ UNCHANGED legacyVars
     \/ part = "legacy" /\ Legacy!Next /\ UNCHANGED bootstrapVars

Spec == Init /\ [][Next]_vars

------------------------
(* The properties of the two. *)

\* A bootstrap that ends ready has repaired the history, and has a backup of whatever
\* it rewrote.
RepairIsSafe ==
  /\ [](part = "bootstrap" => Bootstrap!ReadyIsRepaired)
  /\ [][part = "bootstrap" => Bootstrap!ChangesBackedUp]_vars

\* The lock of a dead bootstrap can be taken away by the next one.
LeftLockRecoverable == part = "bootstrap" => Bootstrap!LeftLockRecoverable

\* A quarantine that a start died in can be resumed.
QuarantineResumes == part = "legacy" => Legacy!QuarantineResumes

\* Without locks nothing is half done.
UnlockedIsWhole == part = "legacy" => Legacy!UnlockedIsWhole

RecoverySymmetry == Permutations(Clients) \cup Permutations(Slots)
=============================================================================
