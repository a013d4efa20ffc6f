------------------------------ MODULE MCStorage ------------------------------
(***************************************************************************)
(* The stores, each checked by itself: a behaviour is one of exactly one   *)
(* component, chosen at the start, and the other components stay as they   *)
(* are.                                                                    *)
(***************************************************************************)
EXTENDS Naturals, TLC

CONSTANTS Processes, Keys, MaxEntries, MaxChanges, MaxCrashes,
          KeyIds, MaxRequests, MaxEdits, MaxTime, MaxLimit,
          Paths, Records, MaxApplies,
          UnknownModel, MaxRows, MaxCounter, HourRetention, DayRetention, HoursPerDay,
          MaxHour, MaxObservations,
          MaxFaults,
          Nil,
          MaxCalls, MaxOutside

VARIABLES part,
          protocol, doc, lock, gate, proc, changes, crashes,
          access, rows, edit, request, granted, time, requests, edits,
          manager, record, applies, redisabled,
          hours, days, store, file, clock, observations,
          faults,
          registry, wall, answer,
          disk, path, link, op, calls, outside, failures

\* One observation with usage, one of another Provider and model, one without a model.
Observations == {<<1, 1, 1>>, <<2, 2, 0>>, <<2, UnknownModel, 0>>}

Locked == INSTANCE LockedStore
Access == INSTANCE AccessKeys
Capture == INSTANCE CaptureManager
Metrics == INSTANCE MetricsStore WITH MaxFaults <- 1
AutoStart == INSTANCE AutoStart

\* The registry in small instances of its own: a pool of Providers, the groups they
\* refer to, the clock going back over groups, the models of a Provider, the settings.
Pool == INSTANCE RegistryProofs WITH
  None <- Nil,
  Providers <- {1, 2}, MappingGroups <- {}, RuleGroups <- {}, Names <- {"a", "b"},
  Models <- {}, Weights <- {1, 2}, MaxGroups <- 1, MaxTime <- 1,
  Edits <- {"providers", "tests"}
Groups == INSTANCE RegistryProofs WITH
  None <- Nil,
  Providers <- {1, 2}, MappingGroups <- {1, 2}, RuleGroups <- {1}, Names <- {"a", "b"},
  Models <- {"m"}, Weights <- {1}, MaxGroups <- 1, MaxTime <- 0,
  Edits <- {"providers", "mappings", "rules"}
Clocks == INSTANCE RegistryProofs WITH
  None <- Nil,
  Providers <- {1}, MappingGroups <- {1}, RuleGroups <- {1}, Names <- {"a"},
  Models <- {"m"}, Weights <- {1}, MaxGroups <- 1, MaxTime <- 1,
  Edits <- {"providers", "tests", "mappings", "rules"}
Choices == INSTANCE RegistryProofs WITH
  None <- Nil,
  Providers <- {1}, MappingGroups <- {}, RuleGroups <- {}, Names <- {"a"},
  Models <- {"m", "n"}, Weights <- {1}, MaxGroups <- 1, MaxTime <- 1,
  Edits <- {"providers", "tests", "models"}
Settings == INSTANCE RegistryProofs WITH
  None <- Nil,
  Providers <- {}, MappingGroups <- {}, RuleGroups <- {}, Names <- {"a"},
  Models <- {}, Weights <- {1}, MaxGroups <- 1, MaxTime <- 0,
  Edits <- {"settings"}

ASSUME NamesAssumption == Locked!NamesApart
ASSUME PathsAssumption == Capture!PathsApart
ASSUME RetentionAssumption == Metrics!RetentionsFit
ASSUME RegistriesFit ==
  /\ Pool!ConstantsFit /\ Groups!ConstantsFit /\ Clocks!ConstantsFit
  /\ Choices!ConstantsFit /\ Settings!ConstantsFit

lockedVars == <<protocol, doc, lock, gate, proc, changes, crashes>>
accessVars == <<access, rows, edit, request, granted, time, requests, edits>>
captureVars == <<manager, record, applies, redisabled>>
metricsVars == <<hours, days, store, file, clock, observations>>
registryVars == <<registry, wall, answer>>
autostartVars == <<disk, path, link, op, calls, outside, failures>>
vars == <<part, lockedVars, accessVars, captureVars, metricsVars, faults, registryVars,
          autostartVars>>

\* A component that is not the one of the behaviour is in one state for good.
Off == "off"
LockedOff ==
  /\ protocol = Off /\ doc = Off /\ lock = Off /\ gate = Off /\ proc = Off
  /\ changes = Off /\ crashes = Off
AccessOff ==
  /\ access = Off /\ rows = Off /\ edit = Off /\ request = Off /\ granted = Off
  /\ time = Off /\ requests = Off /\ edits = Off
CaptureOff == manager = Off /\ record = Off /\ applies = Off /\ redisabled = Off
MetricsOff ==
  /\ hours = Off /\ days = Off /\ store = Off /\ file = Off /\ clock = Off
  /\ observations = Off

RegistryOff == registry = Off /\ wall = Off /\ answer = Off
AutoStartOff ==
  /\ disk = Off /\ path = Off /\ link = Off /\ op = Off /\ calls = Off /\ outside = Off
  /\ failures = Off

Init ==
  \/ /\ part = "locked" /\ Locked!Init /\ AccessOff /\ CaptureOff /\ MetricsOff /\ RegistryOff
     /\ AutoStartOff
  \/ /\ part = "access" /\ Access!Init /\ LockedOff /\ CaptureOff /\ MetricsOff /\ RegistryOff
     /\ AutoStartOff /\ faults = 0
  \/ /\ part = "capture" /\ Capture!Init /\ LockedOff /\ AccessOff /\ MetricsOff /\ RegistryOff
     /\ AutoStartOff
  \/ /\ part = "metrics" /\ Metrics!Init /\ LockedOff /\ AccessOff /\ CaptureOff /\ RegistryOff
     /\ AutoStartOff
  \/ /\ part = "autostart" /\ AutoStart!Init /\ LockedOff /\ AccessOff /\ CaptureOff /\ MetricsOff
     /\ RegistryOff /\ faults = 0
  \/ /\ part \in {"pool", "groups", "clocks", "choices", "settings"} /\ Pool!Init
     /\ LockedOff /\ AccessOff /\ CaptureOff /\ MetricsOff /\ AutoStartOff /\ faults = 0

Next ==
  /\ UNCHANGED part
  /\ \/ /\ part = "locked" /\ Locked!Next
        /\ UNCHANGED <<accessVars, captureVars, metricsVars, registryVars, autostartVars>>
     \/ /\ part = "access" /\ Access!Next
        /\ UNCHANGED <<lockedVars, captureVars, metricsVars, faults, registryVars,
                       autostartVars>>
     \/ /\ part = "capture" /\ Capture!Next
        /\ UNCHANGED <<lockedVars, accessVars, metricsVars, registryVars, autostartVars>>
     \/ /\ part = "metrics" /\ Metrics!Next
        /\ UNCHANGED <<lockedVars, accessVars, captureVars, registryVars, autostartVars>>
     \/ /\ part = "autostart" /\ AutoStart!Next
        /\ UNCHANGED <<lockedVars, accessVars, captureVars, metricsVars, faults,
                       registryVars>>
     \/ /\ \/ part = "pool" /\ Pool!Next
           \/ part = "groups" /\ Groups!Next
           \/ part = "clocks" /\ Clocks!Next
           \/ part = "choices" /\ Choices!Next
           \/ part = "settings" /\ Settings!Next
        /\ UNCHANGED <<lockedVars, accessVars, captureVars, metricsVars, faults,
                       autostartVars>>

Spec == Init /\ [][Next]_vars

------------------------
(* The properties of the components. *)

\* Each change of a shared file is one process's change of the file as it is.
NoLostWrite == [][part = "locked" => Locked!NoLostWrite]_vars

\* A lock that stays has somebody who knows.
LeftLockIsKnown == part = "locked" => Locked!LeftLockIsKnown

\* A key's count is the number of requests it let through.
GrantsCounted == part = "access" => Access!GrantsCounted

\* Records in flight keep the database they began under.
RecordsGoHome == part = "capture" => Capture!RecordsGoHome

\* Capture ends up as the settings ask.
CaptureSettles == part = "capture" => Capture!CaptureSettles

\* A day of the heatmap has all of its hours.
HeatmapCoversHours == part = "metrics" => Metrics!HeatmapCoversHours

\* No edit of a valid registry is refused as a broken registry.
EditsStayValid ==
  /\ part = "pool" => Pool!EditsStayValid
  /\ part = "groups" => Groups!EditsStayValid
  /\ part = "clocks" => Clocks!EditsStayValid
  /\ part = "choices" => Choices!EditsStayValid
  /\ part = "settings" => Settings!EditsStayValid

\* Nobody else's startup item is overwritten, and the answer of a change of the item is
\* what it did.
StartupItemIsTrue ==
  /\ [](part = "autostart" => AutoStart!OutcomeIsTold)
  /\ [][part = "autostart" => AutoStart!KeepsForeign]_vars

StorageSymmetry ==
  Permutations(Processes) \cup Permutations(Keys) \cup Permutations(Records)
=============================================================================
