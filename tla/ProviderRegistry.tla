-------------------------- MODULE ProviderRegistry --------------------------
(***************************************************************************)
(* The document of providers/provider-registry.mjs and the operations that *)
(* edit it, with the profiles of providers/provider-schema.mjs.  An edit is*)
(* one synchronous call of #commit: it changes a copy, the whole copy is   *)
(* validated, and a copy that is not valid is refused as a broken registry.*)
(* How the file is written and locked is in LockedStore and ProviderService*)
(*                                                                         *)
(* The path, the headers and the credential reference of a profile are one *)
(* thing here, an address that moves.  A refused call changes nothing and  *)
(* is not an action.                                                       *)
(***************************************************************************)
EXTENDS Naturals, FiniteSets, Functions

CONSTANTS
  Providers,      \* provider ids
  MappingGroups,  \* model mapping group ids
  RuleGroups,     \* routing rule group ids
  Names, Models,
  Weights,
  None,           \* null
  MaxGroups,      \* MAX_MODEL_MAPPING_GROUPS and MAX_ROUTING_RULE_GROUPS
  MaxTime,        \* bound: the clock
  Edits           \* bound: which kinds of edits are made

EditKinds == {"providers", "tests", "models", "mappings", "rules", "settings"}

\* What the constants must be; the modules that use this one assume it.
ConstantsFit ==
  /\ Weights \subseteq Nat
  /\ None \notin Providers \union MappingGroups \union RuleGroups \union Nat
  /\ MaxTime \in Nat /\ MaxGroups \in Nat /\ Edits \subseteq EditKinds

VARIABLES
  registry,     \* the document
  wall,         \* the clock
  answer        \* how the last edit ended: "none", "done", "invalid"

vars == <<registry, wall, answer>>

Times == 0..MaxTime

------------------------
(* Valid documents *)

\* The routing rules of a group: models, each with the providers it prefers.
Rules == UNION {[ms -> SUBSET Providers \ {{}}] : ms \in SUBSET Models}

ValidPolicy(profile) == profile.override => profile.mapping = None

\* validateStoredProvider
ValidProfile(profile) ==
  /\ ValidPolicy(profile)
  /\ profile.created <= profile.updated
  /\ (profile.test = "untested") = (profile.tested = None)
  /\ profile.tested # None => profile.tested \in profile.created..profile.updated

\* validateStoredMappingGroup and validateStoredRoutingRuleGroup
ValidMapping(group) == group.created <= group.updated
ValidRules(group) == group.created <= group.updated

Distinct(records) ==
  \A i, k \in DOMAIN records : records[i].name = records[k].name => i = k

ValidSettings(settings) ==
  /\ settings.public => settings.auth
  /\ settings.details => settings.capture

\* validateProviderRegistryDocument
Valid(document) ==
  LET known == DOMAIN document.providers
  IN /\ ValidSettings(document.settings)
     /\ Cardinality(DOMAIN document.mappings) <= MaxGroups
     /\ Cardinality(DOMAIN document.rules) <= MaxGroups
     /\ Distinct(document.mappings) /\ Distinct(document.providers) /\ Distinct(document.rules)
     /\ \A g \in DOMAIN document.mappings : ValidMapping(document.mappings[g])
     /\ \A p \in known : /\ ValidProfile(document.providers[p])
                         /\ document.providers[p].mapping \in
                              DOMAIN document.mappings \union {None}
     /\ document.active \in known \union {None}
     /\ \A g \in DOMAIN document.rules :
          /\ ValidRules(document.rules[g])
          /\ \A m \in DOMAIN document.rules[g].rules :
               document.rules[g].rules[m] \subseteq known
     /\ document.group \in DOMAIN document.rules \union {None}

Empty == [x \in {} |-> x]

\* emptyDocument
EmptyDocument ==
  [providers |-> Empty, mappings |-> Empty, rules |-> Empty, active |-> None, group |-> None,
   settings |-> [public |-> FALSE, auth |-> FALSE, capture |-> FALSE, details |-> FALSE,
                 first |-> FALSE]]

Init ==
  /\ registry = EmptyDocument /\ wall = 0 /\ answer = "none"

------------------------
(* Edits *)

With(f, x, value) == [y \in DOMAIN f \union {x} |-> IF y = x THEN value ELSE f[y]]
Without(f, x) == Restrict(f, DOMAIN f \ {x})

\* #commit
Commit(candidate) ==
  /\ IF Valid(candidate)
     THEN registry' = candidate /\ answer' = "done"
     ELSE UNCHANGED registry /\ answer' = "invalid"
  /\ UNCHANGED wall

Known == DOMAIN registry.providers
SetProfile(p, profile) == [registry EXCEPT !.providers = With(@, p, profile)]

\* #assertUniqueName, and the same for groups
NameFree(records, name, self) ==
  \A i \in DOMAIN records \ {self} : records[i].name # name

MappingExists(g) == g \in DOMAIN registry.mappings \union {None}

\* normalizeProvider: the profile of a provider that was just created.
NewProfile(name, weight, override, mapping) ==
  [name |-> name, weight |-> weight, override |-> override, mapping |-> mapping,
   auto |-> TRUE, models |-> {}, custom |-> {}, test |-> "untested", tested |-> None,
   created |-> wall, updated |-> wall]

Create(p, name, weight, override, mapping) ==
  /\ "providers" \in Edits /\ p \notin Known
  /\ ValidPolicy([override |-> override, mapping |-> mapping])
  /\ NameFree(registry.providers, name, None) /\ MappingExists(mapping)
  /\ Commit(SetProfile(p, NewProfile(name, weight, override, mapping)))

\* update: a change of what was tested resets the test, unless the caller keeps it
\* because the provider is in service.
Update(p, name, override, mapping, moved, preserve) ==
  LET current == registry.providers[p]
      resets == ~preserve /\ (moved \/ current.override # override \/ current.mapping # mapping)
  IN /\ "providers" \in Edits /\ p \in Known
     /\ preserve => current.test = "passed"
     /\ ValidPolicy([override |-> override, mapping |-> mapping])
     /\ NameFree(registry.providers, name, p) /\ MappingExists(mapping)
     /\ Commit(SetProfile(p, [current EXCEPT !.name = name, !.override = override,
                                !.mapping = mapping, !.updated = wall,
                                !.test = IF resets THEN "untested" ELSE @,
                                !.tested = IF resets THEN None ELSE @]))

\* setProviderWeightIfCurrent
SetWeight(p, weight) ==
  /\ "providers" \in Edits /\ p \in Known /\ registry.providers[p].weight # weight
  /\ Commit([registry EXCEPT !.providers[p].weight = weight, !.providers[p].updated = wall])

\* setProviderSupportedModels
SetSupportedModels(p, auto, models, custom) ==
  /\ "models" \in Edits /\ p \in Known
  /\ LET current == registry.providers[p]
         next == [current EXCEPT !.auto = auto, !.models = models, !.custom = custom]
     IN next # current /\ Commit(SetProfile(p, [next EXCEPT !.updated = wall]))

\* markTest
MarkTest(p, status) ==
  /\ "tests" \in Edits /\ p \in Known
  /\ Commit(SetProfile(p, [registry.providers[p] EXCEPT
                             !.test = status, !.updated = wall,
                             !.tested = IF status = "untested" THEN None ELSE wall]))

\* #pruneProviderFromRoutingRules: a rule that prefers nobody else goes too.
Pruned(group, p) ==
  LET kept == {m \in DOMAIN group.rules : group.rules[m] # {p}}
      rules == [m \in kept |-> group.rules[m] \ {p}]
  IN IF rules = group.rules THEN group ELSE [group EXCEPT !.rules = rules, !.updated = wall]

\* Mutant of Removed: the rules keep naming the provider.
MutantRemoved(p, active) ==
  [registry EXCEPT !.providers = Without(@, p), !.active = active]

\* delete, and deleteWithActiveFallback for the provider in use
Removed(p, active) ==
  [registry EXCEPT !.providers = Without(@, p), !.active = active,
                   !.rules = [g \in DOMAIN @ |-> Pruned(@[g], p)]]

Delete(p) ==
  /\ "providers" \in Edits /\ p \in Known
  /\ registry.active # p
  /\ Commit(Removed(p, registry.active))

DeleteWithActiveFallback(p, fallback) ==
  /\ "providers" \in Edits /\ p \in Known
  /\ registry.active = p /\ fallback \in (Known \ {p}) \union {None}
  /\ Commit(Removed(p, fallback))

\* setActive
SetActive(p) ==
  /\ "tests" \in Edits /\ p \in Known \union {None}
  /\ Commit([registry EXCEPT !.active = p])

\* setActiveIfNull
SetActiveIfNull(p) ==
  /\ "tests" \in Edits /\ p \in Known /\ registry.active = None
  /\ Commit([registry EXCEPT !.active = p])

\* clearActiveIf
ClearActiveIf(p) ==
  /\ "tests" \in Edits /\ p \in Known /\ registry.active = p
  /\ Commit([registry EXCEPT !.active = None])

------------------------
(* Mapping groups, rule groups *)

\* createModelMappingGroup
CreateMappingGroup(g, name) ==
  /\ "mappings" \in Edits /\ g \notin DOMAIN registry.mappings
  /\ Cardinality(DOMAIN registry.mappings) < MaxGroups
  /\ NameFree(registry.mappings, name, None)
  /\ Commit([registry EXCEPT !.mappings =
               With(@, g, [name |-> name, created |-> wall, updated |-> wall])])

\* updateModelMappingGroup
UpdateMappingGroup(g, name) ==
  /\ "mappings" \in Edits /\ g \in DOMAIN registry.mappings
  /\ NameFree(registry.mappings, name, g)
  /\ Commit([registry EXCEPT !.mappings[g].name = name, !.mappings[g].updated = wall])

\* deleteModelMappingGroup
DeleteMappingGroup(g) ==
  /\ "mappings" \in Edits /\ g \in DOMAIN registry.mappings
  /\ \A p \in Known : registry.providers[p].mapping # g
  /\ Commit([registry EXCEPT !.mappings = Without(@, g)])

\* #assertRoutingRuleProvidersExist
RulesKnown(rules) == \A m \in DOMAIN rules : rules[m] \subseteq Known

\* createRoutingRuleGroup
CreateRuleGroup(g, name, rules) ==
  /\ "rules" \in Edits /\ g \notin DOMAIN registry.rules
  /\ Cardinality(DOMAIN registry.rules) < MaxGroups
  /\ NameFree(registry.rules, name, None) /\ RulesKnown(rules)
  /\ Commit([registry EXCEPT !.rules =
               With(@, g, [name |-> name, rules |-> rules, created |-> wall,
                           updated |-> wall])])

\* updateRoutingRuleGroup
UpdateRuleGroup(g, name, rules) ==
  /\ "rules" \in Edits /\ g \in DOMAIN registry.rules
  /\ NameFree(registry.rules, name, g) /\ RulesKnown(rules)
  /\ Commit([registry EXCEPT !.rules[g].name = name, !.rules[g].rules = rules,
                             !.rules[g].updated = wall])

\* deleteRoutingRuleGroup: the group in use is put out of use.
DeleteRuleGroup(g) ==
  /\ "rules" \in Edits /\ g \in DOMAIN registry.rules
  /\ Commit([registry EXCEPT !.rules = Without(@, g), !.group = IF @ = g THEN None ELSE @])

\* setRoutingRuleGroup
SetRuleGroup(g) ==
  /\ "rules" \in Edits /\ g \in DOMAIN registry.rules \union {None} /\ registry.group # g
  /\ Commit([registry EXCEPT !.group = g])

------------------------
(* Settings *)

\* Public listening needs API keys.
SetProxyHost(public) ==
  /\ "settings" \in Edits /\ registry.settings.public # public
  /\ Commit([registry EXCEPT !.settings.public = public,
                             !.settings.auth = @ \/ public])

SetApiKeyAuth(enabled) ==
  /\ "settings" \in Edits /\ registry.settings.auth # enabled
  /\ registry.settings.public => enabled
  /\ Commit([registry EXCEPT !.settings.auth = enabled])

SetRoutingMode(first) ==
  /\ "settings" \in Edits /\ registry.settings.first # first
  /\ Commit([registry EXCEPT !.settings.first = first])

\* Details are recorded only with Capture.
SetCapture(enabled) ==
  /\ "settings" \in Edits /\ registry.settings.capture # enabled
  /\ Commit([registry EXCEPT !.settings.capture = enabled,
                             !.settings.details = @ /\ enabled])

\* The rollback of setCaptureEnabled, which restores both.
RestoreCapture(enabled, details) ==
  /\ "settings" \in Edits /\ (details => enabled)
  /\ Commit([registry EXCEPT !.settings.capture = enabled, !.settings.details = details])

SetCaptureDetails(enabled) ==
  /\ "settings" \in Edits /\ registry.settings.details # enabled
  /\ enabled => registry.settings.capture
  /\ Commit([registry EXCEPT !.settings.details = enabled])

------------------------
(* What happens elsewhere *)

\* The clock goes on, or is set back.
Tick ==
  /\ wall' \in Times \ {wall} /\ answer' = "none" /\ UNCHANGED registry

Mappings == MappingGroups \union {None}
Overrides == IF "mappings" \in Edits THEN BOOLEAN ELSE {FALSE}
Statuses == {"untested", "passed", "failed"}

ProviderEdits ==
  \E p \in Providers :
    \/ Delete(p) \/ SetActiveIfNull(p) \/ ClearActiveIf(p)
    \/ \E fallback \in Providers \union {None} : DeleteWithActiveFallback(p, fallback)
    \/ \E status \in Statuses : MarkTest(p, status)
    \/ \E weight \in Weights : SetWeight(p, weight)
    \/ \E auto \in BOOLEAN, models, custom \in SUBSET Models :
         SetSupportedModels(p, auto, models, custom)
    \/ \E name \in Names, override \in Overrides, mapping \in Mappings :
         \/ \E weight \in Weights : Create(p, name, weight, override, mapping)
         \/ \E moved, preserve \in BOOLEAN : Update(p, name, override, mapping, moved, preserve)

GroupEdits ==
  \/ \E g \in MappingGroups, name \in Names :
       CreateMappingGroup(g, name) \/ UpdateMappingGroup(g, name)
  \/ \E g \in MappingGroups : DeleteMappingGroup(g)
  \/ \E g \in RuleGroups, name \in Names, rules \in Rules :
       CreateRuleGroup(g, name, rules) \/ UpdateRuleGroup(g, name, rules)
  \/ \E g \in RuleGroups : DeleteRuleGroup(g)
  \/ \E g \in RuleGroups \union {None} : SetRuleGroup(g)

SettingsEdits ==
  \E on \in BOOLEAN :
    \/ SetProxyHost(on) \/ SetApiKeyAuth(on) \/ SetRoutingMode(on)
    \/ SetCapture(on) \/ SetCaptureDetails(on)
    \/ \E details \in BOOLEAN : RestoreCapture(on, details)

Next ==
  \/ ProviderEdits \/ GroupEdits \/ SettingsEdits \/ Tick
  \/ \E p \in Providers \union {None} : SetActive(p)

Spec == Init /\ [][Next]_vars

------------------------
(* Property *)

Stamps ==
  {registry.providers[p].updated : p \in Known}
    \union {registry.mappings[g].updated : g \in DOMAIN registry.mappings}
    \union {registry.rules[g].updated : g \in DOMAIN registry.rules}

\* An edit of a valid registry is never refused as a broken registry, the error that
\* tells the user to restore it from a backup: whatever an edit removes, nothing that
\* stays refers to it, and the settings that need each other change together.  Only
\* a clock behind a change that was already made makes an edit fail that way.
EditsStayValid ==
  answer = "invalid" => \E stamp \in Stamps : wall < stamp
=============================================================================
