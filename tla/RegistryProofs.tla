--------------------------- MODULE RegistryProofs ---------------------------
(***************************************************************************)
(* Theorems about the registry of Providers, for any Providers, groups,    *)
(* names, models, weights, clock and kinds of edits.                       *)
(*                                                                         *)
(* The invariant is that the document is valid.  It is not enough that     *)
(* every edit keeps it so, for #commit refuses a document that is not: what*)
(* is proved is that an edit makes a valid one, as long as no stamp of the *)
(* document is in the future.                                              *)
(***************************************************************************)
EXTENDS ProviderRegistry, FiniteSetTheorems, TLAPS

\* The functions from a part of D to S.
FnSet(D, S) == UNION {[d -> S] : d \in SUBSET D}

ProfileSet ==
  [name : Names, weight : Weights, override : BOOLEAN, mapping : Mappings, auto : BOOLEAN,
   models : SUBSET Models, custom : SUBSET Models, test : Statuses, tested : Nat \union {None},
   created : Nat, updated : Nat]
GroupSet == [name : Names, created : Nat, updated : Nat]
AnyRules == FnSet(Models, SUBSET Providers)
RuleGroupSet == [name : Names, rules : AnyRules, created : Nat, updated : Nat]
SettingsSet ==
  [public : BOOLEAN, auth : BOOLEAN, capture : BOOLEAN, details : BOOLEAN, first : BOOLEAN]

DocSet ==
  [providers : FnSet(Providers, ProfileSet), mappings : FnSet(MappingGroups, GroupSet),
   rules : FnSet(RuleGroups, RuleGroupSet), active : Providers \union {None},
   group : RuleGroups \union {None}, settings : SettingsSet]

\* The groups can be counted.
Countable(doc) == IsFiniteSet(DOMAIN doc.mappings) /\ IsFiniteSet(DOMAIN doc.rules)

\* Nothing was changed later than now.
Current == \A stamp \in Stamps : stamp <= wall

RegistryInv ==
  /\ registry \in DocSet /\ Countable(registry) /\ Valid(registry)
  /\ wall \in Nat /\ EditsStayValid

------------------------
(* The parts of a document *)

LEMMA FnSetIs ==
  ASSUME NEW D, NEW S, NEW f
  PROVE  f \in FnSet(D, S) <=> DOMAIN f \in SUBSET D /\ f \in [DOMAIN f -> S]
<1>1. ASSUME f \in FnSet(D, S) PROVE DOMAIN f \in SUBSET D /\ f \in [DOMAIN f -> S]
  <2>1. PICK d \in SUBSET D : f \in [d -> S]
    BY <1>1 DEF FnSet
  <2> QED BY <2>1
<1>2. ASSUME DOMAIN f \in SUBSET D, f \in [DOMAIN f -> S] PROVE f \in FnSet(D, S)
  BY <1>2 DEF FnSet
<1> QED BY <1>1, <1>2

LEMMA WithIs ==
  ASSUME NEW D, NEW S, NEW f \in FnSet(D, S), NEW x \in D, NEW value \in S
  PROVE  /\ With(f, x, value) \in FnSet(D, S)
         /\ DOMAIN With(f, x, value) = DOMAIN f \union {x}
         /\ With(f, x, value)[x] = value
         /\ \A y \in DOMAIN f : y # x => With(f, x, value)[y] = f[y]
<1>1. DOMAIN f \in SUBSET D /\ f \in [DOMAIN f -> S]
  BY FnSetIs
<1>2. /\ DOMAIN With(f, x, value) = DOMAIN f \union {x}
      /\ With(f, x, value)[x] = value
      /\ \A y \in DOMAIN f : y # x => With(f, x, value)[y] = f[y]
  BY DEF With
<1>3. With(f, x, value) \in [DOMAIN f \union {x} -> S]
  BY <1>1 DEF With
<1>4. DOMAIN With(f, x, value) \in SUBSET D
  BY <1>1, <1>2
<1> QED BY <1>2, <1>3, <1>4, FnSetIs

LEMMA WithoutIs ==
  ASSUME NEW D, NEW S, NEW f \in FnSet(D, S), NEW x
  PROVE  /\ Without(f, x) \in FnSet(D, S)
         /\ DOMAIN Without(f, x) = DOMAIN f \ {x}
         /\ \A y \in DOMAIN f \ {x} : Without(f, x)[y] = f[y]
<1>1. DOMAIN f \in SUBSET D /\ f \in [DOMAIN f -> S]
  BY FnSetIs
<1>2. Without(f, x) = [y \in DOMAIN f \ {x} |-> f[y]]
  BY DEF Without, Restrict
<1>3. /\ DOMAIN Without(f, x) = DOMAIN f \ {x}
      /\ \A y \in DOMAIN f \ {x} : Without(f, x)[y] = f[y]
      /\ Without(f, x) \in [DOMAIN f \ {x} -> S]
  BY <1>1, <1>2
<1>4. DOMAIN Without(f, x) \in SUBSET D
  BY <1>1, <1>3
<1> QED BY <1>3, <1>4, FnSetIs

\* What the fields of a document are.
LEMMA Parts ==
  ASSUME NEW doc \in DocSet
  PROVE  /\ doc.providers \in FnSet(Providers, ProfileSet) /\ doc.mappings \in FnSet(MappingGroups, GroupSet)
         /\ doc.rules \in FnSet(RuleGroups, RuleGroupSet)
         /\ doc.active \in Providers \union {None} /\ doc.group \in RuleGroups \union {None}
         /\ doc.settings \in SettingsSet
         /\ DOMAIN doc.providers \subseteq Providers /\ DOMAIN doc.mappings \subseteq MappingGroups
         /\ DOMAIN doc.rules \subseteq RuleGroups
         /\ \A p \in DOMAIN doc.providers : doc.providers[p] \in ProfileSet
         /\ \A g \in DOMAIN doc.mappings : doc.mappings[g] \in GroupSet
         /\ \A g \in DOMAIN doc.rules : doc.rules[g] \in RuleGroupSet
<1>1. /\ doc.providers \in FnSet(Providers, ProfileSet) /\ doc.mappings \in FnSet(MappingGroups, GroupSet)
      /\ doc.rules \in FnSet(RuleGroups, RuleGroupSet)
      /\ doc.active \in Providers \union {None} /\ doc.group \in RuleGroups \union {None}
      /\ doc.settings \in SettingsSet
  BY DEF DocSet
<1>2. /\ DOMAIN doc.providers \subseteq Providers /\ doc.providers \in [DOMAIN doc.providers -> ProfileSet]
      /\ DOMAIN doc.mappings \subseteq MappingGroups /\ doc.mappings \in [DOMAIN doc.mappings -> GroupSet]
      /\ DOMAIN doc.rules \subseteq RuleGroups /\ doc.rules \in [DOMAIN doc.rules -> RuleGroupSet]
  BY <1>1, FnSetIs
<1> QED BY <1>1, <1>2

LEMMA ValidIs ==
  ASSUME NEW doc, ValidSettings(doc.settings),
         Cardinality(DOMAIN doc.mappings) <= MaxGroups, Cardinality(DOMAIN doc.rules) <= MaxGroups,
         Distinct(doc.mappings), Distinct(doc.providers), Distinct(doc.rules),
         \A g \in DOMAIN doc.mappings : ValidMapping(doc.mappings[g]),
         \A p \in DOMAIN doc.providers :
           ValidProfile(doc.providers[p]) /\ doc.providers[p].mapping \in DOMAIN doc.mappings \union {None},
         doc.active \in DOMAIN doc.providers \union {None},
         \A g \in DOMAIN doc.rules :
           /\ ValidRules(doc.rules[g])
           /\ \A m \in DOMAIN doc.rules[g].rules : doc.rules[g].rules[m] \subseteq DOMAIN doc.providers,
         doc.group \in DOMAIN doc.rules \union {None}
  PROVE  Valid(doc)
BY DEF Valid

\* An edit that makes a valid document of a current one is not refused as long as it is.
LEMMA CommitKeeps ==
  ASSUME RegistryInv, NEW candidate \in DocSet, Countable(candidate), Commit(candidate),
         Current => Valid(candidate)
  PROVE  RegistryInv'
<1>1. CASE Valid(candidate)
  <2>1. registry' = candidate /\ answer' = "done" /\ wall' = wall
    BY <1>1 DEF Commit
  <2>2. /\ registry' \in DocSet
        /\ Countable(registry')
        /\ wall' \in Nat
    BY <2>1 DEF RegistryInv
  <2>3. Valid(registry')
    BY <1>1, <2>1
  <2> QED BY <2>1, <2>2, <2>3 DEF RegistryInv, EditsStayValid
<1>2. CASE ~Valid(candidate)
  <2>1. registry' = registry /\ wall' = wall
    BY <1>2 DEF Commit
  <2>2. PICK stamp \in Stamps : ~(stamp <= wall)
    BY <1>2 DEF Current
  <2>3. Stamps \subseteq Nat
    BY Parts DEF RegistryInv, Stamps, Known, ProfileSet, GroupSet, RuleGroupSet
  <2>4. wall < stamp
    BY <2>2, <2>3 DEF RegistryInv
  <2>5. Stamps' = Stamps
    BY <2>1 DEF Stamps, Known
  <2> QED BY <2>1, <2>2, <2>4, <2>5 DEF RegistryInv, EditsStayValid
<1> QED BY <1>1, <1>2

------------------------
(* Profiles *)

LEMMA SetProfileIs ==
  ASSUME RegistryInv, NEW p \in Providers, NEW profile \in ProfileSet,
         NEW new, new = SetProfile(p, profile)
  PROVE  /\ new \in DocSet /\ Countable(new)
         /\ DOMAIN new.providers = Known \union {p} /\ new.providers[p] = profile
         /\ \A q \in Known : q # p => new.providers[q] = registry.providers[q]
         /\ new.mappings = registry.mappings /\ new.rules = registry.rules
         /\ new.active = registry.active /\ new.group = registry.group
         /\ new.settings = registry.settings
<1>1. registry \in DocSet
  BY DEF RegistryInv
<1>2. /\ new.providers = With(registry.providers, p, profile)
      /\ new.mappings = registry.mappings /\ new.rules = registry.rules
      /\ new.active = registry.active /\ new.group = registry.group
      /\ new.settings = registry.settings
  BY <1>1 DEF SetProfile, DocSet
<1>3. /\ With(registry.providers, p, profile) \in FnSet(Providers, ProfileSet)
      /\ DOMAIN new.providers = Known \union {p} /\ new.providers[p] = profile
      /\ \A q \in Known : q # p => new.providers[q] = registry.providers[q]
  <2>1. registry.providers \in FnSet(Providers, ProfileSet)
    BY <1>1, Parts
  <2>2. /\ With(registry.providers, p, profile) \in FnSet(Providers, ProfileSet)
        /\ DOMAIN With(registry.providers, p, profile) = DOMAIN registry.providers \union {p}
        /\ With(registry.providers, p, profile)[p] = profile
        /\ \A q \in DOMAIN registry.providers :
             q # p => With(registry.providers, p, profile)[q] = registry.providers[q]
    <3>1. \A f \in FnSet(Providers, ProfileSet) :
            /\ With(f, p, profile) \in FnSet(Providers, ProfileSet)
            /\ DOMAIN With(f, p, profile) = DOMAIN f \union {p}
            /\ With(f, p, profile)[p] = profile
            /\ \A q \in DOMAIN f : q # p => With(f, p, profile)[q] = f[q]
      <4> TAKE f \in FnSet(Providers, ProfileSet)
      <4> QED BY WithIs
    <3> QED BY <2>1, <3>1
  <2> QED BY <1>2, <2>2 DEF Known
<1>4. new \in DocSet
  BY <1>1, <1>3 DEF SetProfile, DocSet
<1>5. Countable(new)
  BY <1>2 DEF Countable, RegistryInv
<1> QED BY <1>2, <1>3, <1>4, <1>5

\* A profile that is valid by itself, with a name and a mapping group of the registry.
LEMMA SetProfileValid ==
  ASSUME RegistryInv, NEW p \in Providers, NEW profile \in ProfileSet,
         NEW new, new = SetProfile(p, profile),
         ValidProfile(profile), MappingExists(profile.mapping),
         NameFree(registry.providers, profile.name, p)
  PROVE  Valid(new)
<1>1. /\ DOMAIN new.providers = Known \union {p} /\ new.providers[p] = profile
      /\ \A q \in Known : q # p => new.providers[q] = registry.providers[q]
      /\ new.mappings = registry.mappings /\ new.rules = registry.rules
      /\ new.active = registry.active /\ new.group = registry.group
      /\ new.settings = registry.settings
  BY SetProfileIs
<1>2. Valid(registry)
  BY DEF RegistryInv
<1>3. Distinct(new.providers)
  <2> SUFFICES ASSUME NEW i \in Known \union {p}, NEW k \in Known \union {p},
                      new.providers[i].name = new.providers[k].name
               PROVE  i = k
    BY <1>1 DEF Distinct
  <2>1. CASE i = p /\ k # p
    BY <1>1, <2>1 DEF NameFree, Known
  <2>2. CASE i # p /\ k = p
    BY <1>1, <2>2 DEF NameFree, Known
  <2>3. CASE i # p /\ k # p
    BY <1>1, <1>2, <2>3 DEF Valid, Distinct, Known
  <2> QED BY <2>1, <2>2, <2>3
<1>4. \A q \in DOMAIN new.providers :
        ValidProfile(new.providers[q])
          /\ new.providers[q].mapping \in DOMAIN new.mappings \union {None}
  <2> SUFFICES ASSUME NEW q \in Known \union {p}
               PROVE  ValidProfile(new.providers[q])
                        /\ new.providers[q].mapping \in DOMAIN registry.mappings \union {None}
    BY <1>1
  <2>1. CASE q = p
    BY <1>1, <2>1 DEF MappingExists
  <2>2. CASE q # p
    BY <1>1, <1>2, <2>2 DEF Valid, Known
  <2> QED BY <2>1, <2>2
<1>5. new.active \in DOMAIN new.providers \union {None}
  BY <1>1, <1>2 DEF Valid, Known
<1>6. \A g \in DOMAIN new.rules : \A m \in DOMAIN new.rules[g].rules :
        new.rules[g].rules[m] \subseteq DOMAIN new.providers
  BY <1>1, <1>2 DEF Valid, Known
<1> QED BY <1>1, <1>2, <1>3, <1>4, <1>5, <1>6 DEF Valid

\* What the edits of a profile that is there can rely on.
LEMMA ProfileNow ==
  ASSUME RegistryInv, NEW p \in Known
  PROVE  /\ p \in Providers /\ registry.providers[p] \in ProfileSet
         /\ ValidProfile(registry.providers[p]) /\ MappingExists(registry.providers[p].mapping)
         /\ NameFree(registry.providers, registry.providers[p].name, p)
         /\ wall \in Nat
         /\ Current => registry.providers[p].updated <= wall
<1>1. registry \in DocSet /\ Valid(registry) /\ wall \in Nat
  BY DEF RegistryInv
<1>2. p \in Providers /\ registry.providers[p] \in ProfileSet
  BY <1>1, Parts DEF Known
<1>3. ValidProfile(registry.providers[p]) /\ MappingExists(registry.providers[p].mapping)
  BY <1>1 DEF Valid, MappingExists, Known
<1>4. NameFree(registry.providers, registry.providers[p].name, p)
  BY <1>1 DEF Valid, Distinct, NameFree, Known
<1>5. Current => registry.providers[p].updated <= wall
  BY DEF Current, Stamps
<1> QED BY <1>1, <1>2, <1>3, <1>4, <1>5

\* An edit of one profile, one that is valid while nothing was changed later than now.
LEMMA ProfileKeeps ==
  ASSUME RegistryInv, NEW p \in Providers, NEW profile \in ProfileSet,
         MappingExists(profile.mapping), NameFree(registry.providers, profile.name, p),
         Current => ValidProfile(profile),
         Commit(SetProfile(p, profile))
  PROVE  RegistryInv'
<1> DEFINE new == SetProfile(p, profile)
<1>1. new \in DocSet /\ Countable(new)
  BY SetProfileIs
<1>2. Current => Valid(new)
  BY SetProfileValid
<1> QED BY <1>1, <1>2, CommitKeeps

LEMMA CreateKeeps ==
  ASSUME ConstantsFit, RegistryInv,
         NEW p \in Providers, NEW name \in Names, NEW weight \in Weights,
         NEW override \in BOOLEAN, NEW mapping \in Mappings,
         Create(p, name, weight, override, mapping)
  PROVE  RegistryInv'
<1> DEFINE profile == NewProfile(name, weight, override, mapping)
<1>1. wall \in Nat /\ None \notin Providers /\ DOMAIN registry.providers \subseteq Providers
  BY Parts DEF ConstantsFit, RegistryInv
<1>2. profile \in ProfileSet
  BY <1>1 DEF NewProfile, ProfileSet, Statuses
<1>3. profile.mapping = mapping /\ profile.name = name
  BY DEF NewProfile
<1>4. ValidPolicy([override |-> override, mapping |-> mapping]) => ValidPolicy(profile)
  BY DEF NewProfile, ValidPolicy
<1>5. ValidPolicy([override |-> override, mapping |-> mapping]) => ValidProfile(profile)
  BY <1>1, <1>4 DEF NewProfile, ValidProfile
<1>6. NameFree(registry.providers, name, p) /\ MappingExists(mapping) /\ ValidProfile(profile)
  BY <1>1, <1>5 DEF Create, NameFree, Known
<1>7. Commit(SetProfile(p, profile))
  BY DEF Create
<1> HIDE DEF profile
<1> QED BY <1>2, <1>3, <1>6, <1>7, ProfileKeeps

LEMMA UpdateKeeps ==
  ASSUME RegistryInv,
         NEW p \in Providers, NEW name \in Names, NEW override \in BOOLEAN, NEW mapping \in Mappings,
         NEW moved \in BOOLEAN, NEW preserve \in BOOLEAN,
         Update(p, name, override, mapping, moved, preserve)
  PROVE  RegistryInv'
<1> DEFINE current == registry.providers[p]
           resets == ~preserve /\ (moved \/ current.override # override \/ current.mapping # mapping)
           profile == [current EXCEPT !.name = name, !.override = override, !.mapping = mapping,
                                      !.updated = wall, !.test = IF resets THEN "untested" ELSE @,
                                      !.tested = IF resets THEN None ELSE @]
<1>1. /\ p \in Known /\ ValidPolicy([override |-> override, mapping |-> mapping])
      /\ NameFree(registry.providers, name, p) /\ MappingExists(mapping)
      /\ Commit(SetProfile(p, profile))
  BY DEF Update
<1>2. /\ current \in ProfileSet /\ ValidProfile(current) /\ wall \in Nat
      /\ Current => current.updated <= wall
  BY <1>1, ProfileNow
<1> HIDE DEF current, resets
<1>3. /\ profile \in ProfileSet /\ profile.name = name /\ profile.override = override
      /\ profile.mapping = mapping /\ profile.updated = wall /\ profile.created = current.created
      /\ profile.test = (IF resets THEN "untested" ELSE current.test)
      /\ profile.tested = (IF resets THEN None ELSE current.tested)
  BY <1>2 DEF ProfileSet, Statuses
<1> HIDE DEF profile
<1>4. ValidPolicy(profile)
  BY <1>1, <1>3 DEF ValidPolicy
<1>5. /\ current.created \in Nat /\ current.updated \in Nat
      /\ current.tested # None => current.tested \in Nat
  BY <1>2 DEF ProfileSet
<1>6. Current => ValidProfile(profile)
  BY <1>2, <1>3, <1>4, <1>5 DEF ValidProfile
<1> QED BY <1>1, <1>3, <1>6, ProfileKeeps

LEMMA MarkTestKeeps ==
  ASSUME ConstantsFit, RegistryInv, NEW p \in Providers, NEW status \in Statuses, MarkTest(p, status)
  PROVE  RegistryInv'
<1> DEFINE current == registry.providers[p]
           profile == [current EXCEPT !.test = status, !.updated = wall,
                                      !.tested = IF status = "untested" THEN None ELSE wall]
<1>1. p \in Known /\ Commit(SetProfile(p, profile))
  BY DEF MarkTest
<1>2. /\ current \in ProfileSet /\ ValidProfile(current) /\ wall \in Nat /\ wall # None
      /\ MappingExists(current.mapping) /\ NameFree(registry.providers, current.name, p)
      /\ Current => current.updated <= wall
  BY <1>1, ProfileNow DEF ConstantsFit
<1> HIDE DEF current
<1>3. /\ profile \in ProfileSet /\ profile.name = current.name /\ profile.override = current.override
      /\ profile.mapping = current.mapping /\ profile.updated = wall /\ profile.created = current.created
      /\ profile.test = status
      /\ profile.tested = (IF status = "untested" THEN None ELSE wall)
  BY <1>2 DEF ProfileSet, Statuses
<1> HIDE DEF profile
<1>4. ValidPolicy(profile)
  BY <1>2, <1>3 DEF ValidPolicy, ValidProfile
<1>5. current.created \in Nat /\ current.updated \in Nat
  BY <1>2 DEF ProfileSet
<1>6. Current => ValidProfile(profile)
  BY <1>2, <1>3, <1>4, <1>5 DEF ValidProfile
<1> QED BY <1>1, <1>2, <1>3, <1>6, ProfileKeeps

LEMMA SetWeightKeeps ==
  ASSUME RegistryInv, NEW p \in Providers, NEW weight \in Weights, SetWeight(p, weight)
  PROVE  RegistryInv'
<1> DEFINE current == registry.providers[p]
           profile == [current EXCEPT !.weight = weight, !.updated = wall]
<1>1. p \in Known /\ registry \in DocSet
  BY DEF SetWeight, RegistryInv
<1>2. [registry EXCEPT !.providers[p].weight = weight, !.providers[p].updated = wall]
        = SetProfile(p, profile)
  BY <1>1 DEF SetProfile, With, Known, DocSet
<1>3. Commit(SetProfile(p, profile))
  BY <1>2 DEF SetWeight
<1>4. /\ current \in ProfileSet /\ ValidProfile(current) /\ wall \in Nat
      /\ MappingExists(current.mapping) /\ NameFree(registry.providers, current.name, p)
      /\ Current => current.updated <= wall
  BY <1>1, ProfileNow
<1> HIDE DEF current
<1>5. /\ profile \in ProfileSet /\ profile.name = current.name /\ profile.override = current.override
      /\ profile.mapping = current.mapping /\ profile.updated = wall /\ profile.created = current.created
      /\ profile.test = current.test /\ profile.tested = current.tested
  BY <1>4 DEF ProfileSet
<1> HIDE DEF profile
<1>6. ValidPolicy(profile)
  BY <1>4, <1>5 DEF ValidPolicy, ValidProfile
<1>7. /\ current.created \in Nat /\ current.updated \in Nat
      /\ current.tested # None => current.tested \in Nat
  BY <1>4 DEF ProfileSet
<1>8. Current => ValidProfile(profile)
  BY <1>4, <1>5, <1>6, <1>7 DEF ValidProfile
<1> QED BY <1>3, <1>4, <1>5, <1>8, ProfileKeeps

LEMMA SetModelsKeeps ==
  ASSUME RegistryInv, NEW p \in Providers, NEW auto \in BOOLEAN,
         NEW models \in SUBSET Models, NEW custom \in SUBSET Models,
         SetSupportedModels(p, auto, models, custom)
  PROVE  RegistryInv'
<1> DEFINE current == registry.providers[p]
           next == [current EXCEPT !.auto = auto, !.models = models, !.custom = custom]
           profile == [next EXCEPT !.updated = wall]
<1>1. p \in Known /\ Commit(SetProfile(p, profile))
  BY DEF SetSupportedModels
<1>2. /\ current \in ProfileSet /\ ValidProfile(current) /\ wall \in Nat
      /\ MappingExists(current.mapping) /\ NameFree(registry.providers, current.name, p)
      /\ Current => current.updated <= wall
  BY <1>1, ProfileNow
<1> HIDE DEF current
<1>3. /\ profile \in ProfileSet /\ profile.name = current.name /\ profile.override = current.override
      /\ profile.mapping = current.mapping /\ profile.updated = wall /\ profile.created = current.created
      /\ profile.test = current.test /\ profile.tested = current.tested
  BY <1>2 DEF ProfileSet
<1> HIDE DEF profile
<1>4. ValidPolicy(profile)
  BY <1>2, <1>3 DEF ValidPolicy, ValidProfile
<1>5. /\ current.created \in Nat /\ current.updated \in Nat
      /\ current.tested # None => current.tested \in Nat
  BY <1>2 DEF ProfileSet
<1>6. Current => ValidProfile(profile)
  BY <1>2, <1>3, <1>4, <1>5 DEF ValidProfile
<1> QED BY <1>1, <1>2, <1>3, <1>6, ProfileKeeps

------------------------
(* Removals and what is in use *)

\* An edit of nothing but what is in use and the settings.
LEMMA ChoiceKeeps ==
  ASSUME RegistryInv, NEW new \in DocSet, Commit(new),
         new.providers = registry.providers, new.mappings = registry.mappings,
         new.rules = registry.rules,
         new.active \in DOMAIN registry.providers \union {None},
         new.group \in DOMAIN registry.rules \union {None},
         ValidSettings(new.settings)
  PROVE  RegistryInv'
<1>1. Valid(registry) /\ Countable(registry)
  BY DEF RegistryInv
<1>2. Valid(new) /\ Countable(new)
  BY <1>1 DEF Valid, Countable
<1> QED BY <1>2, CommitKeeps

LEMMA ActiveKeeps ==
  ASSUME RegistryInv, NEW p \in Known \union {None}, Commit([registry EXCEPT !.active = p])
  PROVE  RegistryInv'
<1> DEFINE new == [registry EXCEPT !.active = p]
<1>1. registry \in DocSet /\ Valid(registry) /\ Known \subseteq Providers
  BY Parts DEF RegistryInv, Known
<1>2. /\ new \in DocSet /\ new.providers = registry.providers /\ new.mappings = registry.mappings
      /\ new.rules = registry.rules /\ new.active = p /\ new.group = registry.group
      /\ new.settings = registry.settings
  BY <1>1 DEF DocSet
<1> HIDE DEF new
<1>3. /\ new.active \in DOMAIN registry.providers \union {None}
      /\ new.group \in DOMAIN registry.rules \union {None}
      /\ ValidSettings(new.settings)
  BY <1>1, <1>2 DEF Valid, Known
<1>4. Commit(new)
  BY DEF new
<1> QED BY <1>2, <1>3, <1>4, ChoiceKeeps

\* A group of rules without the ones of a provider.
LEMMA PrunedIs ==
  ASSUME NEW group \in RuleGroupSet, NEW p \in Providers, wall \in Nat
  PROVE  /\ Pruned(group, p) \in RuleGroupSet
         /\ Pruned(group, p).name = group.name /\ Pruned(group, p).created = group.created
         /\ Pruned(group, p).updated \in {group.updated, wall}
         /\ \A m \in DOMAIN Pruned(group, p).rules :
              m \in DOMAIN group.rules /\ Pruned(group, p).rules[m] = group.rules[m] \ {p}
<1> DEFINE kept == {m \in DOMAIN group.rules : group.rules[m] # {p}}
           rules == [m \in kept |-> group.rules[m] \ {p}]
<1>1. group.rules \in AnyRules /\ group.updated \in Nat
  BY DEF RuleGroupSet
<1>2. DOMAIN group.rules \in SUBSET Models /\ group.rules \in [DOMAIN group.rules -> SUBSET Providers]
  BY <1>1, FnSetIs DEF AnyRules
<1>3. /\ DOMAIN rules \in SUBSET Models /\ rules \in [DOMAIN rules -> SUBSET Providers]
      /\ \A m \in DOMAIN rules : m \in DOMAIN group.rules /\ rules[m] = group.rules[m] \ {p}
  BY <1>2
<1>4. Pruned(group, p) = (IF rules = group.rules THEN group
                          ELSE [group EXCEPT !.rules = rules, !.updated = wall])
  BY DEF Pruned
<1> HIDE DEF kept, rules
<1>5. rules \in AnyRules
  BY <1>3, FnSetIs DEF AnyRules
<1>6. CASE rules = group.rules
  BY <1>3, <1>4, <1>6
<1>7. CASE rules # group.rules
  <2> DEFINE new == [group EXCEPT !.rules = rules, !.updated = wall]
  <2>1. /\ new \in RuleGroupSet /\ new.rules = rules /\ new.updated = wall
        /\ new.name = group.name /\ new.created = group.created
    BY <1>5 DEF RuleGroupSet
  <2> HIDE DEF new
  <2>2. Pruned(group, p) = new
    BY <1>4, <1>7 DEF new
  <2> QED BY <1>3, <2>1, <2>2
<1> QED BY <1>6, <1>7

\* Whoever is removed, nothing that stays refers to it.
LEMMA RemovedKeeps ==
  ASSUME RegistryInv, NEW p \in Known, NEW active \in (Known \ {p}) \union {None},
         Commit(Removed(p, active))
  PROVE  RegistryInv'
<1> DEFINE new == Removed(p, active)
           rest == Without(registry.providers, p)
           rules == [g \in DOMAIN registry.rules |-> Pruned(registry.rules[g], p)]
<1>1. registry \in DocSet /\ Valid(registry) /\ Countable(registry) /\ wall \in Nat
  BY DEF RegistryInv
<1>2. Known \subseteq Providers
  BY <1>1, Parts DEF Known
<1>3. /\ rest \in FnSet(Providers, ProfileSet)
      /\ DOMAIN rest = Known \ {p} /\ \A q \in Known \ {p} : rest[q] = registry.providers[q]
  <2>1. registry.providers \in FnSet(Providers, ProfileSet)
    BY <1>1, Parts
  <2>2. /\ rest \in FnSet(Providers, ProfileSet)
        /\ DOMAIN rest = DOMAIN registry.providers \ {p}
        /\ \A q \in DOMAIN registry.providers \ {p} : rest[q] = registry.providers[q]
    <3>1. \A f \in FnSet(Providers, ProfileSet) :
            /\ Without(f, p) \in FnSet(Providers, ProfileSet)
            /\ DOMAIN Without(f, p) = DOMAIN f \ {p}
            /\ \A q \in DOMAIN f \ {p} : Without(f, p)[q] = f[q]
      <4> TAKE f \in FnSet(Providers, ProfileSet)
      <4> QED BY WithoutIs
    <3> QED BY <2>1, <3>1
  <2> QED BY <2>2 DEF Known
<1>4. \A g \in DOMAIN registry.rules : registry.rules[g] \in RuleGroupSet
  BY <1>1, Parts
<1>5. rules \in FnSet(RuleGroups, RuleGroupSet)
  <2>1. DOMAIN registry.rules \subseteq RuleGroups
    BY <1>1, Parts
  <2>2. \A g \in DOMAIN registry.rules : Pruned(registry.rules[g], p) \in RuleGroupSet
    BY <1>1, <1>2, <1>4, PrunedIs
  <2>3. DOMAIN rules \in SUBSET RuleGroups /\ rules \in [DOMAIN rules -> RuleGroupSet]
    BY <2>1, <2>2
  <2> HIDE DEF rules
  <2> QED BY <2>3, FnSetIs
<1>6. /\ new.providers = rest /\ new.mappings = registry.mappings /\ new.rules = rules
      /\ new.active = active /\ new.group = registry.group /\ new.settings = registry.settings
  BY <1>1 DEF Removed, DocSet
<1>7. new \in DocSet
  BY <1>1, <1>2, <1>3, <1>5 DEF Removed, DocSet
<1>8. DOMAIN rules = DOMAIN registry.rules
      /\ \A g \in DOMAIN registry.rules : rules[g] = Pruned(registry.rules[g], p)
  OBVIOUS
<1> HIDE DEF new, rest, rules
<1>9. Countable(new)
  BY <1>1, <1>6, <1>8 DEF Countable
<1>10. ASSUME Current PROVE Valid(new)
  <2>1. /\ ValidSettings(new.settings) /\ Distinct(new.mappings)
        /\ Cardinality(DOMAIN new.mappings) <= MaxGroups /\ Cardinality(DOMAIN new.rules) <= MaxGroups
        /\ \A g \in DOMAIN new.mappings : ValidMapping(new.mappings[g])
        /\ new.group \in DOMAIN new.rules \union {None}
    BY <1>1, <1>6, <1>8 DEF Valid
  <2>2. Distinct(new.providers)
    BY <1>1, <1>3, <1>6 DEF Valid, Distinct, Known
  <2>3. \A q \in DOMAIN new.providers :
          ValidProfile(new.providers[q])
            /\ new.providers[q].mapping \in DOMAIN new.mappings \union {None}
    BY <1>1, <1>3, <1>6 DEF Valid, Known
  <2>4. new.active \in DOMAIN new.providers \union {None}
    BY <1>3, <1>6
  <2>5. Distinct(new.rules)
    <3>1. \A g \in DOMAIN registry.rules : rules[g].name = registry.rules[g].name
      BY <1>1, <1>2, <1>4, <1>8, PrunedIs
    <3> QED BY <1>1, <1>6, <1>8, <3>1 DEF Valid, Distinct
  <2>6. ASSUME NEW g \in DOMAIN registry.rules
        PROVE  /\ ValidRules(rules[g])
               /\ \A m \in DOMAIN rules[g].rules : rules[g].rules[m] \subseteq Known \ {p}
    <3>1. /\ rules[g].created = registry.rules[g].created
          /\ rules[g].updated \in {registry.rules[g].updated, wall}
          /\ \A m \in DOMAIN rules[g].rules :
               m \in DOMAIN registry.rules[g].rules
                 /\ rules[g].rules[m] = registry.rules[g].rules[m] \ {p}
      BY <1>1, <1>2, <1>4, <1>8, PrunedIs
    <3>2. /\ registry.rules[g].created \in Nat /\ registry.rules[g].updated \in Nat
          /\ registry.rules[g].created <= registry.rules[g].updated
      BY <1>1, <1>4 DEF RuleGroupSet, Valid, ValidRules
    <3>3. registry.rules[g].updated <= wall
      BY <1>10 DEF Current, Stamps
    <3>4. ValidRules(rules[g])
      BY <1>1, <3>1, <3>2, <3>3 DEF ValidRules
    <3>5. \A m \in DOMAIN registry.rules[g].rules : registry.rules[g].rules[m] \subseteq Known
      BY <1>1 DEF Valid, Known
    <3> QED BY <3>1, <3>4, <3>5
  <2>7. \A g \in DOMAIN new.rules :
          /\ ValidRules(new.rules[g])
          /\ \A m \in DOMAIN new.rules[g].rules : new.rules[g].rules[m] \subseteq DOMAIN new.providers
    <3>1. DOMAIN new.providers = Known \ {p} /\ new.rules = rules
      BY <1>3, <1>6
    <3>2. DOMAIN rules = DOMAIN registry.rules
      BY <1>8
    <3> QED BY <3>1, <3>2, <2>6
  <2> QED BY <2>1, <2>2, <2>3, <2>4, <2>5, <2>7, ValidIs
<1>11. Commit(new)
  BY DEF new
<1> QED BY <1>7, <1>9, <1>10, <1>11, CommitKeeps

------------------------
(* Groups *)

LEMMA DistinctWith ==
  ASSUME NEW f, NEW x, NEW value, Distinct(f), NameFree(f, value.name, x)
  PROVE  Distinct(With(f, x, value))
<1> SUFFICES ASSUME NEW i \in DOMAIN f \union {x}, NEW k \in DOMAIN f \union {x},
                    With(f, x, value)[i].name = With(f, x, value)[k].name
             PROVE  i = k
  BY DEF Distinct, With
<1>1. \A y \in DOMAIN f \union {x} : With(f, x, value)[y] = IF y = x THEN value ELSE f[y]
  BY DEF With
<1>2. CASE i = x /\ k # x
  BY <1>1, <1>2 DEF NameFree
<1>3. CASE i # x /\ k = x
  BY <1>1, <1>3 DEF NameFree
<1>4. CASE i # x /\ k # x
  BY <1>1, <1>4 DEF Distinct
<1> QED BY <1>2, <1>3, <1>4

LEMMA DistinctWithout ==
  ASSUME NEW f, NEW x, Distinct(f) PROVE Distinct(Without(f, x))
BY DEF Distinct, Without, Restrict

\* One more name, if it is not there, is not too many where there was room for one.
LEMMA CountWith ==
  ASSUME NEW S, NEW x, IsFiniteSet(S), MaxGroups \in Nat,
         (x \in S /\ Cardinality(S) <= MaxGroups) \/ Cardinality(S) < MaxGroups
  PROVE  IsFiniteSet(S \union {x}) /\ Cardinality(S \union {x}) <= MaxGroups
<1>1. Cardinality(S) \in Nat
  BY FS_CardinalityType
<1> QED BY <1>1, FS_AddElement

LEMMA CountWithout ==
  ASSUME NEW S, NEW x, IsFiniteSet(S), MaxGroups \in Nat, Cardinality(S) <= MaxGroups
  PROVE  IsFiniteSet(S \ {x}) /\ Cardinality(S \ {x}) <= MaxGroups
<1>1. Cardinality(S) \in Nat
  BY FS_CardinalityType
<1> QED BY <1>1, FS_RemoveElement

\* An edit of the mapping groups.
LEMMA MappingsKeep ==
  ASSUME RegistryInv, NEW f \in FnSet(MappingGroups, GroupSet),
         IsFiniteSet(DOMAIN f), Cardinality(DOMAIN f) <= MaxGroups, Distinct(f),
         Current => \A g \in DOMAIN f : ValidMapping(f[g]),
         \A p \in Known : registry.providers[p].mapping \in DOMAIN f \union {None},
         Commit([registry EXCEPT !.mappings = f])
  PROVE  RegistryInv'
<1> DEFINE new == [registry EXCEPT !.mappings = f]
<1>1. registry \in DocSet /\ Valid(registry) /\ Countable(registry)
  BY DEF RegistryInv
<1>2. /\ new \in DocSet /\ new.providers = registry.providers /\ new.mappings = f
      /\ new.rules = registry.rules /\ new.active = registry.active /\ new.group = registry.group
      /\ new.settings = registry.settings
  BY <1>1 DEF DocSet
<1>3. Commit(new)
  OBVIOUS
<1> HIDE DEF new
<1>4. Countable(new)
  BY <1>1, <1>2 DEF Countable
<1>5. Current => Valid(new)
  BY <1>1, <1>2 DEF Valid, Known
<1> QED BY <1>2, <1>3, <1>4, <1>5, CommitKeeps

\* An edit of the rule groups, and which of them is in use.
LEMMA RulesKeep ==
  ASSUME RegistryInv, NEW f \in FnSet(RuleGroups, RuleGroupSet), NEW used \in DOMAIN f \union {None},
         IsFiniteSet(DOMAIN f), Cardinality(DOMAIN f) <= MaxGroups, Distinct(f),
         Current => \A g \in DOMAIN f : ValidRules(f[g]),
         \A g \in DOMAIN f : RulesKnown(f[g].rules),
         Commit([registry EXCEPT !.rules = f, !.group = used])
  PROVE  RegistryInv'
<1> DEFINE new == [registry EXCEPT !.rules = f, !.group = used]
<1>1. registry \in DocSet /\ Valid(registry) /\ Countable(registry)
  BY DEF RegistryInv
<1>2. used \in RuleGroups \union {None}
  BY FnSetIs
<1>3. /\ new \in DocSet /\ new.providers = registry.providers /\ new.mappings = registry.mappings
      /\ new.rules = f /\ new.active = registry.active /\ new.group = used
      /\ new.settings = registry.settings
  BY <1>1, <1>2 DEF DocSet
<1>4. Commit(new)
  OBVIOUS
<1> HIDE DEF new
<1>5. Countable(new)
  BY <1>1, <1>3 DEF Countable
<1>6. Current => Valid(new)
  BY <1>1, <1>3 DEF Valid, Known, RulesKnown
<1> QED BY <1>3, <1>4, <1>5, <1>6, CommitKeeps

\* What the edits of groups can rely on.
LEMMA GroupsNow ==
  ASSUME ConstantsFit, RegistryInv
  PROVE  /\ registry.mappings \in FnSet(MappingGroups, GroupSet)
         /\ registry.rules \in FnSet(RuleGroups, RuleGroupSet)
         /\ DOMAIN registry.mappings \subseteq MappingGroups /\ DOMAIN registry.rules \subseteq RuleGroups
         /\ IsFiniteSet(DOMAIN registry.mappings) /\ IsFiniteSet(DOMAIN registry.rules)
         /\ Cardinality(DOMAIN registry.mappings) <= MaxGroups
         /\ Cardinality(DOMAIN registry.rules) <= MaxGroups
         /\ Distinct(registry.mappings) /\ Distinct(registry.rules)
         /\ \A g \in DOMAIN registry.mappings :
              /\ registry.mappings[g] \in GroupSet /\ ValidMapping(registry.mappings[g])
              /\ Current => registry.mappings[g].updated <= wall
         /\ \A g \in DOMAIN registry.rules :
              /\ registry.rules[g] \in RuleGroupSet /\ ValidRules(registry.rules[g])
              /\ RulesKnown(registry.rules[g].rules)
              /\ Current => registry.rules[g].updated <= wall
         /\ \A p \in Known : registry.providers[p].mapping \in DOMAIN registry.mappings \union {None}
         /\ registry.group \in DOMAIN registry.rules \union {None}
         /\ wall \in Nat /\ MaxGroups \in Nat
         /\ None \notin MappingGroups /\ None \notin RuleGroups
<1>1. registry \in DocSet /\ Valid(registry) /\ Countable(registry) /\ wall \in Nat
  BY DEF RegistryInv
<1>2. /\ registry.mappings \in FnSet(MappingGroups, GroupSet)
      /\ registry.rules \in FnSet(RuleGroups, RuleGroupSet)
      /\ DOMAIN registry.mappings \subseteq MappingGroups /\ DOMAIN registry.rules \subseteq RuleGroups
      /\ \A g \in DOMAIN registry.mappings : registry.mappings[g] \in GroupSet
      /\ \A g \in DOMAIN registry.rules : registry.rules[g] \in RuleGroupSet
  BY <1>1, Parts
<1>3. /\ Cardinality(DOMAIN registry.mappings) <= MaxGroups
      /\ Cardinality(DOMAIN registry.rules) <= MaxGroups
      /\ Distinct(registry.mappings) /\ Distinct(registry.rules)
      /\ \A g \in DOMAIN registry.mappings : ValidMapping(registry.mappings[g])
      /\ \A g \in DOMAIN registry.rules :
           ValidRules(registry.rules[g]) /\ RulesKnown(registry.rules[g].rules)
      /\ \A p \in Known : registry.providers[p].mapping \in DOMAIN registry.mappings \union {None}
      /\ registry.group \in DOMAIN registry.rules \union {None}
  BY <1>1 DEF Valid, RulesKnown, Known
<1>4. /\ \A g \in DOMAIN registry.mappings : Current => registry.mappings[g].updated <= wall
      /\ \A g \in DOMAIN registry.rules : Current => registry.rules[g].updated <= wall
  BY DEF Current, Stamps
<1> QED BY <1>1, <1>2, <1>3, <1>4 DEF Countable, ConstantsFit

LEMMA MappingKeeps ==
  ASSUME ConstantsFit, RegistryInv, NEW g \in MappingGroups, NEW group \in GroupSet,
         NameFree(registry.mappings, group.name, g),
         g \in DOMAIN registry.mappings \/ Cardinality(DOMAIN registry.mappings) < MaxGroups,
         Current => ValidMapping(group),
         Commit([registry EXCEPT !.mappings = With(@, g, group)])
  PROVE  RegistryInv'
<1> DEFINE old == registry.mappings
           f == With(old, g, group)
<1>1. /\ old \in FnSet(MappingGroups, GroupSet)
      /\ IsFiniteSet(DOMAIN old) /\ Cardinality(DOMAIN old) <= MaxGroups /\ Distinct(old)
      /\ \A i \in DOMAIN old : ValidMapping(old[i])
      /\ \A p \in Known : registry.providers[p].mapping \in DOMAIN old \union {None}
      /\ MaxGroups \in Nat
  BY GroupsNow
<1>2. NameFree(old, group.name, g) /\ (g \in DOMAIN old \/ Cardinality(DOMAIN old) < MaxGroups)
  OBVIOUS
<1>3. Commit([registry EXCEPT !.mappings = f])
  OBVIOUS
<1> HIDE DEF old
<1>4. /\ f \in FnSet(MappingGroups, GroupSet)
      /\ DOMAIN f = DOMAIN old \union {g} /\ f[g] = group
      /\ \A i \in DOMAIN old : i # g => f[i] = old[i]
  BY <1>1, WithIs
<1>5. Distinct(f)
  BY <1>1, <1>2, DistinctWith
<1> HIDE DEF f
<1>6. IsFiniteSet(DOMAIN f) /\ Cardinality(DOMAIN f) <= MaxGroups
  BY <1>1, <1>2, <1>4, CountWith
<1>7. Current => \A i \in DOMAIN f : ValidMapping(f[i])
  BY <1>1, <1>4
<1>8. \A p \in Known : registry.providers[p].mapping \in DOMAIN f \union {None}
  BY <1>1, <1>4
<1> QED BY <1>3, <1>4, <1>5, <1>6, <1>7, <1>8, MappingsKeep

LEMMA CreateMappingKeeps ==
  ASSUME ConstantsFit, RegistryInv, NEW g \in MappingGroups, NEW name \in Names,
         CreateMappingGroup(g, name)
  PROVE  RegistryInv'
<1> DEFINE group == [name |-> name, created |-> wall, updated |-> wall]
<1>1. wall \in Nat /\ None \notin DOMAIN registry.mappings
  BY GroupsNow
<1>2. group \in GroupSet /\ ValidMapping(group) /\ group.name = name
  BY <1>1 DEF GroupSet, ValidMapping
<1>3. /\ Cardinality(DOMAIN registry.mappings) < MaxGroups
      /\ NameFree(registry.mappings, name, g)
      /\ Commit([registry EXCEPT !.mappings = With(@, g, group)])
  BY <1>1 DEF CreateMappingGroup, NameFree
<1> HIDE DEF group
<1> QED BY <1>2, <1>3, MappingKeeps

LEMMA UpdateMappingKeeps ==
  ASSUME ConstantsFit, RegistryInv, NEW g \in MappingGroups, NEW name \in Names,
         UpdateMappingGroup(g, name)
  PROVE  RegistryInv'
<1> DEFINE old == registry.mappings[g]
           group == [old EXCEPT !.name = name, !.updated = wall]
<1>1. registry \in DocSet /\ g \in DOMAIN registry.mappings
  BY DEF RegistryInv, UpdateMappingGroup
<1>2. [registry EXCEPT !.mappings[g].name = name, !.mappings[g].updated = wall]
        = [registry EXCEPT !.mappings = With(@, g, group)]
  BY <1>1 DEF With, DocSet
<1>3. NameFree(registry.mappings, name, g) /\ Commit([registry EXCEPT !.mappings = With(@, g, group)])
  BY <1>2 DEF UpdateMappingGroup
<1>4. /\ wall \in Nat /\ old \in GroupSet /\ ValidMapping(old)
      /\ Current => old.updated <= wall
  BY <1>1, GroupsNow
<1> HIDE DEF old
<1>5. /\ group \in GroupSet /\ group.name = name /\ group.updated = wall /\ group.created = old.created
  BY <1>4 DEF GroupSet
<1>6. old.created \in Nat /\ old.updated \in Nat
  BY <1>4 DEF GroupSet
<1> HIDE DEF group
<1>7. Current => ValidMapping(group)
  BY <1>4, <1>5, <1>6 DEF ValidMapping
<1> QED BY <1>1, <1>3, <1>5, <1>7, MappingKeeps

\* A mapping group goes only when no profile refers to it.
LEMMA DeleteMappingKeeps ==
  ASSUME ConstantsFit, RegistryInv, NEW g \in MappingGroups, DeleteMappingGroup(g)
  PROVE  RegistryInv'
<1> DEFINE old == registry.mappings
           f == Without(old, g)
<1>1. /\ old \in FnSet(MappingGroups, GroupSet)
      /\ IsFiniteSet(DOMAIN old) /\ Cardinality(DOMAIN old) <= MaxGroups /\ Distinct(old)
      /\ \A i \in DOMAIN old : ValidMapping(old[i])
      /\ \A p \in Known : registry.providers[p].mapping \in DOMAIN old \union {None}
      /\ MaxGroups \in Nat
  BY GroupsNow
<1>2. Commit([registry EXCEPT !.mappings = f]) /\ \A p \in Known : registry.providers[p].mapping # g
  BY DEF DeleteMappingGroup
<1> HIDE DEF old
<1>3. /\ f \in FnSet(MappingGroups, GroupSet)
      /\ DOMAIN f = DOMAIN old \ {g} /\ \A i \in DOMAIN old \ {g} : f[i] = old[i]
  BY <1>1, WithoutIs
<1>4. Distinct(f)
  BY <1>1, DistinctWithout
<1> HIDE DEF f
<1>5. IsFiniteSet(DOMAIN f) /\ Cardinality(DOMAIN f) <= MaxGroups
  <2>1. IsFiniteSet(DOMAIN old \ {g}) /\ Cardinality(DOMAIN old \ {g}) <= MaxGroups
    BY <1>1, CountWithout
  <2> QED BY <1>3, <2>1
<1>6. \A i \in DOMAIN f : ValidMapping(f[i])
  BY <1>1, <1>3
<1>7. \A p \in Known : registry.providers[p].mapping \in DOMAIN f \union {None}
  BY <1>1, <1>2, <1>3
<1> QED BY <1>2, <1>3, <1>4, <1>5, <1>6, <1>7, MappingsKeep

LEMMA RuleGroupKeeps ==
  ASSUME ConstantsFit, RegistryInv, NEW g \in RuleGroups, NEW group \in RuleGroupSet,
         NameFree(registry.rules, group.name, g),
         g \in DOMAIN registry.rules \/ Cardinality(DOMAIN registry.rules) < MaxGroups,
         Current => ValidRules(group), RulesKnown(group.rules),
         Commit([registry EXCEPT !.rules = With(@, g, group)])
  PROVE  RegistryInv'
<1> DEFINE old == registry.rules
           f == With(old, g, group)
           used == registry.group
<1>1. /\ old \in FnSet(RuleGroups, RuleGroupSet)
      /\ IsFiniteSet(DOMAIN old) /\ Cardinality(DOMAIN old) <= MaxGroups /\ Distinct(old)
      /\ \A i \in DOMAIN old : ValidRules(old[i]) /\ RulesKnown(old[i].rules)
      /\ used \in DOMAIN old \union {None}
      /\ MaxGroups \in Nat
  BY GroupsNow
<1>2. NameFree(old, group.name, g) /\ (g \in DOMAIN old \/ Cardinality(DOMAIN old) < MaxGroups)
  OBVIOUS
<1>3. Commit([registry EXCEPT !.rules = f, !.group = used])
  <2>1. registry \in DocSet
    BY DEF RegistryInv
  <2>2. [registry EXCEPT !.rules = f, !.group = used] = [registry EXCEPT !.rules = f]
    BY <2>1 DEF DocSet
  <2>3. [registry EXCEPT !.rules = f] = [registry EXCEPT !.rules = With(@, g, group)]
    OBVIOUS
  <2> HIDE DEF f, used
  <2> QED BY <2>2, <2>3
<1> HIDE DEF old, used
<1>4. /\ f \in FnSet(RuleGroups, RuleGroupSet)
      /\ DOMAIN f = DOMAIN old \union {g} /\ f[g] = group
      /\ \A i \in DOMAIN old : i # g => f[i] = old[i]
  BY <1>1, WithIs
<1>5. Distinct(f)
  BY <1>1, <1>2, DistinctWith
<1> HIDE DEF f
<1>6. IsFiniteSet(DOMAIN f) /\ Cardinality(DOMAIN f) <= MaxGroups
  BY <1>1, <1>2, <1>4, CountWith
<1>7. Current => \A i \in DOMAIN f : ValidRules(f[i])
  BY <1>1, <1>4
<1>8. \A i \in DOMAIN f : RulesKnown(f[i].rules)
  BY <1>1, <1>4
<1>9. used \in DOMAIN f \union {None}
  BY <1>1, <1>4
<1> QED BY <1>3, <1>4, <1>5, <1>6, <1>7, <1>8, <1>9, RulesKeep

LEMMA CreateRulesKeeps ==
  ASSUME ConstantsFit, RegistryInv, NEW g \in RuleGroups, NEW name \in Names, NEW rules \in Rules,
         CreateRuleGroup(g, name, rules)
  PROVE  RegistryInv'
<1> DEFINE group == [name |-> name, rules |-> rules, created |-> wall, updated |-> wall]
<1>1. wall \in Nat /\ None \notin DOMAIN registry.rules
  BY GroupsNow
<1>2. rules \in AnyRules
  BY DEF Rules, AnyRules, FnSet
<1>3. /\ group \in RuleGroupSet /\ ValidRules(group) /\ group.name = name /\ group.rules = rules
  BY <1>1, <1>2 DEF RuleGroupSet, ValidRules
<1>4. /\ Cardinality(DOMAIN registry.rules) < MaxGroups
      /\ NameFree(registry.rules, name, g) /\ RulesKnown(rules)
      /\ Commit([registry EXCEPT !.rules = With(@, g, group)])
  BY <1>1 DEF CreateRuleGroup, NameFree
<1> HIDE DEF group
<1> QED BY <1>3, <1>4, RuleGroupKeeps

LEMMA UpdateRulesKeeps ==
  ASSUME ConstantsFit, RegistryInv, NEW g \in RuleGroups, NEW name \in Names, NEW rules \in Rules,
         UpdateRuleGroup(g, name, rules)
  PROVE  RegistryInv'
<1> DEFINE old == registry.rules[g]
           group == [old EXCEPT !.name = name, !.rules = rules, !.updated = wall]
<1>1. registry \in DocSet /\ g \in DOMAIN registry.rules
  BY DEF RegistryInv, UpdateRuleGroup
<1>2. [registry EXCEPT !.rules[g].name = name, !.rules[g].rules = rules, !.rules[g].updated = wall]
        = [registry EXCEPT !.rules = With(@, g, group)]
  <2>1. [registry EXCEPT !.rules[g].name = name, !.rules[g].rules = rules, !.rules[g].updated = wall]
          = [registry EXCEPT !.rules[g] = group]
    BY <1>1 DEF DocSet
  <2> HIDE DEF group
  <2>2. [registry EXCEPT !.rules[g] = group] = [registry EXCEPT !.rules = With(@, g, group)]
    BY <1>1 DEF With, DocSet
  <2> QED BY <2>1, <2>2
<1>3. /\ NameFree(registry.rules, name, g) /\ RulesKnown(rules)
      /\ Commit([registry EXCEPT !.rules = With(@, g, group)])
  BY <1>2 DEF UpdateRuleGroup
<1>4. /\ wall \in Nat /\ old \in RuleGroupSet /\ ValidRules(old)
      /\ Current => old.updated <= wall
  BY <1>1, GroupsNow
<1>5. rules \in AnyRules
  BY DEF Rules, AnyRules, FnSet
<1> HIDE DEF old
<1>6. /\ group \in RuleGroupSet /\ group.name = name /\ group.rules = rules
      /\ group.updated = wall /\ group.created = old.created
  BY <1>4, <1>5 DEF RuleGroupSet
<1>7. old.created \in Nat /\ old.updated \in Nat
  BY <1>4 DEF RuleGroupSet
<1> HIDE DEF group
<1>8. Current => ValidRules(group)
  BY <1>4, <1>6, <1>7 DEF ValidRules
<1> QED BY <1>1, <1>3, <1>6, <1>8, RuleGroupKeeps

LEMMA WithoutRules ==
  ASSUME NEW f \in FnSet(RuleGroups, RuleGroupSet), NEW g
  PROVE  /\ Without(f, g) \in FnSet(RuleGroups, RuleGroupSet)
         /\ DOMAIN Without(f, g) = DOMAIN f \ {g}
         /\ \A i \in DOMAIN f \ {g} : Without(f, g)[i] = f[i]
<1> DEFINE S == RuleGroupSet
<1> HIDE DEF S
<1>1. f \in FnSet(RuleGroups, S)
  BY DEF S
<1>2. /\ Without(f, g) \in FnSet(RuleGroups, S)
      /\ DOMAIN Without(f, g) = DOMAIN f \ {g}
      /\ \A i \in DOMAIN f \ {g} : Without(f, g)[i] = f[i]
  BY <1>1, WithoutIs
<1> QED BY <1>2 DEF S

\* The group in use is put out of use with its removal.
LEMMA DeleteRulesKeeps ==
  ASSUME ConstantsFit, RegistryInv, NEW g \in RuleGroups, DeleteRuleGroup(g)
  PROVE  RegistryInv'
<1> DEFINE old == registry.rules
           f == Without(old, g)
           used == IF registry.group = g THEN None ELSE registry.group
<1>1. /\ old \in FnSet(RuleGroups, RuleGroupSet)
      /\ IsFiniteSet(DOMAIN old) /\ Cardinality(DOMAIN old) <= MaxGroups /\ Distinct(old)
      /\ \A i \in DOMAIN old : ValidRules(old[i]) /\ RulesKnown(old[i].rules)
      /\ registry.group \in DOMAIN old \union {None}
      /\ MaxGroups \in Nat
  BY GroupsNow
<1>2. Commit([registry EXCEPT !.rules = f, !.group = used])
  <2>1. registry \in DocSet
    BY DEF RegistryInv
  <2>2. [registry EXCEPT !.rules = f, !.group = used]
          = [registry EXCEPT !.rules = Without(@, g), !.group = IF @ = g THEN None ELSE @]
    BY <2>1 DEF DocSet
  <2> HIDE DEF f, used
  <2> QED BY <2>2 DEF DeleteRuleGroup
<1> HIDE DEF old
<1>3. /\ f \in FnSet(RuleGroups, RuleGroupSet)
      /\ DOMAIN f = DOMAIN old \ {g} /\ \A i \in DOMAIN old \ {g} : f[i] = old[i]
  BY <1>1, WithoutRules
<1>4. Distinct(f)
  BY <1>1, DistinctWithout
<1> HIDE DEF f
<1>5. IsFiniteSet(DOMAIN f) /\ Cardinality(DOMAIN f) <= MaxGroups
  <2>1. IsFiniteSet(DOMAIN old \ {g}) /\ Cardinality(DOMAIN old \ {g}) <= MaxGroups
    BY <1>1, CountWithout
  <2> QED BY <1>3, <2>1
<1>6. \A i \in DOMAIN f : ValidRules(f[i]) /\ RulesKnown(f[i].rules)
  BY <1>1, <1>3
<1>7. used \in DOMAIN f \union {None}
  BY <1>1, <1>3
<1> HIDE DEF used
<1> QED BY <1>2, <1>3, <1>4, <1>5, <1>6, <1>7, RulesKeep

LEMMA SetRulesKeeps ==
  ASSUME ConstantsFit, RegistryInv, NEW g \in RuleGroups \union {None}, SetRuleGroup(g)
  PROVE  RegistryInv'
<1> DEFINE new == [registry EXCEPT !.group = g]
<1>1. registry \in DocSet /\ Valid(registry)
  BY DEF RegistryInv
<1>2. /\ new \in DocSet /\ new.providers = registry.providers /\ new.mappings = registry.mappings
      /\ new.rules = registry.rules /\ new.active = registry.active /\ new.group = g
      /\ new.settings = registry.settings
  BY <1>1 DEF DocSet
<1>3. Commit(new) /\ g \in DOMAIN registry.rules \union {None}
  BY DEF SetRuleGroup
<1> HIDE DEF new
<1>4. /\ new.active \in DOMAIN registry.providers \union {None}
      /\ new.group \in DOMAIN registry.rules \union {None} /\ ValidSettings(new.settings)
  BY <1>1, <1>2, <1>3 DEF Valid
<1> QED BY <1>2, <1>3, <1>4, ChoiceKeeps

------------------------
(* Settings *)

\* An edit of the settings, to ones that may be together.
LEMMA SettingsKeep ==
  ASSUME RegistryInv, NEW settings \in SettingsSet, ValidSettings(settings),
         Commit([registry EXCEPT !.settings = settings])
  PROVE  RegistryInv'
<1> DEFINE new == [registry EXCEPT !.settings = settings]
<1>1. registry \in DocSet /\ Valid(registry)
  BY DEF RegistryInv
<1>2. /\ new \in DocSet /\ new.providers = registry.providers /\ new.mappings = registry.mappings
      /\ new.rules = registry.rules /\ new.active = registry.active
      /\ new.group = registry.group /\ new.settings = settings
  BY <1>1 DEF DocSet
<1>3. Commit(new)
  OBVIOUS
<1> HIDE DEF new
<1>4. /\ new.active \in DOMAIN registry.providers \union {None}
      /\ new.group \in DOMAIN registry.rules \union {None}
  BY <1>1, <1>2 DEF Valid
<1> QED BY <1>2, <1>3, <1>4, ChoiceKeeps

LEMMA SettingsEditsKeep ==
  ASSUME RegistryInv, SettingsEdits
  PROVE  RegistryInv'
<1> DEFINE old == registry.settings
<1>1. registry \in DocSet /\ old \in SettingsSet /\ ValidSettings(old)
  BY Parts DEF RegistryInv, Valid
<1>2. PICK on \in BOOLEAN :
        \/ SetProxyHost(on) \/ SetApiKeyAuth(on) \/ SetRoutingMode(on)
        \/ SetCapture(on) \/ SetCaptureDetails(on)
        \/ \E details \in BOOLEAN : RestoreCapture(on, details)
  BY DEF SettingsEdits
<1>3. CASE SetProxyHost(on)
  <2> DEFINE new == [old EXCEPT !.public = on, !.auth = @ \/ on]
  <2>1. [registry EXCEPT !.settings.public = on, !.settings.auth = @ \/ on]
          = [registry EXCEPT !.settings = new]
    BY <1>1 DEF DocSet, SettingsSet
  <2>2. Commit([registry EXCEPT !.settings = new])
    BY <1>3, <2>1 DEF SetProxyHost
  <2>3. new \in SettingsSet /\ ValidSettings(new)
    BY <1>1 DEF SettingsSet, ValidSettings
  <2> HIDE DEF new
  <2> QED BY <2>2, <2>3, SettingsKeep
<1>4. CASE SetApiKeyAuth(on)
  <2> DEFINE new == [old EXCEPT !.auth = on]
  <2>1. [registry EXCEPT !.settings.auth = on] = [registry EXCEPT !.settings = new]
    BY <1>1 DEF DocSet, SettingsSet
  <2>2. Commit([registry EXCEPT !.settings = new]) /\ (old.public => on)
    BY <1>4, <2>1 DEF SetApiKeyAuth
  <2>3. new \in SettingsSet /\ ValidSettings(new)
    BY <1>1, <2>2 DEF SettingsSet, ValidSettings
  <2> HIDE DEF new
  <2> QED BY <2>2, <2>3, SettingsKeep
<1>5. CASE SetRoutingMode(on)
  <2> DEFINE new == [old EXCEPT !.first = on]
  <2>1. [registry EXCEPT !.settings.first = on] = [registry EXCEPT !.settings = new]
    BY <1>1 DEF DocSet, SettingsSet
  <2>2. Commit([registry EXCEPT !.settings = new])
    BY <1>5, <2>1 DEF SetRoutingMode
  <2>3. new \in SettingsSet /\ ValidSettings(new)
    BY <1>1 DEF SettingsSet, ValidSettings
  <2> HIDE DEF new
  <2> QED BY <2>2, <2>3, SettingsKeep
<1>6. CASE SetCapture(on)
  <2> DEFINE new == [old EXCEPT !.capture = on, !.details = @ /\ on]
  <2>1. [registry EXCEPT !.settings.capture = on, !.settings.details = @ /\ on]
          = [registry EXCEPT !.settings = new]
    BY <1>1 DEF DocSet, SettingsSet
  <2>2. Commit([registry EXCEPT !.settings = new])
    BY <1>6, <2>1 DEF SetCapture
  <2>3. new \in SettingsSet /\ ValidSettings(new)
    BY <1>1 DEF SettingsSet, ValidSettings
  <2> HIDE DEF new
  <2> QED BY <2>2, <2>3, SettingsKeep
<1>7. CASE SetCaptureDetails(on)
  <2> DEFINE new == [old EXCEPT !.details = on]
  <2>1. [registry EXCEPT !.settings.details = on] = [registry EXCEPT !.settings = new]
    BY <1>1 DEF DocSet, SettingsSet
  <2>2. Commit([registry EXCEPT !.settings = new]) /\ (on => old.capture)
    BY <1>7, <2>1 DEF SetCaptureDetails
  <2>3. new \in SettingsSet /\ ValidSettings(new)
    BY <1>1, <2>2 DEF SettingsSet, ValidSettings
  <2> HIDE DEF new
  <2> QED BY <2>2, <2>3, SettingsKeep
<1>8. CASE \E details \in BOOLEAN : RestoreCapture(on, details)
  <2>0. PICK details \in BOOLEAN : RestoreCapture(on, details)
    BY <1>8
  <2> DEFINE new == [old EXCEPT !.capture = on, !.details = details]
  <2>1. [registry EXCEPT !.settings.capture = on, !.settings.details = details]
          = [registry EXCEPT !.settings = new]
    BY <1>1 DEF DocSet, SettingsSet
  <2>2. Commit([registry EXCEPT !.settings = new]) /\ (details => on)
    BY <2>0, <2>1 DEF RestoreCapture
  <2>3. new \in SettingsSet /\ ValidSettings(new)
    BY <1>1, <2>2 DEF SettingsSet, ValidSettings
  <2> HIDE DEF new
  <2> QED BY <2>2, <2>3, SettingsKeep
<1> QED BY <1>2, <1>3, <1>4, <1>5, <1>6, <1>7, <1>8

------------------------
(* The theorems *)

LEMMA ProviderEditsKeep ==
  ASSUME ConstantsFit, RegistryInv, ProviderEdits
  PROVE  RegistryInv'
<1>1. PICK p \in Providers :
        \/ Delete(p) \/ SetActiveIfNull(p) \/ ClearActiveIf(p)
        \/ \E fallback \in Providers \union {None} : DeleteWithActiveFallback(p, fallback)
        \/ \E status \in Statuses : MarkTest(p, status)
        \/ \E weight \in Weights : SetWeight(p, weight)
        \/ \E auto \in BOOLEAN, models, custom \in SUBSET Models :
             SetSupportedModels(p, auto, models, custom)
        \/ \E name \in Names, override \in Overrides, mapping \in Mappings :
             \/ \E weight \in Weights : Create(p, name, weight, override, mapping)
             \/ \E moved, preserve \in BOOLEAN : Update(p, name, override, mapping, moved, preserve)
  BY DEF ProviderEdits
<1>2. CASE Delete(p)
  <2>1. /\ p \in Known /\ registry.active # p
        /\ Commit(Removed(p, registry.active))
    BY <1>2 DEF Delete
  <2>2. registry.active \in Known \union {None}
    BY DEF RegistryInv, Valid, Known
  <2>3. registry.active \in (Known \ {p}) \union {None}
    BY <2>1, <2>2
  <2> QED BY <2>1, <2>3, RemovedKeeps
<1>3. CASE SetActiveIfNull(p)
  BY <1>3, ActiveKeeps DEF SetActiveIfNull
<1>4. CASE ClearActiveIf(p)
  BY <1>4, ActiveKeeps DEF ClearActiveIf
<1>5. CASE \E fallback \in Providers \union {None} : DeleteWithActiveFallback(p, fallback)
  BY <1>5, RemovedKeeps DEF DeleteWithActiveFallback
<1>6. CASE \E status \in Statuses : MarkTest(p, status)
  BY <1>6, MarkTestKeeps
<1>7. CASE \E weight \in Weights : SetWeight(p, weight)
  BY <1>7, SetWeightKeeps
<1>8. CASE \E auto \in BOOLEAN, models, custom \in SUBSET Models :
             SetSupportedModels(p, auto, models, custom)
  BY <1>8, SetModelsKeeps
<1>9. CASE \E name \in Names, override \in Overrides, mapping \in Mappings, weight \in Weights :
              Create(p, name, weight, override, mapping)
  <2>1. Overrides \subseteq BOOLEAN
    BY DEF Overrides
  <2> QED BY <1>9, <2>1, CreateKeeps
<1>10. CASE \E name \in Names, override \in Overrides, mapping \in Mappings, moved, preserve \in BOOLEAN :
              Update(p, name, override, mapping, moved, preserve)
  <2>1. Overrides \subseteq BOOLEAN
    BY DEF Overrides
  <2> QED BY <1>10, <2>1, UpdateKeeps
<1> QED BY <1>1, <1>2, <1>3, <1>4, <1>5, <1>6, <1>7, <1>8, <1>9, <1>10

LEMMA RegistryInit == ConstantsFit /\ Init => RegistryInv
<1> SUFFICES ASSUME ConstantsFit, Init PROVE RegistryInv
  OBVIOUS
<1>1. \A D, S : Empty \in FnSet(D, S)
  BY FnSetIs DEF Empty
<1>2. DOMAIN Empty = {}
  BY DEF Empty
<1>3. /\ registry.providers = Empty /\ registry.mappings = Empty /\ registry.rules = Empty
      /\ registry.active = None /\ registry.group = None
      /\ registry.settings \in SettingsSet /\ ValidSettings(registry.settings)
  BY DEF Init, EmptyDocument, SettingsSet, ValidSettings
<1>4. registry \in DocSet
  BY <1>1 DEF Init, EmptyDocument, DocSet, SettingsSet
<1>5. IsFiniteSet({}) /\ Cardinality({}) = 0
  BY FS_EmptySet
<1>6. MaxGroups \in Nat
  BY DEF ConstantsFit
<1>7. Valid(registry)
  BY <1>2, <1>3, <1>5, <1>6 DEF Valid, Distinct
<1>8. Countable(registry)
  BY <1>2, <1>3, <1>5 DEF Countable
<1> QED BY <1>4, <1>7, <1>8 DEF Init, RegistryInv, EditsStayValid

LEMMA RegistryStep == ConstantsFit /\ RegistryInv /\ [Next]_vars => RegistryInv'
<1> SUFFICES ASSUME ConstantsFit, RegistryInv, [Next]_vars PROVE RegistryInv'
  OBVIOUS
<1>1. CASE ProviderEdits
  BY <1>1, ProviderEditsKeep
<1>2. CASE GroupEdits
  BY <1>2, CreateMappingKeeps, UpdateMappingKeeps, DeleteMappingKeeps, CreateRulesKeeps,
     UpdateRulesKeeps, DeleteRulesKeeps, SetRulesKeeps DEF GroupEdits
<1>3. CASE SettingsEdits
  BY <1>3, SettingsEditsKeep
<1>4. CASE Tick
  BY <1>4 DEF Tick, Times, ConstantsFit, RegistryInv, EditsStayValid
<1>5. CASE \E p \in Providers \union {None} : SetActive(p)
  BY <1>5, ActiveKeeps DEF SetActive
<1>6. CASE UNCHANGED vars
  BY <1>6 DEF vars, RegistryInv, EditsStayValid, Stamps, Known
<1> QED BY <1>1, <1>2, <1>3, <1>4, <1>5, <1>6 DEF Next

LEMMA RegistryStaysValid == ConstantsFit => (Spec => []RegistryInv)
<1> SUFFICES ASSUME ConstantsFit PROVE Spec => []RegistryInv
  OBVIOUS
<1> QED BY RegistryInit, RegistryStep, PTL DEF Spec

\* provider-registry.mjs: no edit of a valid registry is refused as a broken registry, unless
\* something in it was changed later than the clock says it is now.
THEOREM EditsAreNotRefused == ConstantsFit => (Spec => []EditsStayValid)
<1> SUFFICES ASSUME ConstantsFit PROVE Spec => []EditsStayValid
  OBVIOUS
<1>1. RegistryInv => EditsStayValid
  BY DEF RegistryInv
<1> QED BY <1>1, RegistryStaysValid, PTL
=============================================================================
