------------------------ MODULE ProviderServiceProofs ------------------------
(***************************************************************************)
(* Theorems about ProviderService, for any providers, calls, faults and    *)
(* generations.  First, what its transactions leave behind in the registry *)
(* and in the credential store, whatever the Worker does meanwhile: the    *)
(* steps of the manager leave the stores and the operation alone, and what *)
(* an answer decides is only where the operation goes.  Then, that the     *)
(* Worker serves what the registry says, which needs to know what the      *)
(* manager has confirmed, and what of it is the candidate of an operation. *)
(* Last, that one fault is undone, which needs to know, for each way into  *)
(* a rollback, that it took a fault to get there.                          *)
(***************************************************************************)
EXTENDS ProviderService, TLAPS

------------------------
(* The inductive invariant *)

\* The fields of an operation, each of them and no other.
IsOp(o) ==
  o = [kind |-> o.kind, step |-> o.step, id |-> o.id, prev |-> o.prev, next |-> o.next,
       running |-> o.running, prior |-> o.prior, gen |-> o.gen, cand |-> o.cand,
       persisted |-> o.persisted, warned |-> o.warned, attempted |-> o.attempted,
       broken |-> o.broken]

ShapeInv ==
  /\ document \in Document /\ secret \in BOOLEAN
  /\ IsOp(op)
  /\ op.prev \in Document /\ op.next \in Document
  /\ op.kind \in Operations \union {"none"}
  /\ op.step = "none" <=> op = NoOp
  /\ op.kind = "test" => op.id \in Providers
  /\ op.persisted \in BOOLEAN /\ op.broken \in BOOLEAN

\* Which operation can be where.
KindsInv ==
  /\ op.step = "none" <=> op.kind = "none"
  /\ op.step = "probe" => op.kind = "test"
  /\ op.step \in {"select", "selected", "clear"} => op.kind = "test"
  /\ op.step \in {"set", "unset"} => op.kind \in {"secret", "create"}
  /\ op.step \in {"reset", "unmark", "restore"} => op.kind = "secret"
  /\ op.step = "forget" => op.kind = "delete"
  /\ op.step = "rebuild" => op.kind = "details"
  /\ op.step = "fallback" => op.kind \in Hot
  /\ op.step = "commit" => op.kind \notin {"none", "test", "start", "restart", "stop"}
  /\ op.step = "undo" => op.kind \in Hot \union {"activate", "weight", "mode", "capture"}
  /\ op.step \in {"build", "call", "called"} =>
       op.kind \in Hot \union {"activate", "weight", "mode", "capture", "start", "restart",
                              "stop"}
  /\ op.step \in {"call", "called"} => op.kind \in {"start", "restart", "stop"} \/ op.persisted
  /\ op.step = "record" => op.kind \in {"start", "restart", "stop", "test"} \/ op.persisted
  /\ op.step = "build" =>
       (op.kind \in {"activate", "mode", "start", "restart"} <=> ~op.persisted)
  /\ op.step \in {"fallback", "forget", "undo"} => op.persisted
  /\ op.step \in {"probe", "set", "reset", "commit"} => ~op.persisted
  /\ op.kind \in {"start", "restart", "stop"} => ~op.persisted
  /\ op.step \in {"cleanup", "cleaned"} => op.kind \in {"start", "restart"}
  /\ op.step \in {"undocall", "undone"} =>
       op.kind \in Hot \union {"activate", "weight", "mode", "capture"}

\* What an operation asks for: what it leaves of the document, so that its rollback, which
\* writes back the rest, restores the document.
Asked(o) ==
  CASE o.kind = "activate" -> /\ o.next.providers = o.prev.providers
                              /\ o.next.tested = o.prev.tested
                              /\ o.next.settings = o.prev.settings
    [] o.kind \in {"weight", "mode", "details"} ->
         /\ o.next.providers = o.prev.providers
         /\ o.next.active = o.prev.active /\ o.next.tested = o.prev.tested
         /\ o.prev.settings = [o.next.settings EXCEPT ![o.kind] = o.prev.settings[o.kind]]
    [] o.kind = "capture" ->
         /\ o.next.providers = o.prev.providers
         /\ o.next.active = o.prev.active /\ o.next.tested = o.prev.tested
         /\ o.prev.settings = [o.next.settings EXCEPT
                                 !["capture"] = o.prev.settings["capture"],
                                 !["details"] = o.prev.settings["details"]]
    [] o.kind \in {"start", "restart", "stop", "test"} -> o.next = o.prev
    [] o.kind = "create" -> o.next.providers = o.prev.providers \union {o.id}
    [] o.kind = "delete" -> o.next.providers = o.prev.providers \ {o.id}
    [] OTHER -> o.next.providers = o.prev.providers

\* Where the document stands: as it was, as asked (a hot mutation may have fallen back to
\* another provider), or as it was again.
Before == {"probe", "set", "reset", "commit"}
Applied ==
  document = IF op.kind \in Hot THEN [op.next EXCEPT !.active = document.active] ELSE op.next
Restored ==
  document = IF op.kind = "details" THEN [op.prev EXCEPT !.active = document.active]
             ELSE op.prev

DocumentInv ==
  /\ op.step # "none" => Asked(op)
  /\ op.kind = "test" =>
       IF op.step \in {"selected", "clear"} THEN op.prev.active = NoProvider
       ELSE document.active = op.prev.active
  /\ op.kind \notin {"test", "secret"} =>
       /\ op.step \in Before \union {"unset"} => document = op.prev
       /\ op.step \in {"build", "call", "called", "record", "cleanup", "cleaned"}
          /\ ~op.persisted => document = op.prev
       /\ op.step \in {"fallback", "build", "call", "called", "record", "forget", "undo"}
          /\ op.persisted => Applied
  /\ op.kind = "secret" /\ op.step \in {"set", "reset"} => document = op.prev
  /\ op.kind = "secret" => op.prev.providers = document.providers
  /\ op.step \in {"restore", "rebuild", "undocall", "undone"} /\ ~op.broken => Restored

\* Where the secret stands.
SecretInv ==
  op.kind = "secret" =>
    /\ op.step \in {"set", "unmark"} => ~secret
    /\ op.step \in {"reset", "commit", "fallback", "build", "call", "called", "record"} => secret
    /\ op.step \in {"undocall", "undone"} /\ ~op.broken => ~secret

\* Where the credentials stand.
CredentialsInv ==
  /\ document.providers \subseteq credentials
  /\ op.step = "forget" => op.id \notin document.providers
  /\ op.kind = "create" /\ op.step \in {"set", "commit", "unset"} =>
       op.id \notin document.providers
  /\ op.kind = "create" /\ op.step = "set" => op.id \notin credentials
  /\ op.kind = "create" /\ op.step = "commit" => op.id \in credentials
  /\ ~(op.kind = "delete" /\ op.step = "record") => op.prev.providers \subseteq credentials

TransactionInv == ShapeInv /\ KindsInv /\ DocumentInv /\ SecretInv /\ CredentialsInv

\* What the step that ends an operation must be.
FailureUndoes ==
  Ends({"failed"}) =>
    /\ IF op.kind = "test" THEN document'.active = op.prev.active
       ELSE document' = IF op.kind = "details" THEN [op.prev EXCEPT !.active = document'.active]
                        ELSE op.prev
    /\ op.kind = "secret" => ~secret'
    /\ op.kind = "create" => op.id \notin credentials'

SuccessApplies ==
  Ends({"ok", "committed", "unrecorded"}) =>
    /\ op.kind \notin {"test", "secret"} =>
         /\ document'.settings = op.next.settings
         /\ document'.providers = op.next.providers
    /\ op.kind \in {"activate", "start", "restart"} => document'.active = op.next.active
    /\ op.kind = "secret" => secret'

Kept == TransactionInv' /\ FailureUndoes /\ SuccessApplies

------------------------
(* How steps change op, and the documents they write *)

\* The same operation, at another step.
Moves(o, step) ==
  /\ IsOp(op') /\ op'.step = step
  /\ op'.kind = o.kind /\ op'.id = o.id /\ op'.prev = o.prev /\ op'.next = o.next
  /\ op'.persisted = o.persisted /\ op'.broken = o.broken

LEMMA NoOpFields ==
  /\ IsOp(NoOp) /\ NoOp.step = "none" /\ NoOp.kind = "none"
  /\ NoOp.prev = NoDocument /\ NoOp.next = NoDocument
  /\ NoOp.persisted = FALSE /\ NoOp.broken = FALSE
  BY DEF IsOp, NoOp

LEMMA GoMoves ==
  ASSUME NEW step, IsOp(op), Go(step)
  PROVE  Moves(op, step)
  BY DEF IsOp, Go, Moves

LEMMA ProceedMoves ==
  ASSUME NEW o, NEW step, IsOp(o), Proceed(o, step)
  PROVE  \/ Moves(o, step)
         \/ op' = NoOp /\ outcome'.result = "committed"
            /\ step = "record" /\ o.kind \notin {"mode", "capture"}
  BY DEF IsOp, Proceed, EndsWarned, Moves, Finish

LEMMA UndoMoves ==
  ASSUME NEW broken \in BOOLEAN, NEW step, IsOp(op), UndoProceeds(broken, step)
  PROVE  IF step = "none"
         THEN op' = NoOp /\ outcome'.result = (IF broken THEN "degraded" ELSE "failed")
         ELSE /\ IsOp(op') /\ op'.step = step
              /\ op'.kind = op.kind /\ op'.id = op.id /\ op'.prev = op.prev
              /\ op'.next = op.next /\ op'.persisted = op.persisted /\ op'.broken = broken
<1>1. CASE step = "none"
  BY <1>1 DEF UndoProceeds, Undone, Finish
<1>2. CASE step # "none"
  <2>1. /\ IsOp(op') /\ op'.step = step
        /\ op'.kind = op.kind /\ op'.id = op.id /\ op'.prev = op.prev
        /\ op'.next = op.next /\ op'.persisted = op.persisted /\ op'.broken = broken
    BY <1>2 DEF IsOp, UndoProceeds
  <2> QED BY <1>2, <2>1
<1> QED BY <1>1, <1>2

LEMMA DocumentFields ==
  ASSUME NEW doc \in Document
  PROVE  /\ doc.providers \subseteq Providers /\ doc.tested \subseteq Providers
         /\ doc.active \in Providers \union {NoProvider}
         /\ doc.settings \in [Settings -> BOOLEAN]
  BY DEF Document

LEMMA WithActive ==
  ASSUME NEW doc \in Document, NEW active \in Providers \union {NoProvider},
         NEW new, new = [doc EXCEPT !.active = active]
  PROVE  /\ new \in Document
         /\ new.providers = doc.providers /\ new.tested = doc.tested
         /\ new.active = active /\ new.settings = doc.settings
  BY DEF Document

LEMMA WithTested ==
  ASSUME NEW doc \in Document, NEW tested \in SUBSET Providers,
         NEW new, new = [doc EXCEPT !.tested = tested]
  PROVE  /\ new \in Document
         /\ new.providers = doc.providers /\ new.tested = tested
         /\ new.active = doc.active /\ new.settings = doc.settings
  BY DEF Document

LEMMA WithSettings ==
  ASSUME NEW doc \in Document, NEW settings \in [Settings -> BOOLEAN],
         NEW new, new = [doc EXCEPT !.settings = settings]
  PROVE  /\ new \in Document
         /\ new.providers = doc.providers /\ new.tested = doc.tested
         /\ new.active = doc.active /\ new.settings = settings
  BY DEF Document

\* Documents with the same fields are the same.
LEMMA SameDocument ==
  ASSUME NEW c \in Document, NEW d \in Document,
         c.providers = d.providers, c.tested = d.tested, c.active = d.active,
         c.settings = d.settings
  PROVE  c = d
  BY DEF Document

LEMMA Toggled ==
  ASSUME NEW s \in Settings, document \in Document
  PROVE  /\ Toggle(s) \in Document
         /\ Toggle(s).providers = document.providers /\ Toggle(s).tested = document.tested
         /\ Toggle(s).active = document.active
         /\ document.settings = [Toggle(s).settings EXCEPT ![s] = document.settings[s]]
  BY DEF Toggle, Document

LEMMA PersistDocument ==
  ASSUME NEW new \in Document, NEW c \in Commits, document \in Document, Persist(new, c)
  PROVE  /\ document' = IF c = "refused" THEN document ELSE new
         /\ document' \in Document
  BY DEF Persist

LEMMA NoDocumentType == NoDocument \in Document
  BY DEF NoDocument, Document

------------------------
(* Steps that end the operation, and steps that leave it where it is *)

LEMMA EndKeeps ==
  ASSUME TransactionInv, op' = NoOp, document' \in Document, secret' \in BOOLEAN,
         document'.providers \subseteq credentials'
  PROVE  TransactionInv'
<1>1. ShapeInv'
  BY NoOpFields, NoDocumentType DEF ShapeInv
<1> QED
  BY <1>1, NoOpFields DEF TransactionInv, DocumentInv, SecretInv, Before, CredentialsInv,
     NoDocument, KindsInv, Hot

LEMMA FinishEnds ==
  ASSUME NEW result, Finish(result)
  PROVE  op' = NoOp /\ outcome'.result = result
  BY DEF Finish

LEMMA StaysKept ==
  ASSUME TransactionInv, UNCHANGED <<document, credentials, secret, op>>
  PROVE  Kept
<1>1. TransactionInv'
  BY DEF TransactionInv, ShapeInv, KindsInv, DocumentInv, Asked, Applied, Restored, SecretInv,
         CredentialsInv
<1> QED
  BY <1>1 DEF Kept, FailureUndoes, SuccessApplies, Ends, Idle

------------------------
(* The begin of each operation *)

\* Where an operation begins.
Opens(kind, step) ==
  \/ step = "commit" /\ kind \in {"weight", "mode", "capture", "host", "rules", "details",
                                  "delete", "group"}
  \/ step = "set" /\ kind \in {"secret", "create"}
  \/ step = "build" /\ kind \in {"activate", "mode", "start", "restart"}
  \/ step = "record" /\ kind = "start"
  \/ step = "call" /\ kind = "stop"

LEMMA BeginKeeps ==
  ASSUME TransactionInv, Idle,
         NEW kind \in Operations, NEW id, NEW step, NEW next \in Document, NEW gen,
         Begin(kind, id, step, next, gen), Opens(kind, step),
         Asked([kind |-> kind, id |-> id, prev |-> document, next |-> next]),
         kind = "create" => id \notin document.providers \union credentials,
         kind = "secret" => ~secret
  PROVE  Kept
<1> USE DEF TransactionInv
<1>1. /\ IsOp(op') /\ op'.kind = kind /\ op'.id = id /\ op'.step = step
      /\ op'.prev = document /\ op'.next = next
      /\ op'.persisted = FALSE /\ op'.broken = FALSE
      /\ UNCHANGED <<document, credentials, secret>>
  BY DEF IsOp, NoOp, Begin, storeVars
<1>2. step # "none" /\ op' # NoOp
  BY <1>1, NoOpFields DEF Opens
<1>3. KindsInv'
  BY <1>1, <1>2 DEF KindsInv, Opens, Hot
<1>4. DocumentInv'
  BY <1>1, <1>2 DEF DocumentInv, Opens, Before, Asked
<1> QED
  BY <1>2, <1>1, <1>3, <1>4 DEF Kept, FailureUndoes, SuccessApplies, Ends, CredentialsInv,
     Opens, SecretInv, ShapeInv

LEMMA RejectKeeps ==
  ASSUME TransactionInv, Idle, NEW kind, Reject(kind)
  PROVE  Kept
<1> QED BY StaysKept DEF Reject, storeVars

LEMMA IdleFields ==
  ASSUME TransactionInv
  PROVE  /\ document \in Document
         /\ document.providers \subseteq Providers /\ document.tested \subseteq Providers
         /\ document.active \in Providers \union {NoProvider}
         /\ document.settings \in [Settings -> BOOLEAN]
         /\ secret \in BOOLEAN
  BY DocumentFields DEF TransactionInv, ShapeInv

\* Operations that toggle a setting.
LEMMA ToggleKeeps ==
  ASSUME TransactionInv, Idle, NEW kind \in Operations, NEW s \in Settings, NEW step, NEW gen,
         kind \in {"weight", "mode", "details", "host", "rules"}, s = kind,
         Begin(kind, NoProvider, step, Toggle(s), gen), Opens(kind, step)
  PROVE  Kept
<1>1. /\ Toggle(s) \in Document
      /\ Toggle(s).providers = document.providers /\ Toggle(s).tested = document.tested
      /\ Toggle(s).active = document.active
      /\ document.settings = [Toggle(s).settings EXCEPT ![s] = document.settings[s]]
  BY IdleFields, Toggled
<1>2. Asked([kind |-> kind, id |-> NoProvider, prev |-> document, next |-> Toggle(s)])
  <2> DEFINE next == Toggle(s)
  <2> HIDE DEF next
  <2> QED BY <1>1 DEF next, Asked
<1> QED
  BY <1>1, <1>2, BeginKeeps

\* Operations that ask for nothing but the Worker, or for what they find.
LEMMA SameKeeps ==
  ASSUME TransactionInv, Idle, NEW kind \in Operations, NEW id, NEW step, NEW gen,
         kind \in {"start", "restart", "stop", "group", "rules"},
         Begin(kind, id, step, document, gen), Opens(kind, step)
  PROVE  Kept
<1> QED
  BY IdleFields, BeginKeeps DEF Asked

LEMMA CallsKeep ==
  ASSUME TransactionInv, Calls
  PROVE  Kept
<1> USE IdleFields
<1>1. ASSUME NEW kind, MayCall(kind) PROVE Idle /\ kind \in Operations
  BY <1>1 DEF MayCall
<1>2. ASSUME NEW id \in Providers, Activate(id) PROVE Kept
  <2> DEFINE next == [document EXCEPT !.active = id]
  <2>1. /\ next \in Document /\ next.providers = document.providers
        /\ next.tested = document.tested /\ next.settings = document.settings
    BY WithActive
  <2>2. Asked([kind |-> "activate", id |-> id, prev |-> document, next |-> next])
    <3> HIDE DEF next
    <3> QED BY <2>1 DEF Asked
  <2>3. Begin("activate", id, "build", next, confirmedGeneration + 1) \/ Reject("activate")
    BY <1>2 DEF Activate
  <2> HIDE DEF next
  <2> QED
    BY <2>1, <2>2, <1>1, <1>2, <2>3, BeginKeeps, RejectKeeps DEF Opens, Activate
<1>3. ASSUME NEW id \in Providers, UpdateSecret(id) PROVE Kept
  <2> DEFINE tested == IF phase = "running" THEN Toggle("rules").tested
                       ELSE Toggle("rules").tested \ {id}
             next == [Toggle("rules") EXCEPT
                        !.tested = IF phase = "running" THEN @ ELSE @ \ {id}]
  <2>1. Toggle("rules") \in Document /\ Toggle("rules").providers = document.providers
        /\ Toggle("rules").tested = document.tested
    BY Toggled DEF Settings
  <2>2. next = [Toggle("rules") EXCEPT !.tested = tested] /\ tested \in SUBSET Providers
    BY <2>1
  <2>3. next \in Document /\ next.providers = document.providers
    <3> HIDE DEF next, tested
    <3> QED BY <2>1, <2>2, WithTested
  <2>4. Begin("secret", id, "set", next, confirmedGeneration) \/ Reject("secret")
    BY <1>3 DEF UpdateSecret, BeginHot
  <2> HIDE DEF next
  <2> QED
    BY <2>3, <1>1, <1>3, <2>4, BeginKeeps, RejectKeeps DEF Opens, Asked, UpdateSecret
<1>4. ASSUME NEW id \in Providers, DeleteProvider(id) PROVE Kept
  <2>1. PICK fallback \in IF document.active # id THEN {document.active}
                          ELSE IF document.tested \ {id} = {} THEN {NoProvider}
                          ELSE document.tested \ {id} :
          BeginHot("delete", id, "commit",
                   [document EXCEPT !.providers = @ \ {id}, !.tested = @ \ {id},
                                    !.active = fallback])
    BY <1>4 DEF DeleteProvider
  <2> DEFINE next == [document EXCEPT !.providers = @ \ {id}, !.tested = @ \ {id},
                                      !.active = fallback]
  <2>2. next \in Document /\ next.providers = document.providers \ {id}
    BY DEF Document
  <2>3. Begin("delete", id, "commit", next, confirmedGeneration) \/ Reject("delete")
    BY <2>1 DEF BeginHot
  <2> HIDE DEF next
  <2> QED
    BY <2>2, <1>1, <1>4, <2>3, BeginKeeps, RejectKeeps DEF Opens, Asked, DeleteProvider
<1>5. ASSUME NEW id \in Providers, CreateProvider(id) PROVE Kept
  <2> DEFINE next == [document EXCEPT !.providers = @ \union {id}]
  <2>1. Begin("create", id, "set", next, confirmedGeneration)
    BY <1>5 DEF CreateProvider
  <2> HIDE DEF next
  <2> QED
    BY <1>1, <1>5, <2>1, BeginKeeps DEF Opens, CreateProvider, Asked, Document
<1>6. ASSUME NEW id \in Providers, NEW activateIfNone \in BOOLEAN,
             TestProvider(id, activateIfNone)
      PROVE  Kept
  <2>1. CASE Reject("test")
    BY <1>1, <1>6, <2>1, RejectKeeps DEF TestProvider
  <2>2. CASE ~Reject("test")
    <3>1. /\ op' = [NoOp EXCEPT !.kind = "test", !.id = id, !.step = "probe",
                      !.prev = document, !.next = document, !.warned = activateIfNone,
                      !.running = (id \in document.tested /\ phase = "running")]
          /\ UNCHANGED <<document, credentials, secret>>
      BY <1>6, <2>2 DEF TestProvider, storeVars
    <3>2. /\ IsOp(op') /\ op'.kind = "test" /\ op'.id = id /\ op'.step = "probe"
          /\ op'.prev = document /\ op'.next = document
          /\ op'.persisted = FALSE /\ op'.broken = FALSE
      BY <3>1 DEF IsOp, NoOp
    <3>3. "test" \in Operations /\ op' # NoOp /\ Idle
      BY <1>1, <1>6, <3>2, NoOpFields DEF TestProvider
    <3>4. DocumentInv' /\ SecretInv' /\ CredentialsInv'
      BY <3>1, <3>2, <3>3 DEF TransactionInv, DocumentInv, Asked, SecretInv, CredentialsInv
    <3> QED
      BY <3>3, <3>1, <3>2, <3>4 DEF Kept, TransactionInv, FailureUndoes, SuccessApplies, Ends,
         ShapeInv, KindsInv
  <2> QED BY <2>1, <2>2
<1>7. CASE SetProviderWeight
  BY <1>1, <1>7, ToggleKeeps, RejectKeeps DEF SetProviderWeight, Settings, Opens
<1>8. CASE SetRoutingMode
  BY <1>1, <1>8, ToggleKeeps, RejectKeeps DEF SetRoutingMode, Settings, Opens
<1>9. CASE SetCaptureEnabled
  <2> DEFINE on == ~document.settings["capture"]
             settings == WithCapture(document.settings, on)
             next == [document EXCEPT !.settings = WithCapture(@, ~@["capture"])]
  <2>1. /\ settings \in [Settings -> BOOLEAN]
        /\ document.settings = [settings EXCEPT !["capture"] = document.settings["capture"],
                                                !["details"] = document.settings["details"]]
    BY DEF WithCapture, Settings
  <2>2. next = [document EXCEPT !.settings = settings]
    OBVIOUS
  <2>3. /\ next \in Document /\ next.providers = document.providers
        /\ next.tested = document.tested /\ next.active = document.active
        /\ next.settings = settings
    <3> HIDE DEF next, settings
    <3> QED BY <2>1, <2>2, WithSettings
  <2>4. \/ \E gen : Begin("capture", NoProvider, "commit", next, gen)
        \/ Reject("capture")
    BY <1>9 DEF SetCaptureEnabled
  <2> HIDE DEF next, settings
  <2> QED
    BY <2>3, <1>1, <1>9, <2>4, <2>1, BeginKeeps, RejectKeeps DEF Opens, Asked, SetCaptureEnabled
<1>10. CASE SetCaptureDetailsEnabled
  BY <1>1, <1>10, ToggleKeeps, RejectKeeps
  DEF SetCaptureDetailsEnabled, BeginHot, Settings, Opens
<1>11. CASE HotEdit(document) \/ HotEdit(Toggle("rules"))
  BY <1>1, <1>11, ToggleKeeps, SameKeeps, RejectKeeps DEF HotEdit, BeginHot, Settings, Opens
<1>12. CASE UpdateProvider
  <2>1. PICK reset \in {{}} \union {{id} : id \in IF phase = "running" THEN {}
                                                  ELSE document.tested} :
          HotEdit([Toggle("rules") EXCEPT !.tested = @ \ reset])
    BY <1>12 DEF UpdateProvider
  <2> DEFINE next == [Toggle("rules") EXCEPT !.tested = @ \ reset]
  <2>2. Toggle("rules") \in Document /\ Toggle("rules").providers = document.providers
        /\ Toggle("rules").tested = document.tested
    BY Toggled DEF Settings
  <2>3. next \in Document /\ next.providers = document.providers
    <3>1. next = [Toggle("rules") EXCEPT !.tested = document.tested \ reset]
      BY <2>2
    <3> HIDE DEF next
    <3> QED BY <2>2, <3>1, WithTested
  <2>4. Begin("rules", NoProvider, "commit", next, confirmedGeneration) \/ Reject("rules")
    BY <2>1 DEF HotEdit, BeginHot
  <2> HIDE DEF next
  <2> QED
    BY <2>3, <1>1, <2>1, <2>4, BeginKeeps, RejectKeeps DEF Opens, Asked, HotEdit
<1>13. CASE GroupEdit
  BY <1>1, <1>13, SameKeeps DEF GroupEdit, Opens
<1>14. CASE SetProxyHost
  BY <1>1, <1>14, ToggleKeeps, RejectKeeps DEF SetProxyHost, Settings, Opens
<1>15. ASSUME NEW kind \in {"start", "restart"}, StartProxy(kind) PROVE Kept
  BY <1>1, <1>15, SameKeeps, RejectKeeps DEF Opens, StartProxy
<1>16. CASE StopProxy
  BY <1>1, <1>16, SameKeeps DEF StopProxy, Opens
<1> QED
  BY <1>2, <1>3, <1>4, <1>5, <1>6, <1>7, <1>8, <1>9, <1>10, <1>11, <1>12, <1>13, <1>14, <1>15,
     <1>16
  DEF Calls, SetProviderSupportedModels, SetApiKeyAuthEnabled, UpdateRoutingRuleGroup,
      DeleteRoutingRuleGroup, SetActiveRoutingRuleGroup, CreateRoutingRuleGroup,
      CreateModelMappingGroup, UpdateModelMappingGroup, DeleteModelMappingGroup

------------------------
(* The steps forward *)

\* Where an operation goes while the stores stay as they are.
Leads(step) ==
  \/ op.step = "commit" /\ step = "unset" /\ op.kind \in {"secret", "create"}
  \/ op.step = "reset" /\ step = "unset"
  \/ op.step = "fallback" /\ step = "undo"
  \/ op.step = "build" /\ step = "commit" /\ op.kind \in {"activate", "mode"}
  \/ op.step = "build" /\ step = "call" /\ op.kind \notin {"activate", "mode"}
  \/ op.step = "build" /\ step = "undo" /\ op.persisted
  \/ op.step = "call" /\ step = "called"
  \/ op.step = "called" /\ step = "record" /\ op.kind # "delete"
  \/ op.step = "called" /\ step = "forget" /\ op.kind = "delete"
  \/ op.step = "called" /\ step = "undo" /\ op.kind \notin {"start", "restart", "stop"}
  \/ op.step \in {"called", "record"} /\ step = "cleanup" /\ op.kind \in {"start", "restart"}
  \/ op.step = "record" /\ step = "undo" /\ op.kind \in {"activate", "weight", "mode", "capture"}
  \/ op.step = "record" /\ step = "select" /\ op.kind = "test"
  \/ op.step = "selected" /\ step = "clear"
  \/ op.step = "rebuild" /\ step = "undocall"
  \/ op.step = "undocall" /\ step = "undone"
  \/ op.step = "cleanup" /\ step = "cleaned"

LEMMA MoveKeeps ==
  ASSUME TransactionInv, NEW step, Moves(op, step), Leads(step),
         UNCHANGED <<document, credentials, secret>>
  PROVE  Kept
<1> USE DEF TransactionInv
<1>1. op' # NoOp /\ op.step # "none" /\ step # "none"
  BY NoOpFields DEF Moves, Leads
<1>2. KindsInv'
  BY <1>1 DEF KindsInv, Moves, Leads, ShapeInv, Hot
<1>3. DocumentInv'
  <2>1. Asked(op)'
    BY <1>1 DEF DocumentInv, Asked, Moves
  <2>2. (Applied' <=> Applied) /\ (Restored' <=> Restored)
    BY DEF Applied, Restored, Moves
  <2>3. CASE op.kind = "test"
    BY <1>1, <2>1, <2>2, <2>3 DEF DocumentInv, Moves, Leads, KindsInv, Hot
  <2>4. CASE op.kind = "secret"
    BY <1>1, <2>1, <2>2, <2>4 DEF DocumentInv, Moves, Leads, KindsInv, Hot, Before
  <2>5. CASE op.kind \notin {"test", "secret"}
    BY <1>1, <2>1, <2>2, <2>5 DEF DocumentInv, Moves, Leads, KindsInv, ShapeInv, Hot, Before
  <2> QED BY <2>3, <2>4, <2>5
<1>4. SecretInv'
  BY <1>1 DEF SecretInv, Moves, Leads, KindsInv
<1>5. CredentialsInv'
  BY <1>1 DEF CredentialsInv, Moves, Leads, KindsInv, DocumentInv, Asked, Applied, Hot,
     ShapeInv, Document
<1> QED
  BY <1>1, <1>2, <1>3, <1>4, <1>5 DEF Kept, FailureUndoes, SuccessApplies, Ends, ShapeInv, Moves

LEMMA MoveOut ==
  ASSUME TransactionInv, NEW step, Go(step), Leads(step),
         UNCHANGED <<document, credentials, secret>>
  PROVE  Kept
  BY MoveKeeps, GoMoves DEF TransactionInv, ShapeInv

\* What an operation that ends with the stores as they are must have done.
AsBefore ==
  /\ IF op.kind = "test" THEN document.active = op.prev.active ELSE Restored
  /\ op.kind = "secret" => ~secret
  /\ op.kind = "create" => op.id \notin credentials

AsAsked ==
  /\ op.kind \notin {"test", "secret"} =>
       document.settings = op.next.settings /\ document.providers = op.next.providers
  /\ op.kind \in {"activate", "start", "restart"} => document.active = op.next.active
  /\ op.kind = "secret" => secret

LEMMA FinishKeeps ==
  ASSUME TransactionInv, op' = NoOp, UNCHANGED <<document, credentials, secret>>,
         outcome'.result = "failed" => AsBefore,
         outcome'.result \in {"ok", "committed", "unrecorded"} => AsAsked
  PROVE  Kept
<1> QED
  BY EndKeeps DEF Kept, SuccessApplies, Ends, AsAsked, FailureUndoes, AsBefore, Restored,
     TransactionInv, ShapeInv, CredentialsInv

\* An operation whose effects are in place.
LEMMA RecordedAsAsked ==
  ASSUME TransactionInv, op.step \in {"called", "record", "forget"},
         op.kind # "stop" \/ op.step = "record"
  PROVE  AsAsked
<1> USE DEF TransactionInv
<1>1. op.step # "none" /\ Asked(op)
  BY DEF DocumentInv
<1>2. CASE op.kind = "secret"
  BY <1>1, <1>2 DEF SecretInv, AsAsked, KindsInv
<1>3. CASE op.kind = "test"
  BY <1>3 DEF AsAsked
<1>4. CASE op.kind \notin {"test", "secret"} /\ op.persisted
  <2>1. Applied
    BY <1>4 DEF DocumentInv
  <2>2. CASE op.kind \in Hot
    BY <2>2, <1>4, <2>1 DEF AsAsked, Hot, ShapeInv, Document, Applied
  <2>3. CASE op.kind \notin Hot
    BY <2>1, <2>3, <1>4 DEF Applied, AsAsked
  <2> QED BY <2>2, <2>3
<1>5. CASE op.kind \notin {"test", "secret"} /\ ~op.persisted
  BY <1>5, <1>1 DEF AsAsked, Asked, DocumentInv, KindsInv
<1> QED BY <1>2, <1>3, <1>4, <1>5

LEMMA ProceedKeeps ==
  ASSUME TransactionInv, NEW step, Proceed(op, step), Leads(step),
         op.step = "called", UNCHANGED <<document, credentials, secret>>
  PROVE  Kept
<1>1. CASE Moves(op, step)
  BY <1>1, MoveKeeps
<1>2. CASE ~Moves(op, step)
  BY <1>2, RecordedAsAsked, ProceedMoves, FinishKeeps DEF TransactionInv, ShapeInv, KindsInv,
     DocumentInv, Asked, AsAsked
<1> QED BY <1>1, <1>2

LEMMA BuildKeeps == ASSUME TransactionInv, Build PROVE Kept
<1>1. PICK step, cand, gen : /\ op' = [op EXCEPT !.cand = cand, !.gen = gen, !.step = step]
                             /\ step = IF op.kind \in {"activate", "mode"} THEN "commit"
                                       ELSE "call"
  BY DEF Build
<1>2. Moves(op, step)
  BY <1>1 DEF Moves, IsOp, TransactionInv, ShapeInv
<1> QED BY <1>2, <1>1, MoveKeeps DEF Build, Leads, storeVars

LEMMA BuildFailsKeeps == ASSUME TransactionInv, BuildFails PROVE Kept
<1>1. op.step = "build" /\ UNCHANGED <<document, credentials, secret>>
      /\ (IF op.persisted THEN Go("undo") ELSE Finish("failed"))
  BY DEF BuildFails, storeVars
<1>2. CASE op.persisted
  BY <1>1, <1>2, MoveOut DEF Leads
<1>3. CASE ~op.persisted
  BY <1>1, <1>3, FinishEnds, FinishKeeps DEF AsBefore, Restored, TransactionInv, KindsInv,
     DocumentInv
<1> QED BY <1>2, <1>3

LEMMA CallWorkerKeeps == ASSUME TransactionInv, CallWorker PROVE Kept
<1>1. PICK cfg : op' = [op EXCEPT !.cand = cfg, !.attempted = TRUE, !.step = "called"]
  BY DEF CallWorker
<1>2. Moves(op, "called")
  BY <1>1 DEF Moves, IsOp, TransactionInv, ShapeInv
<1> QED BY <1>2, MoveKeeps DEF CallWorker, Leads, storeVars

LEMMA AnswersKeep ==
  ASSUME TransactionInv, WorkerConfirms \/ ModeConfirmed \/ WorkerRefuses \/ WorkerStopped
  PROVE  Kept
<1>1. op.step = "called" /\ UNCHANGED <<document, credentials, secret>>
  BY DEF WorkerConfirms, ModeConfirmed, WorkerRefuses, WorkerStopped, storeVars
<1>2. CASE WorkerConfirms
  BY <1>1, <1>2, ProceedKeeps DEF WorkerConfirms, Leads
<1>3. CASE ModeConfirmed
  BY <1>1, <1>3, ProceedKeeps DEF ModeConfirmed, Leads
<1>4. CASE WorkerRefuses
  BY <1>1, <1>4, MoveOut DEF WorkerRefuses, Leads
<1>5. CASE WorkerStopped
  <2>1. op.kind = "stop" /\ (Go("record") \/ Finish("failed"))
    BY <1>5 DEF WorkerStopped
  <2>2. CASE Go("record")
    BY <1>1, <2>1, <2>2, MoveOut DEF Leads
  <2>3. CASE Finish("failed")
    <3>1. AsBefore
      BY <2>1, <1>1 DEF AsBefore, Restored, TransactionInv, KindsInv, DocumentInv
    <3> QED BY <1>1, <2>3, <3>1, FinishEnds, FinishKeeps
  <2> QED BY <2>1, <2>2, <2>3
<1> QED BY <1>2, <1>3, <1>4, <1>5

LEMMA RecordsKeep ==
  ASSUME TransactionInv, Recorded \/ ModeRecorded \/ RecordFails
  PROVE  Kept
<1>1. op.step = "record" /\ UNCHANGED <<document, credentials, secret>>
  BY DEF Recorded, ModeRecorded, RecordFails, storeVars
<1>2. ASSUME NEW result \in {"ok", "committed", "unrecorded"}, Finish(result) PROVE Kept
  BY <1>1, <1>2, RecordedAsAsked, FinishEnds, FinishKeeps
<1>3. CASE Recorded
  <2>1. CASE op.kind = "test" /\ op.warned
    BY <1>1, <2>1, <1>3, MoveOut DEF Leads, Recorded
  <2>2. CASE ~(op.kind = "test" /\ op.warned)
    BY <1>2, <1>3, <2>2 DEF Recorded
  <2> QED BY <2>1, <2>2
<1>4. CASE ModeRecorded
  BY <1>2, <1>4 DEF ModeRecorded
<1>5. CASE RecordFails
  <2>1. CASE op.kind \in {"activate", "weight", "mode", "capture"}
    BY <1>1, <2>1, <1>5, MoveOut DEF Leads, RecordFails
  <2>2. CASE op.kind \in {"start", "restart"} /\ op.attempted
    BY <1>1, <2>2, <1>5, MoveOut DEF Leads, RecordFails
  <2>3. CASE op.kind \in {"group", "host", "rules", "details", "secret", "delete", "create"}
    BY <1>2, <1>5, <2>3 DEF RecordFails
  <2>4. CASE op.kind = "test"
    BY <1>1, <1>2, <1>5, <2>4, FinishEnds, FinishKeeps DEF RecordFails, AsBefore,
       TransactionInv, DocumentInv
  <2>5. CASE \/ op.kind \in {"start", "restart"} /\ ~op.attempted
             \/ op.kind = "stop"
    BY <1>1, <1>5, <2>5, FinishEnds, FinishKeeps DEF RecordFails, AsBefore, Restored,
       TransactionInv, DocumentInv, KindsInv
  <2> QED
    BY <2>1, <2>2, <2>3, <2>4, <2>5, <1>1, OperationsAssumption DEF OperationKinds, Settings,
       TransactionInv, KindsInv, ShapeInv
<1> QED BY <1>3, <1>4, <1>5

\* What is asked for has no provider but those there are and the created one.
LEMMA NextProviders ==
  ASSUME TransactionInv, op.step # "none"
  PROVE  op.next.providers \subseteq
           op.prev.providers \union (IF op.kind = "create" THEN {op.id} ELSE {})
<1>1. Asked(op)
  BY DEF TransactionInv, DocumentInv
<1>2. CASE op.kind \in {"activate", "weight", "mode", "details", "capture", "create", "delete"}
  BY <1>1, <1>2 DEF Asked
<1>3. CASE op.kind \notin {"activate", "weight", "mode", "details", "capture", "create", "delete"}
  BY <1>1, <1>3 DEF Asked
<1> QED BY <1>2, <1>3

LEMMA PersistedFields ==
  ASSUME NEW warned, NEW o, IsOp(op), o = [op EXCEPT !.persisted = TRUE, !.warned = warned]
  PROVE  /\ IsOp(o) /\ o.kind = op.kind /\ o.id = op.id /\ o.prev = op.prev
         /\ o.next = op.next /\ o.persisted = TRUE /\ o.broken = op.broken
  BY DEF IsOp

\* Once the registry is written.
LEMMA CommittedKeeps ==
  ASSUME TransactionInv, op.step \in {"commit", "reset"},
         NEW warned, NEW doc,
         Proceed([op EXCEPT !.persisted = TRUE, !.warned = warned], AfterCommit(doc)),
         document' \in Document,
         op.kind # "secret" => document' = op.next,
         op.kind = "secret" => document'.providers = op.prev.providers,
         UNCHANGED <<credentials, secret>>
  PROVE  Kept
<1> USE DEF TransactionInv
<1> DEFINE o == [op EXCEPT !.persisted = TRUE, !.warned = warned]
           step == AfterCommit(doc)
<1>1. /\ IsOp(o) /\ o.kind = op.kind /\ o.id = op.id /\ o.prev = op.prev /\ o.next = op.next
      /\ o.persisted = TRUE /\ o.broken = op.broken
  BY PersistedFields DEF ShapeInv
<1>2. \/ Moves(o, step)
      \/ op' = NoOp /\ outcome'.result = "committed" /\ step = "record"
  <2> HIDE DEF o, step
  <2> QED BY <1>1, ProceedMoves DEF o, step
<1>3. \/ step = "fallback" /\ op.kind \in Hot
      \/ step = "build" /\ op.kind \in Hot \union {"weight"}
      \/ step = "call" /\ op.kind \in {"mode", "capture", "activate"}
      \/ step = "forget" /\ op.kind = "delete"
      \/ step = "record"
  BY DEF AfterCommit, AfterHot, AfterWeight, AfterMode, AfterCapture, AfterActivation, Hot
<1> HIDE DEF o, step
<1>4. op.kind \notin {"none", "test", "start", "restart", "stop"}
  BY DEF KindsInv
<1>5. document'.providers \subseteq credentials'
  BY <1>4, NextProviders DEF KindsInv, CredentialsInv
<1>6. CASE Moves(o, step)
  <2>1. /\ IsOp(op') /\ op'.step = step /\ op'.kind = op.kind /\ op'.id = op.id
        /\ op'.prev = op.prev /\ op'.next = op.next
        /\ op'.persisted = TRUE /\ op'.broken = op.broken
    BY <1>1, <1>6 DEF Moves
  <2>2. KindsInv'
    BY <2>1, <1>3, <1>4 DEF KindsInv, Hot
  <2>3. DocumentInv'
    <3>1. op.kind # "secret" => Applied'
      <4> SUFFICES ASSUME op.kind # "secret" PROVE Applied'
        OBVIOUS
      <4> QED BY <2>1 DEF Applied, ShapeInv, Document
    <3> QED
      BY <1>3, <1>4, <2>1, <3>1 DEF DocumentInv, Before, Asked, KindsInv
  <2>4. SecretInv'
    BY <2>1, <1>3, <1>4 DEF SecretInv, KindsInv
  <2>5. CredentialsInv'
    BY <2>1, <1>3, <1>4, <1>5 DEF CredentialsInv, DocumentInv, Asked, KindsInv
  <2> QED
    BY <1>3, <2>1, <2>2, <2>3, <2>4, <2>5, NoOpFields DEF Kept, FailureUndoes, SuccessApplies,
       Ends, ShapeInv
<1>7. CASE ~Moves(o, step)
  BY <1>2, <1>7, <1>5, <1>4, EndKeeps DEF Kept, FailureUndoes, Ends, ShapeInv, SuccessApplies,
     KindsInv, SecretInv
<1> QED BY <1>6, <1>7

LEMMA CommitKeeps == ASSUME TransactionInv, NEW c \in Commits, Commit(c) PROVE Kept
<1> USE DEF TransactionInv
<1>1. op.step = "commit" /\ UNCHANGED <<credentials, secret>>
  BY DEF Commit
<1>2. /\ document' = IF c = "refused" THEN document ELSE op.next
      /\ document' \in Document
  BY PersistDocument DEF Commit, ShapeInv
<1>3. op.kind \notin {"none", "test", "start", "restart", "stop"} /\ ~op.persisted
  BY <1>1 DEF KindsInv
<1>4. CASE c = "refused" \/ NothingWritten(c)
  <2>1. document' = document
    BY <1>1, <1>2, <1>3, <1>4 DEF NothingWritten, DocumentInv, Before
  <2>2. IF op.kind \in {"secret", "create"} THEN Go("unset") ELSE Finish("failed")
    BY <1>4 DEF Commit
  <2>3. CASE op.kind \in {"secret", "create"}
    BY <1>1, <2>1, <2>2, <2>3, MoveOut DEF Leads
  <2>4. CASE op.kind \notin {"secret", "create"}
    <3>1. AsBefore
      BY <1>3, <2>4, <1>1 DEF AsBefore, Restored, ShapeInv, Document, DocumentInv, Before
    <3> QED BY <1>1, <2>1, <2>2, <2>4, <3>1, FinishEnds, FinishKeeps
  <2> QED BY <2>3, <2>4
<1>5. CASE ~(c = "refused" \/ NothingWritten(c))
  BY <1>1, <1>2, <1>5, CommittedKeeps DEF Commit, DocumentInv, Asked
<1> QED BY <1>4, <1>5

LEMMA ResetTestKeeps == ASSUME TransactionInv, NEW c \in Commits, ResetTest(c) PROVE Kept
<1> USE DEF TransactionInv
<1> DEFINE doc == [document EXCEPT !.tested = @ \ {op.id}]
<1>1. op.step = "reset" /\ op.kind = "secret" /\ UNCHANGED <<credentials, secret>>
  BY DEF ResetTest, KindsInv
<1>2. doc \in Document /\ doc.providers = document.providers
  BY DEF ShapeInv, Document
<1>3. Persist(doc, c)
  BY DEF ResetTest
<1>4. /\ \/ c = "done" /\ Go("commit")
         \/ c = "refused" /\ Go("unset")
         \/ c = "warned" /\ Proceed([op EXCEPT !.persisted = TRUE, !.warned = TRUE],
                                    AfterCommit(doc))
  BY DEF ResetTest, Commits
<1> HIDE DEF doc
<1>5. document' = (IF c = "refused" THEN document ELSE doc) /\ document' \in Document
  BY <1>2, <1>3, PersistDocument DEF ShapeInv
<1>6. op.prev.providers = document.providers
  BY <1>1 DEF DocumentInv
<1>7. CASE c = "refused" /\ Go("unset")
  BY <1>1, <1>5, <1>7, MoveOut DEF Leads
<1>8. CASE c = "warned" /\ Proceed([op EXCEPT !.persisted = TRUE, !.warned = TRUE],
                                   AfterCommit(doc))
  BY <1>1, <1>2, <1>5, <1>6, <1>8, CommittedKeeps
<1>9. CASE c = "done" /\ Go("commit")
  <2>1. Moves(op, "commit") /\ op' # NoOp
    BY <1>9, GoMoves, NoOpFields DEF ShapeInv, Moves
  <2>2. DocumentInv' /\ SecretInv' /\ CredentialsInv'
    BY <1>1, <1>2, <1>5, <1>6, <1>9, <2>1 DEF DocumentInv, SecretInv, CredentialsInv, Moves,
       Before, Asked
  <2> QED
    BY <2>1, <1>1, <1>5, <2>2 DEF Kept, FailureUndoes, SuccessApplies, Ends, ShapeInv, KindsInv,
       Moves, Hot
<1> QED BY <1>4, <1>7, <1>8, <1>9

LEMMA SetCredentialKeeps ==
  ASSUME TransactionInv, NEW c \in Commits, SetCredential(c)
  PROVE  Kept
<1> USE DEF TransactionInv
<1>1. op.step = "set" /\ op.kind \in {"secret", "create"} /\ document = op.prev
      /\ document' = document /\ document.providers \subseteq credentials
  BY DEF SetCredential, KindsInv, DocumentInv, Before, CredentialsInv
<1>2. CASE c = "refused"
  BY <1>1, <1>2, FinishEnds, FinishKeeps DEF SetCredential, AsBefore, Restored, SecretInv,
     CredentialsInv
<1>3. CASE c # "refused"
  <2> DEFINE step == IF op.kind = "secret" /\ op.id \notin op.next.tested THEN "reset"
                     ELSE "commit"
  <2>1. op' = [op EXCEPT !.warned = (c = "warned"), !.step = step]
    BY <1>3 DEF SetCredential
  <2>2. IF op.kind = "secret" THEN secret' = TRUE /\ UNCHANGED credentials
        ELSE credentials' = credentials \union {op.id} /\ UNCHANGED secret
    BY <1>3 DEF SetCredential
  <2>3. step \in {"reset", "commit"} /\ (step = "reset" => op.kind = "secret")
    OBVIOUS
  <2> HIDE DEF step
  <2>4. Moves(op, step)
    BY <2>1 DEF IsOp, Moves, ShapeInv
  <2>5. op' # NoOp
    BY <2>3, <2>4, NoOpFields DEF Moves
  <2>6. ShapeInv' /\ KindsInv'
    BY <1>1, <2>2, <2>3, <2>4, <2>5 DEF ShapeInv, KindsInv, Moves, Hot
  <2>7. DocumentInv' /\ SecretInv' /\ CredentialsInv'
    BY <1>1, <2>2, <2>3, <2>4 DEF DocumentInv, SecretInv, CredentialsInv, Moves, Before, Asked
  <2> QED
    BY <2>5, <2>6, <2>7 DEF Kept, FailureUndoes, SuccessApplies, Ends
<1> QED BY <1>2, <1>3

LEMMA FallbackKeeps == ASSUME TransactionInv, NEW c \in Commits, Fallback(c) PROVE Kept
<1> USE DEF TransactionInv
<1>1. op.step = "fallback" /\ op.kind \in Hot /\ op.persisted = TRUE
      /\ UNCHANGED <<credentials, secret>>
  BY DEF Fallback, KindsInv, ShapeInv
<1>2. CASE Go("undo") /\ UNCHANGED document
  BY <1>1, <1>2, MoveOut DEF Leads
<1>3. CASE ~(Go("undo") /\ UNCHANGED document)
  <2>1. PICK id \in document.tested :
          /\ Persist([document EXCEPT !.active = id], c)
          /\ IF c = "refused" THEN Go("undo")
             ELSE op' = [op EXCEPT !.step = "build", !.warned = @ \/ c = "warned"]
    BY <1>3 DEF Fallback
  <2> DEFINE doc == [document EXCEPT !.active = id]
  <2>2. id \in Providers /\ document \in Document
    BY <2>1, IdleFields
  <2>3. /\ doc \in Document /\ doc.providers = document.providers
        /\ doc.tested = document.tested /\ doc.active = id
        /\ doc.settings = document.settings
    BY <2>2, WithActive
  <2>4. Persist(doc, c)
    BY <2>1
  <2>5. op.kind # "secret" => doc = [op.next EXCEPT !.active = id]
    <3> SUFFICES ASSUME op.kind # "secret" PROVE doc = [op.next EXCEPT !.active = id]
      OBVIOUS
    <3> HIDE DEF doc
    <3> QED
      BY <2>3, <2>2, <1>1, WithActive, SameDocument DEF ShapeInv, Document, DocumentInv,
         Applied, Hot
  <2> HIDE DEF doc
  <2>6. document' = (IF c = "refused" THEN document ELSE doc) /\ document' \in Document
    BY <2>2, <2>3, <2>4, PersistDocument
  <2>7. op' = [op EXCEPT !.step = "build", !.warned = @ \/ c = "warned"] /\ document' = doc
    BY <2>1, <2>6, <1>3
  <2>8. Moves(op, "build")
    BY <2>7 DEF IsOp, Moves, ShapeInv
  <2>9. op' # NoOp
    BY <2>8, NoOpFields DEF Moves
  <2>10. ShapeInv' /\ KindsInv'
    BY <1>1, <2>6, <2>8, <2>9 DEF ShapeInv, KindsInv, Moves, Hot
  <2>11. DocumentInv'
    BY <1>1, <2>3, <2>7, <2>8, <2>5 DEF DocumentInv, Moves, Before, Hot, Applied, Asked
  <2>12. SecretInv' /\ CredentialsInv'
    BY <1>1, <2>3, <2>7, <2>8 DEF SecretInv, CredentialsInv, Moves, Hot
  <2> QED
    BY <2>9, <2>10, <2>11, <2>12 DEF Kept, FailureUndoes, SuccessApplies, Ends
<1> QED BY <1>2, <1>3

LEMMA ForgetKeeps ==
  ASSUME TransactionInv, NEW done \in BOOLEAN, ForgetCredential(done)
  PROVE  Kept
<1> USE DEF TransactionInv
<1> DEFINE o == [op EXCEPT !.warned = @ \/ ~done]
<1>1. /\ op.step = "forget" /\ op.kind = "delete" /\ op.persisted
      /\ op.id \notin document.providers /\ document.providers \subseteq credentials
      /\ UNCHANGED <<document, secret>>
  BY DEF ForgetCredential, KindsInv, CredentialsInv
<1>2. Proceed(o, "record")
  BY DEF ForgetCredential
<1>3. document.providers \subseteq credentials'
  BY <1>1 DEF ForgetCredential
<1>4. /\ IsOp(o) /\ o.kind = op.kind /\ o.id = op.id /\ o.prev = op.prev /\ o.next = op.next
      /\ o.persisted = op.persisted /\ o.broken = op.broken
  BY DEF IsOp, ShapeInv
<1> HIDE DEF o
<1>5. CASE Moves(o, "record")
  <2>1. Moves(op, "record") /\ op' # NoOp
    BY <1>4, <1>5, NoOpFields DEF Moves
  <2>2. ShapeInv' /\ KindsInv'
    BY <1>1, <2>1 DEF ShapeInv, KindsInv, Moves, Hot
  <2>3. DocumentInv'
    BY <1>1, <2>1 DEF DocumentInv, Moves, Before, Asked, Applied
  <2> QED
    BY <2>1, <2>2, <2>3, <1>1, <1>3 DEF Kept, FailureUndoes, SuccessApplies, Ends, SecretInv,
       CredentialsInv, Moves
<1>6. CASE ~Moves(o, "record")
  <2>1. op' = NoOp /\ outcome'.result = "committed"
    BY <1>2, <1>4, <1>6, ProceedMoves
  <2> QED
    BY <1>1, <2>1, <1>3, RecordedAsAsked, EndKeeps DEF Kept, FailureUndoes, SuccessApplies,
       Ends, AsAsked, ShapeInv
<1> QED BY <1>5, <1>6

LEMMA TestsKeep ==
  ASSUME TransactionInv, NEW c \in Commits,
         \/ \E passed \in BOOLEAN : Probed(passed, c)
         \/ SelectInitial(c) \/ ClearSelection(c)
  PROVE  Kept
<1> USE DEF TransactionInv
<1>1. document \in Document /\ UNCHANGED <<credentials, secret>> /\ op.kind = "test"
      /\ document.providers \subseteq credentials
  BY DEF Probed, SelectInitial, ClearSelection, KindsInv, ShapeInv, CredentialsInv
<1>2. ASSUME op' = NoOp, document' \in Document, document'.providers = document.providers,
             outcome'.result = "failed" => document'.active = op.prev.active
      PROVE  Kept
  BY <1>1, <1>2, EndKeeps DEF Kept, ShapeInv, FailureUndoes, Ends, SuccessApplies
<1>3. ASSUME NEW passed \in BOOLEAN, Probed(passed, c) PROVE Kept
  <2>1. op.step = "probe" /\ document.active = op.prev.active /\ op.next = op.prev
        /\ op.prev.providers \subseteq credentials
    BY <1>1, <1>3 DEF Probed, DocumentInv, Asked, CredentialsInv
  <2>2. ASSUME IsOp(op'), op'.step = "record", op'.kind = "test", op'.id = op.id,
               op'.prev = op.prev, op'.next = op.next, op'.persisted \in BOOLEAN,
               op'.broken = op.broken,
               document' \in Document, document'.providers = document.providers,
               document'.active = document.active
        PROVE  Kept
    <3>1. DocumentInv' /\ SecretInv' /\ CredentialsInv'
      BY <1>1, <2>1, <2>2 DEF DocumentInv, Asked, SecretInv, CredentialsInv
    <3> QED
      BY <2>2, <1>1, <3>1, NoOpFields DEF Kept, FailureUndoes, SuccessApplies, Ends, ShapeInv,
         KindsInv, Hot
  <2>3. IsOp(op)
    BY DEF ShapeInv
  <2>4. CASE op.running /\ ~passed
    <3>1. op' = [op EXCEPT !.step = "record", !.warned = FALSE] /\ document' = document
      BY <1>3, <2>4 DEF Probed
    <3>2. /\ IsOp(op') /\ op'.step = "record" /\ op'.kind = op.kind /\ op'.id = op.id
          /\ op'.prev = op.prev /\ op'.next = op.next /\ op'.persisted = op.persisted
          /\ op'.broken = op.broken
      BY <2>3, <3>1 DEF IsOp
    <3> QED
      BY <1>1, <2>2, <3>1, <3>2 DEF ShapeInv
  <2>5. CASE ~(op.running /\ ~passed)
    <3> DEFINE tested == IF passed THEN document.tested \union {op.id}
                         ELSE document.tested \ {op.id}
               doc == [document EXCEPT !.tested = IF passed THEN @ \union {op.id}
                                                  ELSE @ \ {op.id}]
    <3>1. Persist(doc, c)
      BY <1>3, <2>5 DEF Probed
    <3>2. tested \in SUBSET Providers /\ doc = [document EXCEPT !.tested = tested]
      BY <1>1, <2>1, IdleFields DEF ShapeInv
    <3>3. doc \in Document /\ doc.providers = document.providers
          /\ doc.active = document.active
      <4> HIDE DEF doc, tested
      <4> QED BY <1>1, <3>2, WithTested
    <3> HIDE DEF doc, tested
    <3>4. document' = (IF c = "refused" THEN document ELSE doc) /\ document' \in Document
      BY <1>1, <3>1, <3>3, PersistDocument
    <3>5. document'.providers = document.providers /\ document'.active = document.active
      BY <3>3, <3>4
    <3>6. CASE op' = [op EXCEPT !.step = "record", !.persisted = TRUE, !.warned = @ /\ passed]
      <4>1. /\ IsOp(op') /\ op'.step = "record" /\ op'.kind = op.kind /\ op'.id = op.id
            /\ op'.prev = op.prev /\ op'.next = op.next /\ op'.persisted = TRUE
            /\ op'.broken = op.broken
        BY <2>3, <3>6 DEF IsOp
      <4> QED
        BY <1>1, <2>2, <3>4, <3>5, <4>1
    <3>7. CASE Finish("committed") \/ Finish("failed")
      BY <1>2, <2>1, <3>4, <3>5, <3>7, FinishEnds
    <3> QED BY <1>3, <2>5, <3>6, <3>7 DEF Probed, Commits
  <2> QED BY <2>4, <2>5
<1>4. CASE SelectInitial(c)
  <2>1. op.step = "select" /\ document.active = op.prev.active
    BY <1>1, <1>4 DEF SelectInitial, DocumentInv
  <2>2. CASE document.active # NoProvider
    BY <1>1, <1>2, <1>4, <2>2, FinishEnds DEF SelectInitial
  <2>3. CASE document.active = NoProvider
    <3> DEFINE doc == [document EXCEPT !.active = op.id]
    <3>1. Persist(doc, c)
          /\ (\/ c = "done" /\ Go("selected")
              \/ c = "warned" /\ Finish("committed")
              \/ c = "refused" /\ Finish("failed"))
      BY <1>4, <2>3 DEF SelectInitial, Commits
    <3>2. doc \in Document /\ doc.providers = document.providers
      BY <1>1, <2>1, WithActive DEF ShapeInv
    <3> HIDE DEF doc
    <3>3. document' = (IF c = "refused" THEN document ELSE doc) /\ document' \in Document
      BY <1>1, <3>1, <3>2, PersistDocument
    <3>4. CASE c = "done" /\ Go("selected")
      <4>1. Moves(op, "selected") /\ op' # NoOp
        BY <3>4, GoMoves, NoOpFields DEF ShapeInv, Moves
      <4>2. DocumentInv' /\ SecretInv' /\ CredentialsInv'
        BY <1>1, <2>1, <2>3, <3>2, <3>3, <3>4, <4>1
        DEF DocumentInv, Asked, SecretInv, CredentialsInv, Moves
      <4> QED
        BY <4>1, <1>1, <3>3, <4>2 DEF Kept, FailureUndoes, SuccessApplies, Ends, ShapeInv,
           KindsInv, Moves, Hot
    <3>5. CASE c = "warned" /\ Finish("committed")
      BY <1>2, <3>2, <3>3, <3>5, FinishEnds
    <3>6. CASE c = "refused" /\ Finish("failed")
      BY <1>2, <2>1, <3>3, <3>6, FinishEnds
    <3> QED BY <3>1, <3>4, <3>5, <3>6
  <2> QED BY <2>2, <2>3
<1>5. CASE ClearSelection(c)
  <2> DEFINE doc == [document EXCEPT !.active = NoProvider]
  <2>1. op.step = "clear" /\ Persist(doc, c)
        /\ Finish(IF c = "done" THEN "failed" ELSE "degraded")
    BY <1>5 DEF ClearSelection
  <2>2. doc \in Document /\ doc.providers = document.providers /\ doc.active = NoProvider
    BY <1>1, WithActive
  <2> HIDE DEF doc
  <2> QED
    BY <1>2, <2>1, <2>2, <1>1, PersistDocument, FinishEnds DEF DocumentInv
<1> QED BY <1>3, <1>4, <1>5

LEMMA SelectionRecordedKeeps ==
  ASSUME TransactionInv, NEW done \in BOOLEAN, SelectionRecorded(done)
  PROVE  Kept
<1>1. op.step = "selected" /\ op.kind = "test" /\ UNCHANGED <<document, credentials, secret>>
      /\ (Finish("ok") \/ Go("clear"))
  BY DEF SelectionRecorded, storeVars, TransactionInv, KindsInv
<1>2. CASE Go("clear")
  BY <1>1, <1>2, MoveOut DEF Leads
<1>3. CASE Finish("ok")
  BY <1>1, <1>3, FinishEnds, FinishKeeps DEF AsAsked
<1> QED BY <1>1, <1>2, <1>3

------------------------
(* The steps back *)

\* What a rollback writes is the document before the operation, but for the preferred
\* provider that a change of the Capture details has fallen back to.
LEMMA UndoneIsBefore ==
  ASSUME TransactionInv, op.step = "undo"
  PROVE  /\ UndoneDocument \in Document
         /\ UndoneDocument.providers = op.prev.providers
         /\ op.kind # "details" => UndoneDocument = op.prev
         /\ op.kind = "details" => UndoneDocument = [op.prev EXCEPT !.active = document.active]
                                   /\ UndoneDocument.active = document.active
<1> USE DEF TransactionInv
<1>1. /\ document \in Document /\ op.prev \in Document /\ op.next \in Document
      /\ Asked(op) /\ op.persisted
      /\ op.kind \in Hot \union {"activate", "weight", "mode", "capture"}
      /\ op.kind # "secret" => Applied
  BY DEF ShapeInv, KindsInv, DocumentInv, Hot
<1>2. op.prev.active \in Providers \union {NoProvider}
      /\ document.active \in Providers \union {NoProvider}
      /\ op.prev.settings \in [Settings -> BOOLEAN]
      /\ op.next.settings \in [Settings -> BOOLEAN]
  BY <1>1, DocumentFields
<1>3. CASE op.kind \in Hot \ {"details"}
  BY <1>1, <1>3 DEF UndoneDocument, UndoHot, Hot
<1>4. CASE op.kind = "activate"
  BY <1>4, <1>1, <1>2, WithActive, SameDocument DEF Asked, UndoneDocument, UndoActivation,
     Applied, Hot
<1>5. ASSUME NEW doc \in Document, NEW settings \in [Settings -> BOOLEAN],
             settings = op.prev.settings, UndoneDocument = [doc EXCEPT !.settings = settings],
             doc.providers = op.prev.providers, doc.tested = op.prev.tested
      PROVE  /\ UndoneDocument \in Document /\ UndoneDocument.providers = op.prev.providers
             /\ UndoneDocument.tested = op.prev.tested
             /\ UndoneDocument.active = doc.active
             /\ UndoneDocument.settings = op.prev.settings
  BY <1>5, WithSettings
<1>6. CASE op.kind \in {"weight", "mode"}
  <2>1. /\ op.next.providers = op.prev.providers /\ op.next.tested = op.prev.tested
        /\ op.next.active = op.prev.active
        /\ op.prev.settings = [op.next.settings EXCEPT ![op.kind] = op.prev.settings[op.kind]]
    BY <1>1, <1>6 DEF Asked
  <2>2. UndoneDocument = [op.next EXCEPT !.settings = op.prev.settings]
    BY <1>6, <1>1, <2>1 DEF UndoneDocument, UndoWeight, UndoMode, Applied, Hot
  <2> QED BY <1>1, <1>6, <1>2, <1>5, <2>1, <2>2, SameDocument
<1>7. CASE op.kind = "capture"
  <2>1. /\ op.next.providers = op.prev.providers /\ op.next.tested = op.prev.tested
        /\ op.next.active = op.prev.active
        /\ op.prev.settings = [op.next.settings EXCEPT
                                 !["capture"] = op.prev.settings["capture"],
                                 !["details"] = op.prev.settings["details"]]
    BY <1>1, <1>7 DEF Asked
  <2>2. UndoneDocument = [op.next EXCEPT !.settings = op.prev.settings]
    BY <1>7, <1>1, <2>1 DEF UndoneDocument, UndoCapture, Applied, Hot
  <2>3. UndoneDocument = op.prev
    BY <1>1, <1>2, <1>5, <2>1, <2>2, SameDocument
  <2> QED BY <1>1, <1>7, <2>3
<1>8. CASE op.kind = "details"
  <2>1. /\ UndoneDocument \in Document /\ UndoneDocument.providers = op.prev.providers
        /\ UndoneDocument.tested = op.prev.tested
        /\ UndoneDocument.active = document.active
        /\ UndoneDocument.settings = op.prev.settings
    BY <1>1, <1>2, <1>5, <1>8 DEF UndoneDocument, UndoDetails, Asked, Document, Applied, Hot
  <2> DEFINE new == [op.prev EXCEPT !.active = document.active]
  <2>2. /\ new \in Document /\ new.providers = op.prev.providers
        /\ new.tested = op.prev.tested /\ new.active = document.active
        /\ new.settings = op.prev.settings
    BY <1>1, <1>2, WithActive
  <2>3. UndoneDocument = new
    <3> HIDE DEF new
    <3> QED BY <2>1, <2>2, SameDocument
  <2> QED BY <1>8, <2>1, <2>3
<1> QED BY <1>1, <1>3, <1>4, <1>6, <1>7, <1>8

\* Where the rollback goes on once the registry is done, or where it ends.
LEMMA UndoingKeeps ==
  ASSUME TransactionInv, NEW broken \in BOOLEAN, NEW step,
         op.step \in {"undo", "restore"}, UndoProceeds(broken, step),
         step \in {"none", "restore", "rebuild", "undocall"},
         step = "restore" => op.kind = "secret",
         step = "rebuild" => op.kind = "details",
         document' \in Document, document'.providers \subseteq credentials,
         op.kind = "secret" => document'.providers = op.prev.providers,
         UNCHANGED credentials, secret' \in BOOLEAN,
         ~broken => document' = IF op.kind = "details"
                                THEN [op.prev EXCEPT !.active = document'.active]
                                ELSE op.prev,
         ~broken /\ op.kind = "secret" /\ step # "restore" => ~secret'
  PROVE  Kept
<1> USE DEF TransactionInv
<1>1. op.kind \in Hot \union {"activate", "weight", "mode", "capture"}
      /\ op.step # "none"
  BY DEF KindsInv, Hot
<1>2. op.prev.providers \subseteq credentials
  BY DEF CredentialsInv
<1>3. IF step = "none"
      THEN op' = NoOp /\ outcome'.result = (IF broken THEN "degraded" ELSE "failed")
      ELSE /\ IsOp(op') /\ op'.step = step
           /\ op'.kind = op.kind /\ op'.id = op.id /\ op'.prev = op.prev
           /\ op'.next = op.next /\ op'.persisted = op.persisted /\ op'.broken = broken
  BY UndoMoves DEF ShapeInv
<1>4. CASE step = "none"
  BY <1>2, <1>3, <1>4, <1>1, EndKeeps DEF Kept, FailureUndoes, SuccessApplies, Ends, Hot,
     ShapeInv
<1>5. CASE step # "none"
  <2>1. op' # NoOp
    BY <1>3, <1>5, NoOpFields
  <2>2. ShapeInv' /\ KindsInv'
    BY <1>1, <1>3, <1>5, <2>1 DEF ShapeInv, KindsInv, Hot
  <2>3. DocumentInv'
    BY <1>1, <1>3, <1>5 DEF DocumentInv, Hot, Before, Asked, Restored
  <2>4. SecretInv' /\ CredentialsInv'
    BY <1>1, <1>2, <1>3, <1>5 DEF SecretInv, CredentialsInv, Hot
  <2> QED
    BY <2>1, <2>2, <2>3, <2>4 DEF Kept, FailureUndoes, SuccessApplies, Ends
<1> QED BY <1>4, <1>5

LEMMA UndoKeeps == ASSUME TransactionInv, NEW c \in Commits, Undo(c) PROVE Kept
<1> USE DEF TransactionInv
<1>1. op.step = "undo" /\ op.persisted = TRUE /\ UNCHANGED <<credentials, secret>>
      /\ Persist(UndoneDocument, c) /\ UndoProceeds(c # "done", AfterUndo)
  BY DEF Undo, KindsInv, ShapeInv
<1>2. document' = (IF c = "refused" THEN document ELSE UndoneDocument)
      /\ document' \in Document
  BY <1>1, UndoneIsBefore, PersistDocument DEF ShapeInv
<1>3. c = "done" => document' = IF op.kind = "details"
                                THEN [op.prev EXCEPT !.active = document'.active]
                                ELSE op.prev
  <2> SUFFICES ASSUME c = "done"
               PROVE  document' = IF op.kind = "details"
                                  THEN [op.prev EXCEPT !.active = document'.active]
                                  ELSE op.prev
    OBVIOUS
  <2>1. document' = UndoneDocument
    BY <1>2
  <2>2. CASE op.kind = "details"
    BY <1>1, <2>1, <2>2, UndoneIsBefore
  <2>3. CASE op.kind # "details"
    BY <1>1, <2>1, <2>3, UndoneIsBefore
  <2> QED BY <2>2, <2>3
<1> DEFINE broken == c # "done"
           step == AfterUndo
<1>4. broken \in BOOLEAN /\ (~broken <=> c = "done")
  OBVIOUS
<1> HIDE DEF broken, step
<1> QED
  BY <1>1, <1>2, <1>3, <1>4, UndoneIsBefore, UndoingKeeps DEF CredentialsInv, DocumentInv, step,
     AfterUndo, ShapeInv

LEMMA RestoreSecretKeeps ==
  ASSUME TransactionInv, NEW c \in Commits, RestoreSecret(c)
  PROVE  Kept
<1> USE DEF TransactionInv
<1> DEFINE broken == op.broken \/ c # "done"
           step == IF op.attempted THEN "undocall" ELSE "none"
<1>1. broken \in BOOLEAN /\ step \in {"none", "undocall"} /\ (~broken => ~op.broken /\ c = "done")
  BY DEF ShapeInv
<1> HIDE DEF broken, step
<1> QED
  BY <1>1, UndoingKeeps DEF ShapeInv, DocumentInv, CredentialsInv, Restored, RestoreSecret,
     KindsInv

LEMMA UndoneKeeps ==
  ASSUME TransactionInv, NEW broken \in BOOLEAN, Undone(broken),
         UNCHANGED <<document, credentials, secret>>, ~broken => AsBefore
  PROVE  Kept
<1> QED
  BY FinishEnds, FinishKeeps DEF Undone

LEMMA CallsBackKeep ==
  ASSUME TransactionInv,
         Rebuild \/ RebuildFails \/ UndoCall \/ UndoActivationCall \/ Cleanup
  PROVE  Kept
<1>1. IsOp(op)
  BY DEF TransactionInv, ShapeInv
<1>2. CASE Rebuild
  <2>1. PICK prior : op' = [op EXCEPT !.prior = prior, !.step = "undocall"]
    BY <1>2 DEF Rebuild
  <2>2. Moves(op, "undocall")
    BY <1>1, <2>1 DEF Moves, IsOp
  <2> QED BY <2>2, <1>2, MoveKeeps DEF Rebuild, Leads, storeVars
<1>3. CASE RebuildFails
  BY <1>3, UndoneKeeps DEF RebuildFails, storeVars
<1>4. CASE UndoCall \/ UndoActivationCall
  <2>1. PICK cfg, gen : FallsBackTo(cfg, gen)
    BY <1>4 DEF UndoCall, UndoActivationCall
  <2>2. Moves(op, "undone")
    BY <1>1, <2>1 DEF Moves, IsOp, FallsBackTo
  <2> QED BY <2>2, <2>1, MoveKeeps DEF FallsBackTo, Leads, storeVars
<1>5. CASE Cleanup
  <2>1. Moves(op, "cleaned")
    BY <1>1, <1>5 DEF Cleanup, Moves, IsOp
  <2> QED BY <2>1, <1>5, MoveKeeps DEF Cleanup, Leads, storeVars
<1> QED BY <1>2, <1>3, <1>4, <1>5

LEMMA AnswersBackKeep ==
  ASSUME TransactionInv, UndoAnswered \/ CleanedUp
  PROVE  Kept
<1> USE DEF TransactionInv
<1>1. CASE UndoAnswered
  <2>1. op.broken \in BOOLEAN
    BY DEF ShapeInv
  <2>2. ASSUME NEW broken \in BOOLEAN, op.broken => broken, Undone(broken) PROVE Kept
    BY <1>1, <2>1, <2>2, UndoneKeeps DEF KindsInv, Hot, DocumentInv, SecretInv, AsBefore,
       UndoAnswered, storeVars
  <2>3. CASE Undone(op.broken \/ ~reply.ok \/ reply.phase # "stopped")
    <3> DEFINE broken == op.broken \/ ~reply.ok \/ reply.phase # "stopped"
    <3> HIDE DEF broken
    <3> QED BY <2>2, <2>3
  <2> QED BY <2>1, <1>1, <2>2, <2>3 DEF UndoAnswered
<1>2. CASE CleanedUp
  BY <1>2, UndoneKeeps DEF AsBefore, Restored, KindsInv, DocumentInv, CleanedUp, storeVars
<1> QED BY <1>1, <1>2

LEMMA UndoCredentialKeeps ==
  ASSUME TransactionInv, NEW c \in Commits, UndoCredential(c)
  PROVE  Kept
<1> USE DEF TransactionInv
<1>1. /\ op.step = "unset" /\ op.kind = "secret" /\ UNCHANGED <<document, credentials>>
      /\ secret' = (secret /\ c = "refused") /\ secret' \in BOOLEAN
      /\ document \in Document /\ document.providers \subseteq credentials
  BY DEF UndoCredential, ShapeInv, CredentialsInv
<1>2. CASE document # op.prev /\ c = "done"
  <2>1. Moves(op, "unmark") /\ op' # NoOp
    BY <1>2, GoMoves, NoOpFields DEF UndoCredential, ShapeInv, Moves
  <2>2. DocumentInv' /\ SecretInv' /\ CredentialsInv'
    BY <1>1, <1>2, <2>1 DEF DocumentInv, SecretInv, CredentialsInv, Moves, Asked
  <2> QED
    BY <2>1, <1>1, <2>2 DEF Kept, FailureUndoes, SuccessApplies, Ends, ShapeInv, KindsInv,
       Moves, Hot
<1>3. CASE ~(document # op.prev /\ c = "done")
  <2>1. op' = NoOp /\ outcome'.result = IF c # "done" THEN "degraded" ELSE "failed"
    BY <1>3, FinishEnds DEF UndoCredential, Undone
  <2> QED
    BY <1>1, <1>3, <2>1, EndKeeps DEF Kept, FailureUndoes, SuccessApplies, Ends
<1> QED BY <1>2, <1>3

LEMMA UndoCreateKeeps ==
  ASSUME TransactionInv, NEW c \in Commits, UndoCreate(c)
  PROVE  Kept
<1> USE DEF TransactionInv
<1> QED
  BY FinishEnds, EndKeeps DEF Kept, FailureUndoes, SuccessApplies, Ends, ShapeInv, UndoCreate,
     CredentialsInv, DocumentInv, Undone

LEMMA RestoreTestKeeps ==
  ASSUME TransactionInv, NEW c \in Commits, RestoreTest(c)
  PROVE  Kept
<1> USE DEF TransactionInv
<1>1. /\ op.step = "unmark" /\ op.kind = "secret" /\ UNCHANGED <<credentials, secret>>
      /\ Persist(op.prev, c) /\ ~secret /\ document.providers \subseteq credentials
      /\ op.prev.providers = document.providers
  BY DEF RestoreTest, KindsInv, SecretInv, CredentialsInv, DocumentInv
<1> QED
  BY <1>1, FinishEnds, PersistDocument, EndKeeps DEF Kept, FailureUndoes, SuccessApplies, Ends,
     ShapeInv, RestoreTest, Undone

------------------------
(* All steps *)

LEMMA TransactionInit == Init => TransactionInv
<1> SUFFICES ASSUME Init PROVE TransactionInv
  OBVIOUS
<1>1. op = NoOp /\ secret = FALSE /\ credentials = Providers
      /\ document = [providers |-> Providers, active |-> InitialActive, tested |-> Providers,
                     settings |-> [s \in Settings |-> FALSE]]
  BY DEF Init
<1>2. document \in Document /\ document.providers = Providers
  BY <1>1, InitialAssumption DEF Document
<1>3. CredentialsInv
  BY <1>1, <1>2, NoOpFields DEF CredentialsInv, NoDocument
<1> QED
  BY <1>1, <1>2, <1>3, NoOpFields, NoDocumentType DEF TransactionInv, DocumentInv, SecretInv,
     Before, ShapeInv, KindsInv, Hot

LEMMA TransactionStep == TransactionInv /\ [Next]_vars => Kept
<1> SUFFICES ASSUME TransactionInv, [Next]_vars PROVE Kept
  OBVIOUS
<1>1. CASE Calls
  BY <1>1, CallsKeep
<1>2. CASE Forward
  BY <1>2, SetCredentialKeeps, ResetTestKeeps, CommitKeeps, FallbackKeeps, BuildKeeps,
     BuildFailsKeeps, CallWorkerKeeps, AnswersKeep, ForgetKeeps, SelectionRecordedKeeps,
     RecordsKeep, TestsKeep DEF Forward
<1>3. CASE Backward
  BY <1>3, UndoKeeps, RestoreSecretKeeps, CallsBackKeep, AnswersBackKeep,
     UndoCredentialKeeps, UndoCreateKeeps, RestoreTestKeeps DEF Backward
<1>4. CASE Manager \/ ManagerFails \/ UNCHANGED vars
  BY <1>4, StaysKept DEF Manager, ManagerFails, vars, storeVars
<1> QED
  BY <1>1, <1>2, <1>3, <1>4 DEF Next

LEMMA TransactionAlways == Spec => []TransactionInv
<1>1. TransactionInv /\ [Next]_vars => TransactionInv'
  BY TransactionStep DEF Kept
<1> QED
  BY <1>1, TransactionInit, PTL DEF Spec

\* Every configured provider has its credential between two operations, whichever of them
\* fail, in whichever step of theirs and of their rollbacks (createProvider, deleteProvider).
THEOREM ProvidersKeepCredentials == Spec => []ProvidersHaveCredentials
<1>1. TransactionInv => ProvidersHaveCredentials
  BY DEF TransactionInv, CredentialsInv, ProvidersHaveCredentials
<1> QED
  BY <1>1, TransactionAlways, PTL

\* An operation that reports a plain failure leaves the registry, but for the preferred
\* provider that a change of the Capture details fell back to, the secret and the credentials
\* as it found them: the commits, the rollbacks and their order in provider-service.mjs.
THEOREM FailuresUndo == Spec => [][FailureUndoes]_vars
<1>1. TransactionInv /\ [Next]_vars => [FailureUndoes]_vars
  BY TransactionStep DEF Kept
<1> QED
  BY <1>1, TransactionAlways, PTL DEF Spec

\* Where the Capture details are not changed, all of the registry is as it was.
THEOREM FailuresChangeNothing ==
  ASSUME "details" \notin Operations
  PROVE  Spec => FailedChangesNothing
<1>1. TransactionInv /\ [Next]_vars =>
        [Ends({"failed"}) =>
           /\ IF op.kind = "test" THEN document'.active = op.prev.active
              ELSE document' = op.prev
           /\ op.kind = "secret" => ~secret'
           /\ op.kind = "create" => op.id \notin credentials']_vars
  <2> SUFFICES ASSUME TransactionInv, [Next]_vars, Ends({"failed"})
               PROVE  /\ IF op.kind = "test" THEN document'.active = op.prev.active
                         ELSE document' = op.prev
                      /\ op.kind = "secret" => ~secret'
                      /\ op.kind = "create" => op.id \notin credentials'
    OBVIOUS
  <2> QED BY TransactionStep DEF FailureUndoes, TransactionInv, ShapeInv, Kept
<1> QED
  BY <1>1, TransactionAlways, PTL DEF Spec, FailedChangesNothing

\* An operation that reports success, or a commit with a warning, has changed the registry as
\* it was asked to; a replaced secret is in use, whether or not the edit that came with it is.
THEOREM SuccessesApply == Spec => [][SuccessApplies]_vars
<1>1. TransactionInv /\ [Next]_vars => [SuccessApplies]_vars
  BY TransactionStep DEF Kept
<1> QED
  BY <1>1, TransactionAlways, PTL DEF Spec

\* Where no secret is replaced, this is all that was asked.
THEOREM CommitsAreApplied ==
  ASSUME "secret" \notin Operations
  PROVE  Spec => CommittedIsApplied
<1>1. TransactionInv /\ [Next]_vars =>
        [Ends({"ok", "committed", "unrecorded"}) /\ op.kind # "test" =>
           /\ document'.settings = op.next.settings
           /\ document'.providers = op.next.providers
           /\ op.kind \in {"activate", "start", "restart"} =>
                document'.active = op.next.active
           /\ op.kind = "secret" => secret']_vars
  <2> SUFFICES ASSUME TransactionInv, [Next]_vars,
                      Ends({"ok", "committed", "unrecorded"}), op.kind # "test"
               PROVE  /\ document'.settings = op.next.settings
                      /\ document'.providers = op.next.providers
                      /\ op.kind \in {"activate", "start", "restart"} =>
                           document'.active = op.next.active
                      /\ op.kind = "secret" => secret'
    OBVIOUS
  <2> QED BY TransactionStep DEF SuccessApplies, TransactionInv, ShapeInv, Kept
<1> QED
  BY <1>1, TransactionAlways, PTL DEF Spec, CommittedIsApplied

------------------------
(* What ties the Worker to the registry *)

\* The operations without which nothing gets out of step, however much goes wrong.  An
\* activation that fails goes back to what was confirmed last, which may be before a stop
\* and an edit; the details go back without the preferred provider that was replaced; and
\* a routing mode that the log refuses, and the rollback of which fails, leaves its
\* generation in the Worker, for the next candidate to be taken for it.
InStep ==
  /\ "activate" \notin Operations /\ "details" \notin Operations
  /\ "mode" \in Operations => ~Recording

Agrees(cfg, doc, sec) ==
  /\ cfg \in Configurations
  /\ cfg.preferred \in {doc.active, NoProvider} /\ cfg.pool \subseteq doc.providers
  /\ cfg.settings = doc.settings /\ cfg.secret = sec

Changing == Hot \union {"weight", "mode", "capture"}
Starting == {"start", "restart"}
Candidate == Want(op.gen, op.cand)

\* What is confirmed is in use, or may come back without a call.
Live == phase \in {"running", "backoff"} \/ recovery # "none"

\* The Worker in service serves what is confirmed.
Serves == phase = "running" /\ worker.alive => worker.snap = confirmed /\ inbox = <<>>

\* The job was begun by the call that waits for it, not by a recovery or an account update.
OwnJob == (job.fn = "start" /\ recovery # "attempt") \/ job.fn = "apply" \/ job.restart

IsWorker(w) == w = [alive |-> w.alive, snap |-> w.snap]

SlotShape ==
  /\ ~closed /\ recovery \in {"none", "attempt", "rejected"}
  /\ job.fn \in {"none", "start", "apply", "account", "stop"}
  /\ job.fn = "none" <=> job = Slot!NoJob
  /\ job.restart \in BOOLEAN /\ (job.restart => job.fn = "stop")
  /\ phase = "starting" <=> job.fn = "start"
  /\ phase = "draining" <=> job.fn = "stop"
  /\ job.fn \in {"apply", "account"} => phase = "running"
  /\ recovery = "attempt" => job.fn = "start" /\ job.snap = confirmed
  /\ OwnJob => call.kind # "none"
  /\ call.kind # "none" => job # Slot!NoJob
  /\ IsWorker(worker)
  /\ ~worker.alive => worker = Slot!Gone /\ inbox = <<>>

\* The candidate is confirmed, and its operation has not ended.
Taken ==
  \/ op.step \in {"called", "undone"} /\ confirmed.gen > confirmedGeneration
  \/ op.attempted /\ op.step \in {"forget", "record"} /\ op.kind # "stop"

\* The Worker may serve a candidate that is not confirmed.
Tried ==
  /\ op.attempted /\ op.kind \in Changing
  /\ op.step \in {"called", "undo", "restore", "rebuild", "undocall", "undone"}

\* Who waits for what, and what the answer says.
CallInv ==
  /\ call.kind # "none" =>
       op.step \in {"called", "undone", "cleaned"} /\ confirmed.gen <= confirmedGeneration
  /\ OwnJob => job.snap = Candidate /\ op.step \in {"called", "undone"} /\ op.kind # "stop"
  /\ Answered => /\ reply.gen = confirmed.gen /\ reply.phase = phase
                 /\ confirmed.gen > confirmedGeneration => reply.ok /\ phase = "running"

\* What is confirmed is what the service knows of, but for a candidate just taken.
ConfirmedInv ==
  /\ confirmedGeneration \in Nat /\ confirmed.gen \in Nat
  /\ Taken => confirmed = Candidate /\ Serves
  /\ confirmed.gen > confirmedGeneration =>
       Taken /\ (op.step = "record" => op.kind = "mode") /\ op.step # "forget"

\* The generation of a candidate is new.
WithCandidate ==
  \/ op.kind \in Starting /\ op.step = "build"
  \/ op.kind \in {"mode", "capture"} /\ op.running /\ op.step \in {"build", "commit"}
  \/ op.step \in {"call", "called"} /\ op.kind # "stop"
  \/ op.step = "undone"

GenerationInv ==
  /\ op.gen \in Nat
  /\ op.kind = "stop" => op.gen = 0
  /\ op.kind \in Hot \union {"weight"}
     /\ op.step \in {"set", "reset", "commit", "fallback", "build"} =>
       op.gen = confirmedGeneration
  /\ WithCandidate => op.gen > confirmedGeneration

\* Which operation has called the Worker, and what was in service when it began.
AttemptInv ==
  /\ op.running \in BOOLEAN /\ op.attempted \in BOOLEAN /\ trusted \in BOOLEAN
  /\ op.attempted =>
      /\ op.kind \in Changing \union Starting \union {"stop"}
      /\ op.kind \in Changing => op.running
      /\ op.step \in {"called", "forget", "record", "undo", "restore", "rebuild", "undocall",
                      "undone", "cleanup", "cleaned"}
  /\ op.step \in {"called", "undocall", "undone", "cleaned", "cleanup"} => op.attempted
  /\ op.kind \in Changing /\ op.running /\ op.step \in {"forget", "record"} => op.attempted
  /\ op.kind \in Changing /\ op.step \in {"build", "call", "fallback"} => op.running
  /\ (op.kind \in Changing /\ ~op.running) \/ op.kind = "host" => ~Live

SecretBefore == IF op.kind = "secret" THEN FALSE ELSE secret
DocumentBefore == IF op.step = "none" THEN document ELSE op.prev

\* What is confirmed stands as it stood before the operation.
BasisInv ==
  trusted /\ ~Taken /\ ~Tried =>
    /\ Serves
    /\ Live => /\ Agrees(confirmed.cfg, DocumentBefore, SecretBefore)
               /\ confirmedSnapshot = confirmed.cfg

\* So does what a rollback goes back to.
PriorInv ==
  /\ op.kind \in Changing /\ op.running /\ trusted => Agrees(op.prior, op.prev, SecretBefore)
  /\ op.kind \in Changing /\ op.running /\ (op.kind # "weight" \/ op.step = "call" \/ op.attempted) =>
       op.prior # NoConfig

\* The candidate stands as the registry does, or will when it is written.
CandidateInv ==
  /\ op.kind \in Hot \union {"weight", "mode"} \union Starting /\ op.step \in {"call", "called"}
       => Agrees(op.cand, document, secret)
  /\ op.kind = "mode" /\ op.running /\ op.step = "commit" => Agrees(op.cand, op.next, secret)
  /\ op.kind = "capture" /\ trusted /\ op.step = "called" => Agrees(op.cand, document, secret)
  /\ op.attempted /\ op.step \in {"forget", "record"} /\ op.kind # "stop" =>
       /\ trusted \/ op.kind # "capture" => Agrees(op.cand, document, secret)
       /\ op.kind # "mode" => confirmedSnapshot = op.cand
  /\ op.step = "undone" =>
       /\ op.cand # NoConfig
       /\ trusted /\ ~op.broken => Agrees(op.cand, document, secret)

\* What an operation that calls no Worker changes is in no snapshot.
Covers(doc, base) ==
  /\ doc.settings = base.settings /\ base.providers \subseteq doc.providers
  /\ base.active \in {doc.active, NoProvider}
Closed(doc) == doc.tested \subseteq doc.providers

DataInv ==
  /\ Closed(document) /\ Closed(op.prev) /\ Closed(op.next)
  /\ op.kind \in {"create", "group", "test", "stop"} \union Starting =>
      Covers(op.next, op.prev) /\ Covers(document, op.prev)
  /\ op.kind = "test" => op.id \in document.providers
  /\ op.kind \in Starting /\ op.step = "build" => op.id = document.active
  /\ op.kind = "capture" =>
       op.next.settings = WithCapture(op.prev.settings, op.next.settings["capture"])

LinkInv ==
  /\ SlotShape /\ CallInv /\ ConfirmedInv /\ GenerationInv /\ AttemptInv
  /\ BasisInv /\ PriorInv /\ CandidateInv /\ DataInv

------------------------
(* The manager by itself *)

\* A step of the manager after which what was confirmed still is.
SlotStays ==
  /\ confirmed' = confirmed /\ (Live' => Live) /\ (Serves => Serves')
  /\ OwnJob' => OwnJob /\ job'.snap = job.snap
  /\ \/ call'.kind = call.kind /\ (call.kind # "none" \/ reply' = reply)
     \/ call'.kind = "none" /\ reply'.gen = confirmed'.gen /\ reply'.phase = phase'

\* The manager confirms the snapshot of the call that waits.
SlotConfirms ==
  /\ OwnJob /\ confirmed' = job.snap /\ ~OwnJob'
  /\ phase' = "running" /\ Serves'
  /\ call'.kind = "none"
  /\ reply'.ok /\ reply'.phase = "running" /\ reply'.gen = confirmed'.gen

LEMMA AnswerIs ==
  ASSUME NEW c, NEW ok, Slot!Answer(c, ok)
  PROVE  /\ c.kind = "none" => call' = call /\ reply' = reply
         /\ c.kind # "none" =>
              /\ call'.kind = "none"
              /\ reply'.ok = ok /\ reply'.phase = phase' /\ reply'.gen = confirmed'.gen
  BY DEF Slot!Answer, Slot!NoCall

\* The call that waited, if there was one, has its answer.
LEMMA CallAnswered ==
  ASSUME NEW ok, Slot!Answer(call, ok)
  PROVE  /\ call'.kind = "none"
         /\ \/ call'.kind = call.kind /\ reply' = reply
            \/ call'.kind = "none" /\ reply'.gen = confirmed'.gen /\ reply'.phase = phase'
<1>1. CASE call.kind = "none"
  BY <1>1 DEF Slot!Answer
<1>2. CASE call.kind # "none"
  BY <1>2, AnswerIs
<1> QED BY <1>1, <1>2

LEMMA NoJobIs ==
  /\ Slot!NoJob.fn = "none" /\ Slot!NoJob.restart = FALSE
  BY DEF Slot!NoJob

\* A job has ended, or was rejected.
LEMMA SettledStays ==
  ASSUME SlotShape, NEW ok, job' = Slot!NoJob, Slot!Answer(call, ok),
         UNCHANGED <<worker, inbox, closed, confirmed>>,
         phase' \notin {"starting", "draining"},
         recovery' \in {"none", "rejected"},
         Live' => Live, Serves => Serves'
  PROVE  SlotShape' /\ SlotStays
<1> QED BY NoJobIs, CallAnswered DEF SlotShape, SlotStays, OwnJob

LEMMA SettleIs ==
  ASSUME SlotShape, NEW ok \in BOOLEAN, Slot!Settle(ok)
  PROVE  /\ job' = Slot!NoJob /\ Slot!Answer(call, ok)
         /\ recovery' \in {"none", "rejected"}
         /\ recovery' # "none" => recovery # "none"
         /\ ok /\ recovery = "attempt" => recovery' = "none"
         /\ recovery # "attempt" => recovery' = recovery
  BY DEF SlotShape, Slot!Settle

LEMMA WorkerSteps ==
  ASSUME SlotShape, Slot!WorkerTakes \/ Slot!WorkerDies \/ Slot!StartSends
  PROVE  SlotShape' /\ SlotStays
<1>1. CASE Slot!WorkerTakes
  <2>1. PICK head : worker' = [worker EXCEPT !.snap = head]
    BY <1>1 DEF Slot!WorkerTakes
  <2> QED
    BY <1>1, <2>1 DEF Slot!WorkerTakes, SlotShape, SlotStays, Live, Serves, OwnJob, IsWorker
<1>2. CASE Slot!WorkerDies
  BY <1>2 DEF Slot!WorkerDies, SlotShape, SlotStays, Live, Serves, OwnJob, Slot!Gone, IsWorker
<1>3. CASE Slot!StartSends
  BY <1>3 DEF Slot!StartSends, SlotShape, SlotStays, Live, Serves, OwnJob, Slot!Fresh
<1> QED BY <1>1, <1>2, <1>3

LEMMA ConfirmSteps ==
  ASSUME SlotShape, Slot!Started \/ Slot!ApplyConfirmed
  PROVE  SlotShape' /\ (SlotStays \/ SlotConfirms)
<1>1. /\ job.fn \in {"start", "apply"} /\ confirmed' = job.snap /\ phase' = "running"
      /\ worker.alive => worker.snap = job.snap /\ inbox = <<>>
      /\ UNCHANGED <<worker, inbox, closed>> /\ Slot!Settle(TRUE)
  BY DEF Slot!Started, Slot!ApplyConfirmed, Slot!ServesOrGone
<1>2. /\ job' = Slot!NoJob /\ Slot!Answer(call, TRUE) /\ recovery' \in {"none", "rejected"}
      /\ recovery' # "none" => recovery # "none"
  BY <1>1, SettleIs
<1>3. Serves' /\ ~OwnJob'
  BY <1>1, <1>2, NoJobIs DEF Serves, OwnJob
<1>4. SlotShape'
  BY <1>1, <1>2, <1>3, CallAnswered, NoJobIs DEF SlotShape
<1>5. CASE OwnJob
  BY <1>4, <1>1, <1>2, <1>3, <1>5, AnswerIs DEF SlotConfirms, SlotShape
<1>6. CASE ~OwnJob
  BY <1>4, <1>1, <1>2, <1>3, <1>6, CallAnswered DEF SlotStays, OwnJob, SlotShape, Live
<1> QED BY <1>5, <1>6

LEMMA EndSteps ==
  ASSUME SlotShape,
         \/ Slot!AccountApplied \/ Slot!MessageFails \/ Slot!StopFails \/ Slot!CrashNoticed
         \/ \E ok \in BOOLEAN : Slot!StopEnds(ok)
  PROVE  SlotShape' /\ SlotStays
<1>1. CASE Slot!AccountApplied \/ Slot!MessageFails
  <2>1. PICK ok \in BOOLEAN : /\ job.fn \in {"apply", "account"} /\ Slot!Settle(ok)
                              /\ UNCHANGED <<phase, confirmed, worker, inbox, closed>>
    BY <1>1 DEF Slot!AccountApplied, Slot!MessageFails
  <2> QED
    BY <2>1, SettleIs, SettledStays DEF Live, Serves, SlotShape
<1>2. CASE Slot!StopFails \/ \E ok \in BOOLEAN : Slot!StopEnds(ok)
  <2>1. PICK ok \in BOOLEAN : /\ phase' \in {"stopped", "failed"} /\ Slot!Settle(ok)
                              /\ UNCHANGED <<confirmed, worker, inbox, closed>>
    BY <1>2 DEF Slot!StopFails, Slot!StopEnds
  <2> QED
    BY <2>1, SettleIs, SettledStays DEF Live, Serves
<1>3. CASE Slot!CrashNoticed
  BY <1>3, SettledStays DEF Live, Serves, Slot!CrashNoticed
<1> QED BY <1>1, <1>2, <1>3

LEMMA OtherSteps ==
  ASSUME SlotShape,
         Slot!AccountBegins \/ Slot!RecoveryRetries \/ Slot!RecoveryGivesUp
  PROVE  SlotShape' /\ SlotStays
<1>1. CASE Slot!AccountBegins
  BY <1>1, NoJobIs DEF SlotShape, SlotStays, Live, Serves, OwnJob, Slot!AccountBegins,
     Slot!NoJob
<1>2. CASE Slot!RecoveryRetries
  BY <1>2, NoJobIs DEF Slot!RecoveryRetries, SlotShape, SlotStays, Live, Serves, OwnJob
<1>3. CASE Slot!RecoveryGivesUp
  BY <1>3 DEF Slot!RecoveryGivesUp, SlotShape, SlotStays, Live, Serves, OwnJob
<1> QED BY <1>1, <1>2, <1>3

\* A process is forked, for a call or a recovery.
LEMMA ForksShape ==
  ASSUME SlotShape, NEW c, NEW snap, Slot!Forks(c, snap),
         UNCHANGED <<confirmed, closed>>,
         recovery' \in {"none", "attempt", "rejected"},
         recovery' = "attempt" => snap = confirmed /\ c.kind = "none",
         recovery' # "attempt" => c.kind # "none"
  PROVE  SlotShape' /\ job'.snap = snap /\ (Serves => Serves') /\ phase' = "starting"
<1>1. /\ phase' = "starting" /\ worker' = Slot!Fresh /\ inbox' = <<>>
      /\ job' = [Slot!NoJob EXCEPT !.fn = "start", !.snap = snap] /\ call' = c
  BY DEF Slot!Forks
<1>2. /\ job'.fn = "start" /\ job'.snap = snap /\ job'.restart = FALSE /\ job' # Slot!NoJob
      /\ worker'.alive /\ IsWorker(worker)'
  BY <1>1 DEF Slot!NoJob, Slot!Fresh, IsWorker
<1>3. phase' = "starting" /\ call' = c
  BY <1>1
<1>4. SlotShape'
  BY <1>2, <1>3 DEF SlotShape, OwnJob
<1> QED
  BY <1>2, <1>3, <1>4 DEF Serves

LEMMA RestartSteps ==
  ASSUME SlotShape, Slot!RestartForks
  PROVE  SlotShape' /\ SlotStays
<1>1. /\ job.fn = "stop" /\ job.restart /\ UNCHANGED <<confirmed, recovery, closed>>
      /\ OwnJob /\ call.kind # "none" /\ recovery \in {"none", "rejected"}
  BY DEF Slot!RestartForks, OwnJob, SlotShape
<1>2. CASE Slot!Forks(call, job.snap)
  BY <1>1, <1>2, ForksShape DEF SlotStays, Live, Slot!Forks, Slot!NoCall
<1>3. CASE Slot!ForkFails(call)
  BY <1>1, <1>3, SettledStays DEF Live, Serves, Slot!ForkFails
<1> QED BY <1>2, <1>3, <1>1 DEF Slot!RestartForks

LEMMA RecoverySteps ==
  ASSUME SlotShape, Slot!RecoveryStarts
  PROVE  SlotShape' /\ SlotStays
<1>1. /\ phase = "backoff" /\ job = Slot!NoJob /\ UNCHANGED <<confirmed, closed>>
      /\ Slot!NoCall.kind = "none" /\ call.kind = "none" /\ ~OwnJob /\ Live
  BY NoJobIs DEF Slot!RecoveryStarts, Slot!NoCall, SlotShape, OwnJob, Live
<1>2. CASE Slot!Forks(Slot!NoCall, confirmed) /\ recovery' = "attempt"
  BY <1>1, <1>2, ForksShape DEF SlotStays, OwnJob, Slot!Forks, Slot!NoJob
<1>3. CASE Slot!ForkFails(Slot!NoCall) /\ recovery' = "rejected"
  BY <1>1, <1>3, AnswerIs, SettledStays DEF Slot!Answer, Serves, Slot!ForkFails
<1> QED BY <1>2, <1>3 DEF Slot!RecoveryStarts

\* Whatever the manager and the Worker do, what is confirmed stays confirmed and served, but
\* for the candidate of the call that waits.
LEMMA ManagerSteps ==
  ASSUME SlotShape, Manager \/ ManagerFails
  PROVE  SlotShape' /\ (SlotStays \/ SlotConfirms)
<1>1. CASE Slot!WorkerTakes \/ Slot!WorkerDies \/ Slot!StartSends
  BY <1>1, WorkerSteps
<1>2. CASE Slot!Started \/ Slot!ApplyConfirmed
  BY <1>2, ConfirmSteps
<1>3. CASE \/ Slot!AccountApplied \/ Slot!MessageFails \/ Slot!StopFails \/ Slot!CrashNoticed
           \/ \E ok \in BOOLEAN : Slot!StopEnds(ok)
  BY <1>3, EndSteps
<1>4. CASE Slot!AccountBegins \/ Slot!RecoveryRetries \/ Slot!RecoveryGivesUp
  BY <1>4, OtherSteps
<1>5. CASE Slot!RestartForks
  BY <1>5, RestartSteps
<1>6. CASE Slot!RecoveryStarts
  BY <1>6, RecoverySteps
<1> QED
  BY <1>1, <1>2, <1>3, <1>4, <1>5, <1>6 DEF Manager, ManagerFails, SlotProceeds

\* A call has begun a job with its snapshot, joined another one, or is answered at once.
SlotCalled(want) ==
  /\ confirmed' = confirmed /\ (Live' => Live)
  /\ OwnJob' => job'.snap = want
  /\ call'.kind = "none" => reply'.gen = confirmed'.gen /\ reply'.phase = phase'

LEMMA NoCallIs ==
  ASSUME SlotShape, call = Slot!NoCall
  PROVE  call.kind = "none" /\ ~OwnJob
  BY DEF Slot!NoCall, SlotShape

LEMMA JoinedIs ==
  ASSUME SlotShape, call = Slot!NoCall, NEW kind, kind # "none", NEW want,
         Slot!Joined(kind, want)
  PROVE  SlotShape' /\ confirmed' = confirmed /\ (Live' => Live) /\ (Serves => Serves')
         /\ ~OwnJob' /\ call'.kind # "none"
<1> QED BY NoCallIs DEF Live, Serves, SlotShape, IsWorker, OwnJob, Slot!Joined

LEMMA AnsweredNowIs ==
  ASSUME SlotShape, call = Slot!NoCall, job = Slot!NoJob, NEW kind, kind # "none", NEW want,
         NEW ok \in BOOLEAN, Slot!AnsweredNow(kind, want, ok),
         \/ UNCHANGED <<phase, recovery>>
         \/ phase' = "stopped" /\ recovery' = "none"
  PROVE  SlotShape' /\ SlotCalled(want) /\ (Serves => Serves') /\ ~OwnJob'
<1> QED
  BY NoJobIs, AnswerIs DEF SlotCalled, Live, Serves, SlotShape, IsWorker, Slot!AnsweredNow,
     OwnJob

LEMMA ForkedIs ==
  ASSUME SlotShape, call = Slot!NoCall, job = Slot!NoJob, NEW kind, kind # "none", NEW want,
         \/ Slot!Forks([kind |-> kind, want |-> want], want)
         \/ Slot!ForkFails([kind |-> kind, want |-> want]),
         UNCHANGED <<confirmed, closed>>,
         UNCHANGED recovery \/ recovery' = "none"
  PROVE  SlotShape' /\ SlotCalled(want) /\ (Serves => Serves')
<1> DEFINE c == [kind |-> kind, want |-> want]
<1>1. c.kind = kind
  OBVIOUS
<1>2. recovery' \in {"none", "rejected"} /\ (recovery' # "none" => recovery # "none")
  BY NoJobIs DEF SlotShape
<1> HIDE DEF c
<1>3. CASE Slot!Forks(c, want)
  BY <1>1, <1>2, <1>3, ForksShape DEF SlotCalled, Live, Slot!Forks
<1>4. CASE Slot!ForkFails(c)
  BY <1>1, <1>4, <1>2, AnswerIs, NoJobIs DEF SlotCalled, Live, Serves, SlotShape, IsWorker,
     OwnJob, Slot!ForkFails
<1> QED BY <1>3, <1>4 DEF c

LEMMA DrainIs ==
  ASSUME SlotShape, call = Slot!NoCall, job = Slot!NoJob, NEW kind \in {"stop", "restart"},
         NEW want, Slot!BeginStop(kind, want),
         UNCHANGED recovery \/ recovery' = "none"
  PROVE  SlotShape' /\ SlotCalled(want) /\ (Serves => Serves')
         /\ (OwnJob' => kind = "restart") /\ call'.kind # "none"
<1> QED BY NoJobIs DEF SlotCalled, Live, Serves, SlotShape, IsWorker, OwnJob, Slot!BeginStop

LEMMA StartCalls ==
  ASSUME SlotShape, NEW want, Slot!Start(want) \/ Slot!Restart(want)
  PROVE  SlotShape' /\ SlotCalled(want) /\ (Serves => Serves')
<1>1. call = Slot!NoCall /\ ~closed
  BY DEF Slot!Start, Slot!Restart, SlotShape
<1>2. ASSUME NEW kind \in {"start", "restart"}, Slot!Joined(kind, want)
      PROVE  SlotShape' /\ SlotCalled(want) /\ (Serves => Serves')
  BY <1>1, <1>2, JoinedIs DEF SlotCalled
<1>3. CASE Slot!Start(want)
  BY <1>1, <1>2, <1>3, AnsweredNowIs, ForkedIs DEF Slot!Start, Slot!Refused, Slot!Free
<1>4. CASE Slot!Restart(want)
  BY <1>1, <1>2, <1>4, DrainIs, ForkedIs
  DEF Slot!Restart, Slot!Refused, Slot!Free, Slot!BeginStop
<1> QED BY <1>3, <1>4

LEMMA StopCalls ==
  ASSUME SlotShape, Slot!Stop
  PROVE  /\ SlotShape' /\ (Serves => Serves') /\ ~OwnJob'
         /\ confirmed' = confirmed /\ (Live' => Live)
         /\ call'.kind = "none" => reply'.gen = confirmed'.gen /\ reply'.phase = phase'
<1>1. call = Slot!NoCall /\ ~closed
  BY DEF Slot!Stop, SlotShape
<1>2. CASE Slot!Joined("stop", Slot!NoSnap)
  BY <1>1, <1>2, JoinedIs
<1>3. CASE /\ job = Slot!NoJob /\ phase' = "stopped" /\ recovery' = "none"
           /\ Slot!AnsweredNow("stop", Slot!NoSnap, TRUE)
  BY <1>1, <1>3, AnsweredNowIs DEF SlotCalled
<1>4. CASE job = Slot!NoJob /\ Slot!BeginStop("stop", Slot!NoSnap) /\ UNCHANGED recovery
  BY <1>1, <1>4, DrainIs DEF SlotCalled
<1> QED BY <1>1, <1>2, <1>3, <1>4 DEF Slot!Stop, Slot!Refused, Slot!Free

LEMMA ApplyCalls ==
  ASSUME SlotShape, NEW want, Slot!Apply(want)
  PROVE  SlotShape' /\ SlotCalled(want)
<1>1. call = Slot!NoCall /\ ~closed
  BY DEF Slot!Apply, SlotShape
<1>2. CASE Slot!Joined("apply", want)
  BY <1>1, <1>2, JoinedIs DEF SlotCalled
<1>3. CASE job = Slot!NoJob /\ UNCHANGED <<phase, recovery>> /\ Slot!AnsweredNow("apply", want, FALSE)
  BY <1>1, <1>3, AnsweredNowIs
<1>4. CASE /\ job = Slot!NoJob /\ phase = "running"
           /\ inbox' = (IF worker.alive THEN Append(inbox, want) ELSE inbox)
           /\ job' = [Slot!NoJob EXCEPT !.fn = "apply", !.snap = want]
           /\ call' = [kind |-> "apply", want |-> want]
           /\ UNCHANGED <<phase, confirmed, worker, recovery, closed>>
  BY <1>4, NoJobIs DEF SlotCalled, SlotShape, IsWorker, Slot!NoJob, Live
<1> QED BY <1>1, <1>2, <1>3, <1>4 DEF Slot!Apply, Slot!Refused, Slot!Free

------------------------
(* An operation that moves, ends or begins *)

LEMMA SlotSame ==
  ASSUME UNCHANGED slotVars
  PROVE  /\ SlotShape' <=> SlotShape
         /\ Live' <=> Live
         /\ Serves' <=> Serves
         /\ OwnJob' <=> OwnJob
         /\ UNCHANGED <<phase, confirmed, job, call, reply>>
  BY DEF slotVars, SlotShape, IsWorker, Live, Serves, OwnJob

\* The same operation.
Same ==
  /\ op'.kind = op.kind /\ op'.id = op.id /\ op'.prev = op.prev /\ op'.next = op.next
  /\ op'.running = op.running /\ op'.prior = op.prior

Unattempted == {"set", "reset", "commit", "fallback", "build", "call", "record", "select",
                "selected", "clear", "undo", "restore", "forget", "unset", "unmark"}

\* What a step of an operation that has not called the Worker must see to.
LEMMA MovesLinked ==
  ASSUME LinkInv, op.step # "none", ~op.attempted, Same, op'.attempted = FALSE,
         op'.step \in Unattempted,
         UNCHANGED <<slotVars, factVars, trusted>>,
         secret' = secret \/ op.kind = "secret",
         op.kind \in Changing /\ op.running => op'.step \notin {"forget", "record"},
         op.kind \in Changing /\ op'.step \in {"build", "call", "fallback"} => op.running,
         op'.step = "call" =>
           /\ op.kind # "capture" => Agrees(op'.cand, document', secret')
           /\ op.prior # NoConfig \/ op.kind # "weight",
         op.kind = "mode" /\ op.running /\ op'.step = "commit" =>
           Agrees(op'.cand, op.next, secret'),
         GenerationInv',
         Closed(document'),
         op.kind \in {"create", "group", "test", "stop"} \union Starting =>
           Covers(document', op.prev),
         op.kind = "test" => op.id \in document'.providers,
         op.kind \in Starting => op'.step # "build"
  PROVE  LinkInv'
<1> USE DEF LinkInv
<1>1. /\ op.step \notin {"called", "undocall", "undone", "cleaned", "cleanup"}
      /\ op'.step \notin {"called", "undocall", "undone", "cleaned", "cleanup"}
  BY DEF AttemptInv, Unattempted
<1>2. ~Taken /\ ~Tried /\ ~Taken' /\ ~Tried'
  BY <1>1 DEF Taken, Tried
<1>3. call.kind = "none" /\ call'.kind = "none" /\ ~OwnJob /\ ~OwnJob' /\ SlotShape'
  BY <1>1, SlotSame DEF CallInv, SlotShape
<1>4. CallInv'
  BY <1>1, <1>3 DEF CallInv, Answered
<1>5. ConfirmedInv'
  BY <1>2, SlotSame DEF ConfirmedInv, factVars
<1>6. AttemptInv'
  BY <1>1, SlotSame DEF AttemptInv, Same
<1>7. SecretBefore' = SecretBefore /\ DocumentBefore' = op.prev /\ DocumentBefore = op.prev
  <2>1. CASE op.kind = "secret"
    BY <2>1 DEF SecretBefore, DocumentBefore, Same, Unattempted
  <2>2. CASE op.kind # "secret"
    BY <2>2 DEF SecretBefore, DocumentBefore, Same, Unattempted
  <2> QED BY <2>1, <2>2
<1>8. BasisInv'
  BY <1>2, <1>7, SlotSame DEF BasisInv, factVars
<1>9. PriorInv'
  BY <1>7 DEF PriorInv, Same
<1> QED
  BY <1>3, <1>4, <1>5, <1>6, <1>8, <1>9, <1>1 DEF CandidateInv, Same, Hot, Starting, DataInv

LEMMA NoOpHas ==
  /\ NoOp.step = "none" /\ NoOp.kind = "none" /\ NoOp.attempted = FALSE
  /\ NoOp.running = FALSE /\ NoOp.gen = 0
  /\ NoOp.prev = NoDocument /\ NoOp.next = NoDocument
  BY DEF NoOp

LEMMA EndLinked ==
  ASSUME SlotShape, op' = NoOp, UNCHANGED slotVars, call.kind = "none",
         Closed(document'), trusted' \in BOOLEAN,
         confirmedGeneration' \in Nat, confirmed.gen \in Nat,
         confirmed.gen <= confirmedGeneration',
         trusted' => /\ Serves
                     /\ Live => /\ Agrees(confirmed.cfg, document', secret')
                                /\ confirmedSnapshot' = confirmed.cfg
  PROVE  LinkInv'
<1>1. /\ op'.step = "none" /\ op'.kind = "none" /\ op'.attempted = FALSE
      /\ op'.running = FALSE /\ op'.gen = 0 /\ op'.prev = NoDocument /\ op'.next = NoDocument
  BY NoOpHas
<1>2. call'.kind = "none" /\ ~OwnJob' /\ SlotShape'
  BY SlotSame DEF SlotShape
<1>3. ~Taken' /\ ~Tried'
  BY <1>1 DEF Taken, Tried
<1>4. ConfirmedInv'
  BY <1>1, <1>3, SlotSame DEF ConfirmedInv
<1>5. GenerationInv'
  BY <1>1 DEF GenerationInv, WithCandidate, Hot, Starting
<1>6. AttemptInv'
  BY <1>1 DEF AttemptInv, Changing, Hot
<1>7. BasisInv'
  BY <1>1, <1>3, SlotSame DEF BasisInv, DocumentBefore, SecretBefore
<1>8. CandidateInv'
  BY <1>1 DEF CandidateInv, Hot, Starting
<1>9. DataInv'
  BY <1>1 DEF DataInv, Closed, NoDocument, Starting
<1> QED
  BY <1>2, <1>1, <1>4, <1>5, <1>6, <1>7, <1>8, <1>9 DEF LinkInv, CallInv, Answered, PriorInv

\* The end of an operation that says that it has not been undone.
LEMMA EndDegraded ==
  ASSUME LinkInv, op' = NoOp, UNCHANGED <<slotVars, factVars>>, call.kind = "none",
         Closed(document'), trusted' = FALSE, confirmed.gen <= confirmedGeneration
  PROVE  LinkInv'
  BY EndLinked DEF LinkInv, ConfirmedInv, factVars

LEMMA CoveredAgrees ==
  ASSUME NEW cfg, NEW doc, NEW base, NEW sec, Agrees(cfg, base, sec), Covers(doc, base)
  PROVE  Agrees(cfg, doc, sec)
  BY DEF Agrees, Covers

\* The end of an operation after which the Worker is as before.
LEMMA EndBasis ==
  ASSUME LinkInv, op.step # "none", op' = NoOp, UNCHANGED <<slotVars, factVars>>,
         call.kind = "none", ~Taken, ~Tried, trusted' \in BOOLEAN, trusted' => trusted,
         Closed(document'),
         Live => Covers(document', op.prev) /\ secret' = SecretBefore
  PROVE  LinkInv'
<1>1. confirmed.gen <= confirmedGeneration
  BY DEF LinkInv, ConfirmedInv
<1> QED
  BY <1>1, CoveredAgrees, EndLinked DEF LinkInv, ConfirmedInv, factVars, BasisInv,
     DocumentBefore

\* What the begin of an operation must see to.
Opened ==
  /\ op'.attempted = FALSE /\ op'.running \in BOOLEAN /\ op'.prev = document
  /\ op'.gen \in Nat /\ Closed(op'.next)
  /\ op'.step \in {"set", "commit", "build", "record", "call", "probe"}
  /\ op'.kind = "secret" => ~secret
  /\ op'.kind \in Changing =>
       /\ op'.running = (phase = "running") /\ op'.prior = confirmedSnapshot
       /\ phase \in {"stopped", "running"}
       /\ op'.step \in {"set", "commit", "build"}
       /\ op'.step = "build" => op'.kind = "mode" /\ phase = "running"
       /\ phase = "running" /\ op'.kind # "weight" => confirmedSnapshot # NoConfig
  /\ op'.kind = "host" => phase = "stopped"
  /\ op'.kind \in {"create", "group", "test", "stop"} \union Starting =>
       Covers(op'.next, document)
  /\ op'.kind = "test" => op'.id \in document.providers
  /\ op'.kind \in Starting /\ op'.step = "build" =>
       op'.id = document.active /\ op'.gen > confirmedGeneration
  /\ op'.kind = "capture" =>
       op'.next.settings = WithCapture(document.settings, op'.next.settings["capture"])
  /\ op'.kind \in Hot \union {"weight"} => op'.gen = confirmedGeneration
  /\ op'.kind \in {"mode", "capture"} /\ phase = "running" => op'.gen > confirmedGeneration
  /\ op'.kind = "mode" /\ phase = "running" => op'.step = "build"
  /\ op'.kind = "stop" => op'.gen = 0
  /\ op'.step = "call" => op'.kind = "stop"

LEMMA BeginsLinked ==
  ASSUME LinkInv, TransactionInv, Idle, recovery # "rejected",
         UNCHANGED <<storeVars, factVars, trusted, slotVars>>, Opened
  PROVE  LinkInv'
<1> USE DEF LinkInv
<1>1. op.step = "none" /\ op.kind = "none" /\ op.attempted = FALSE
  BY NoOpHas DEF Idle
<1>2. ~Taken /\ ~Tried /\ ~Taken' /\ ~Tried'
  BY <1>1 DEF Taken, Tried, Opened
<1>3. call.kind = "none" /\ call'.kind = "none" /\ ~OwnJob /\ ~OwnJob' /\ SlotShape'
  BY <1>1, SlotSame DEF CallInv, SlotShape
<1>4. ConfirmedInv'
  BY <1>2, SlotSame DEF ConfirmedInv, factVars
<1>5. AttemptInv'
  BY SlotSame DEF AttemptInv, Opened, Live, SlotShape
<1>6. GenerationInv'
  BY DEF GenerationInv, WithCandidate, factVars, Opened, Hot, Starting, Changing
<1>7. SecretBefore' = secret /\ SecretBefore = secret
  BY <1>1 DEF SecretBefore, Opened, storeVars, TransactionInv, ShapeInv
<1>8. DocumentBefore' = document /\ DocumentBefore = document
  BY <1>1 DEF DocumentBefore, Opened
<1>9. BasisInv'
  BY <1>2, <1>7, <1>8, SlotSame DEF BasisInv, factVars
<1>10. PriorInv'
  <2>1. op'.kind \in Changing /\ op'.running /\ trusted' =>
          Agrees(op'.prior, op'.prev, SecretBefore')
    <3> SUFFICES ASSUME op'.kind \in Changing, op'.running, trusted'
                 PROVE  Agrees(op'.prior, op'.prev, SecretBefore')
      OBVIOUS
    <3> QED BY <1>2, <1>7, <1>8 DEF BasisInv, Opened, Live
  <2> QED BY <2>1 DEF PriorInv, Opened
<1>11. CandidateInv'
  BY DEF CandidateInv, Changing, Hot, Starting, Opened
<1>12. DataInv'
  BY DEF DataInv, storeVars, Covers, Opened
<1> QED
  BY <1>3, <1>4, <1>5, <1>6, <1>9, <1>10, <1>11, <1>12 DEF CallInv, Answered, Opened

LEMMA StaysLinked ==
  ASSUME LinkInv, UNCHANGED <<document, secret, factVars, op, trusted, slotVars>>
  PROVE  LinkInv'
<1> USE DEF LinkInv
<1>1. CallInv'
  BY SlotSame DEF CallInv, Answered, Candidate, Want, factVars
<1>2. Taken' <=> Taken
  BY SlotSame DEF Taken, factVars
<1>3. BasisInv'
  BY <1>2, SlotSame DEF BasisInv, DocumentBefore, SecretBefore, factVars, Tried
<1>4. PriorInv' /\ CandidateInv' /\ DataInv'
  BY DEF PriorInv, SecretBefore, CandidateInv, DataInv, factVars
<1> QED
  BY <1>1, <1>2, <1>3, <1>4, SlotSame DEF GenerationInv, WithCandidate, AttemptInv, factVars,
     ConfirmedInv, Candidate, Want

\* Whatever the manager and the Worker do meanwhile.
LEMMA ManagerLinked ==
  ASSUME LinkInv, Manager \/ ManagerFails
  PROVE  LinkInv'
<1> USE DEF LinkInv
<1>1. /\ UNCHANGED <<document, secret, factVars, op, trusted>>
      /\ ~Answered
  BY DEF Manager, ManagerFails, Urgent, storeVars, endVars
<1>2. /\ UNCHANGED <<confirmedGeneration, confirmedSnapshot>>
      /\ Candidate' = Candidate /\ (Tried' <=> Tried)
      /\ SecretBefore' = SecretBefore /\ DocumentBefore' = DocumentBefore
  BY <1>1 DEF factVars, Candidate, Want, Tried, SecretBefore, DocumentBefore
<1>3. SlotShape' /\ (SlotStays \/ SlotConfirms)
  BY ManagerSteps
<1>4. GenerationInv' /\ PriorInv' /\ CandidateInv' /\ DataInv'
  BY <1>1, <1>2 DEF PriorInv, CandidateInv, GenerationInv, WithCandidate, DataInv
<1>5. CASE SlotStays
  <2>1. confirmed' = confirmed /\ (Serves => Serves') /\ (Live' => Live)
    BY <1>5 DEF SlotStays
  <2>2. CallInv'
    BY <1>1, <1>2, <2>1, <1>5 DEF CallInv, SlotStays, Answered, ConfirmedInv
  <2> QED
    BY <1>3, <1>4, <2>2, <1>1, <1>2, <1>5, <2>1 DEF ConfirmedInv, BasisInv, AttemptInv, Taken,
       SlotStays
<1>6. CASE SlotConfirms
  <2>1. /\ OwnJob /\ ~OwnJob' /\ confirmed' = Candidate /\ Serves' /\ phase' = "running"
        /\ call'.kind = "none"
        /\ reply'.ok /\ reply'.phase = "running" /\ reply'.gen = confirmed'.gen
        /\ op.step \in {"called", "undone"} /\ op.kind # "stop"
    BY <1>6 DEF SlotConfirms, CallInv
  <2>2. confirmed'.gen = op.gen /\ op.gen > confirmedGeneration
    BY <2>1 DEF Candidate, Want, GenerationInv, WithCandidate
  <2>3. Taken'
    BY <1>1, <1>2, <2>1, <2>2 DEF Taken
  <2>4. CallInv'
    BY <1>1, <1>2, <2>1, <2>2 DEF CallInv
  <2>5. ConfirmedInv'
    BY <1>1, <1>2, <2>1, <2>2, <2>3 DEF ConfirmedInv, GenerationInv
  <2>6. BasisInv'
    BY <2>3 DEF BasisInv
  <2> QED BY <1>3, <1>4, <2>4, <2>5, <1>1, <2>1, <2>6 DEF AttemptInv, Changing, Hot, Starting
<1> QED BY <1>3, <1>5, <1>6

------------------------
(* The begin of each operation, and what the Worker has *)

LEMMA RejectLinked ==
  ASSUME LinkInv, NEW kind, Reject(kind)
  PROVE  LinkInv'
  BY StaysLinked DEF Reject, storeVars

LEMMA BeginHas ==
  ASSUME NEW kind, NEW id, NEW step, NEW next, NEW gen, Begin(kind, id, step, next, gen)
  PROVE  /\ UNCHANGED <<storeVars, factVars, trusted, slotVars>>
         /\ op'.kind = kind /\ op'.id = id /\ op'.step = step /\ op'.prev = document
         /\ op'.next = next /\ op'.gen = gen /\ op'.attempted = FALSE
         /\ op'.running = (phase = "running") /\ op'.running \in BOOLEAN
         /\ op'.prior = confirmedSnapshot
  BY DEF Begin, NoOp, endVars

\* Edits that the Worker must follow if it runs.
LEMMA ChangingBegins ==
  ASSUME LinkInv, TransactionInv, Idle, recovery # "rejected",
         NEW kind \in {"rules", "secret", "delete", "weight", "mode", "capture"}, NEW id,
         NEW step, NEW next, NEW gen, Begin(kind, id, step, next, gen),
         Closed(next), phase \in {"stopped", "running"},
         kind = "secret" => ~secret,
         kind # "weight" /\ phase = "running" => confirmedSnapshot # NoConfig,
         kind = "capture" =>
           next.settings = WithCapture(document.settings, next.settings["capture"]),
         step = IF kind = "secret" THEN "set"
                ELSE IF kind = "mode" /\ phase = "running" THEN "build" ELSE "commit",
         gen = confirmedGeneration
               + IF kind \in {"mode", "capture"} /\ phase = "running" THEN 1 ELSE 0
  PROVE  LinkInv'
<1>1. /\ UNCHANGED <<storeVars, factVars, trusted, slotVars>>
      /\ op'.kind = kind /\ op'.step = step /\ op'.prev = document
      /\ op'.next = next /\ op'.gen = gen /\ op'.attempted = FALSE
      /\ op'.running = (phase = "running") /\ op'.running \in BOOLEAN
      /\ op'.prior = confirmedSnapshot
  BY DEF Begin, NoOp, endVars
<1>2. Opened
  BY <1>1 DEF Opened, LinkInv, ConfirmedInv, Starting, Hot
<1> QED BY <1>1, <1>2, BeginsLinked

\* Those that no snapshot follows, and the calls of the proxy itself.
LEMMA OtherBegins ==
  ASSUME LinkInv, TransactionInv, Idle, recovery # "rejected",
         NEW kind \in {"create", "group", "stop", "start", "restart"}, NEW id,
         NEW step \in {"set", "commit", "build", "record", "call"}, NEW next,
         NEW gen \in Nat, Begin(kind, id, step, next, gen),
         Closed(next), Covers(next, document),
         step = "build" => id = document.active /\ gen > confirmedGeneration,
         kind = "stop" => gen = 0,
         step = "call" => kind = "stop"
  PROVE  LinkInv'
<1> QED BY BeginHas, BeginsLinked DEF Opened, Changing, Hot

LEMMA ClosedNext ==
  ASSUME LinkInv, TransactionInv, NEW s \in Settings
  PROVE  /\ Closed(document) /\ Closed(Toggle(s))
         /\ document.settings = document.settings /\ Covers(document, document)
         /\ confirmedGeneration \in Nat
  BY Toggled DEF LinkInv, DataInv, Closed, Covers, TransactionInv, ShapeInv, ConfirmedInv

\* Edits of the registry that a snapshot follows, and the listen address.
LEMMA HotLinked ==
  ASSUME LinkInv, TransactionInv, Idle, recovery # "rejected",
         NEW kind \in {"rules", "secret", "delete"}, NEW id, NEW step, NEW next,
         step = IF kind = "secret" THEN "set" ELSE "commit",
         Closed(next), kind = "secret" => ~secret,
         BeginHot(kind, id, step, next)
  PROVE  LinkInv'
<1>1. CASE HotAllowed
  BY <1>1, ChangingBegins DEF HotAllowed, NothingToRestore, BeginHot, LinkInv, ConfirmedInv
<1>2. CASE ~HotAllowed
  BY <1>2, RejectLinked DEF BeginHot
<1> QED BY <1>1, <1>2

LEMMA HotEditLinked ==
  ASSUME LinkInv, TransactionInv, NEW next, Closed(next), HotEdit(next)
  PROVE  LinkInv'
<1> QED BY HotLinked DEF HotEdit, MayCall

LEMMA HotCallsLinked ==
  ASSUME LinkInv, TransactionInv,
         \/ UpdateRoutingRuleGroup \/ DeleteRoutingRuleGroup \/ UpdateModelMappingGroup
         \/ SetApiKeyAuthEnabled \/ SetActiveRoutingRuleGroup \/ SetProviderSupportedModels
         \/ UpdateProvider
         \/ \E id \in Providers : UpdateSecret(id) \/ DeleteProvider(id)
  PROVE  LinkInv'
<1>1. "rules" \in Settings
  BY DEF Settings
<1>2. Closed(document) /\ Closed(Toggle("rules"))
  BY <1>1, ClosedNext
<1>3. /\ document \in Document /\ Toggle("rules") \in Document
      /\ Toggle("rules").providers = document.providers
      /\ Toggle("rules").tested = document.tested
  BY <1>1, Toggled DEF TransactionInv, ShapeInv
<1>4. CASE UpdateProvider
  <2>1. PICK reset : HotEdit([Toggle("rules") EXCEPT !.tested = @ \ reset])
    BY <1>4 DEF UpdateProvider
  <2> QED BY <2>1, <1>2, <1>3, HotEditLinked DEF Closed, Document
<1>5. CASE \E id \in Providers : UpdateSecret(id)
  <2>1. PICK id \in Providers : UpdateSecret(id)
    BY <1>5
  <2> DEFINE next == [Toggle("rules") EXCEPT
                        !.tested = IF phase = "running" THEN @ ELSE @ \ {id}]
  <2> QED BY <2>1, <1>2, <1>3, HotLinked DEF UpdateSecret, MayCall, Closed, Document
<1>6. CASE \E id \in Providers : DeleteProvider(id)
  <2>1. PICK id \in Providers : DeleteProvider(id)
    BY <1>6
  <2>2. PICK fallback : BeginHot("delete", id, "commit",
                          [document EXCEPT !.providers = @ \ {id}, !.tested = @ \ {id},
                                           !.active = fallback])
    BY <2>1 DEF DeleteProvider
  <2> QED BY <2>2, <1>2, <1>3, <2>1, HotLinked DEF Closed, Document, DeleteProvider, MayCall
<1> QED
  BY <1>2, <1>4, <1>5, <1>6, HotEditLinked
  DEF UpdateRoutingRuleGroup, DeleteRoutingRuleGroup, UpdateModelMappingGroup,
      SetApiKeyAuthEnabled, SetActiveRoutingRuleGroup, SetProviderSupportedModels

LEMMA SettingsLinked ==
  ASSUME LinkInv, TransactionInv,
         SetProviderWeight \/ SetRoutingMode \/ SetCaptureEnabled
  PROVE  LinkInv'
<1>1. /\ "weight" \in Settings /\ "mode" \in Settings /\ "capture" \in Settings
  BY DEF Settings
<1>2. /\ Idle /\ recovery # "rejected" /\ confirmedGeneration \in Nat
      /\ confirmedGeneration + 0 = confirmedGeneration
  BY DEF SetProviderWeight, SetRoutingMode, SetCaptureEnabled, MayCall, LinkInv, ConfirmedInv
<1>3. CASE SetProviderWeight
  <2>1. CASE Reject("weight")
    BY <2>1, RejectLinked
  <2>2. CASE /\ phase \in {"stopped", "running"}
             /\ Begin("weight", NoProvider, "commit", Toggle("weight"), confirmedGeneration)
    BY <1>2, <2>2, <1>1, ClosedNext, ChangingBegins
  <2> QED BY <1>3, <2>1, <2>2 DEF SetProviderWeight
<1>4. CASE SetRoutingMode
  <2> DEFINE step == IF phase = "running" THEN "build" ELSE "commit"
             gen == confirmedGeneration + IF phase = "running" THEN 1 ELSE 0
  <2>1. CASE Reject("mode")
    BY <2>1, RejectLinked
  <2>2. CASE /\ phase \in {"stopped", "running"}
             /\ phase = "running" => confirmedSnapshot # NoConfig
             /\ Begin("mode", NoProvider, step, Toggle("mode"), gen)
    BY <1>2, <2>2, <1>1, ClosedNext, ChangingBegins
  <2> QED BY <1>4, <2>1, <2>2 DEF SetRoutingMode, NothingToRestore
<1>5. CASE SetCaptureEnabled
  <2> DEFINE on == ~document.settings["capture"]
             next == [document EXCEPT !.settings = WithCapture(@, on)]
             gen == confirmedGeneration + IF phase = "running" THEN 1 ELSE 0
  <2>1. CASE Reject("capture")
    BY <2>1, RejectLinked
  <2>2. CASE /\ phase \in {"stopped", "running"}
             /\ phase = "running" => confirmedSnapshot # NoConfig
             /\ Begin("capture", NoProvider, "commit", next, gen)
    <3>1. document \in Document /\ Closed(document)
      BY <1>1, ClosedNext DEF TransactionInv, ShapeInv
    <3>2. next.settings = WithCapture(document.settings, on) /\ Closed(next)
      BY <3>1 DEF Document, Closed
    <3> HIDE DEF next
    <3> QED BY <1>2, <2>2, <3>2, <1>1, <3>1, ChangingBegins DEF WithCapture, Document
  <2> QED BY <1>5, <2>1, <2>2 DEF SetCaptureEnabled, NothingToRestore
<1> QED BY <1>3, <1>4, <1>5

LEMMA HostLinked ==
  ASSUME LinkInv, TransactionInv, SetProxyHost
  PROVE  LinkInv'
<1>1. Idle /\ recovery # "rejected" /\ confirmedGeneration \in Nat /\ "host" \in Settings
  BY DEF SetProxyHost, MayCall, LinkInv, ConfirmedInv, Settings
<1>2. CASE Reject("host")
  BY <1>2, RejectLinked
<1>3. CASE /\ phase = "stopped"
           /\ Begin("host", NoProvider, "commit", Toggle("host"), confirmedGeneration)
  BY <1>1, <1>3, ClosedNext, BeginsLinked DEF Opened, Changing, Hot, Starting, Begin, NoOp,
     endVars
<1> QED BY <1>2, <1>3 DEF SetProxyHost

LEMMA TestLinked ==
  ASSUME LinkInv, TransactionInv, NEW id, NEW activateIfNone, TestProvider(id, activateIfNone)
  PROVE  LinkInv'
<1>1. CASE Reject("test")
  BY <1>1, RejectLinked
<1>2. CASE ~Reject("test")
  <2>1. /\ UNCHANGED <<storeVars, factVars, trusted, slotVars>>
        /\ Idle /\ recovery # "rejected" /\ id \in document.providers
        /\ op'.kind = "test" /\ op'.id = id /\ op'.step = "probe" /\ op'.prev = document
        /\ op'.next = document /\ op'.gen = 0 /\ op'.attempted = FALSE
        /\ op'.running \in BOOLEAN
    BY <1>2 DEF TestProvider, MayCall, NoOp, endVars
  <2>2. Opened
    BY <2>1 DEF Opened, Changing, Hot, Starting, LinkInv, DataInv, Covers
  <2> QED BY <2>1, <2>2, BeginsLinked
<1> QED BY <1>1, <1>2

LEMMA OtherCallsLinked ==
  ASSUME LinkInv, TransactionInv,
         GroupEdit \/ StopProxy \/ StartProxy("start") \/ StartProxy("restart")
         \/ \E id \in Providers : CreateProvider(id)
  PROVE  LinkInv'
<1>1. /\ Idle /\ recovery # "rejected"
      /\ Closed(document) /\ Covers(document, document)
      /\ confirmedGeneration \in Nat /\ confirmed.gen \in Nat
  BY DEF GroupEdit, StopProxy, StartProxy, CreateProvider, MayCall, LinkInv, DataInv, Covers,
         ConfirmedInv
<1>2. CASE GroupEdit
  BY <1>1, <1>2, OtherBegins DEF GroupEdit
<1>3. CASE StopProxy
  BY <1>1, <1>3, OtherBegins DEF StopProxy
<1>4. ASSUME NEW kind \in {"start", "restart"}, StartProxy(kind) PROVE LinkInv'
  <2> DEFINE gen == Max2(confirmedGeneration, confirmed.gen) + 1
  <2>1. gen \in Nat /\ gen > confirmedGeneration
    BY <1>1 DEF Max2
  <2> HIDE DEF gen
  <2>2. CASE Reject(kind)
    BY <2>2, RejectLinked
  <2>3. CASE Begin(kind, NoProvider, "record", document, confirmedGeneration)
    BY <1>1, <2>3, OtherBegins
  <2>4. CASE Begin(kind, document.active, "build", document, gen)
    BY <1>1, <2>1, <2>4, OtherBegins
  <2> QED BY <1>4, <2>2, <2>3, <2>4 DEF StartProxy, gen
<1>5. CASE \E id \in Providers : CreateProvider(id)
  <2>1. PICK id \in Providers : CreateProvider(id)
    BY <1>5
  <2> DEFINE next == [document EXCEPT !.providers = @ \union {id}]
  <2>2. Begin("create", id, "set", next, confirmedGeneration)
    BY <2>1 DEF CreateProvider
  <2>3. Closed(next) /\ Covers(next, document)
    BY <1>1 DEF TransactionInv, ShapeInv, Document, Closed, Covers
  <2> HIDE DEF next
  <2> QED BY <1>1, <2>2, <2>3, OtherBegins
<1> QED BY <1>2, <1>3, <1>4, <1>5

LEMMA CallsLinked ==
  ASSUME InStep, LinkInv, TransactionInv, Calls
  PROVE  LinkInv'
<1>1. CASE \/ UpdateRoutingRuleGroup \/ DeleteRoutingRuleGroup \/ UpdateModelMappingGroup
           \/ SetApiKeyAuthEnabled \/ SetActiveRoutingRuleGroup \/ SetProviderSupportedModels
           \/ UpdateProvider
           \/ \E id \in Providers : UpdateSecret(id) \/ DeleteProvider(id)
  BY <1>1, HotCallsLinked
<1>2. CASE SetProviderWeight \/ SetRoutingMode \/ SetCaptureEnabled \/ SetProxyHost
  BY <1>2, SettingsLinked, HostLinked
<1>3. CASE \/ CreateRoutingRuleGroup \/ CreateModelMappingGroup \/ DeleteModelMappingGroup
           \/ StopProxy \/ StartProxy("start") \/ StartProxy("restart")
           \/ \E id \in Providers : CreateProvider(id)
  BY <1>3, OtherCallsLinked
  DEF CreateRoutingRuleGroup, CreateModelMappingGroup, DeleteModelMappingGroup
<1>4. CASE \E id \in Providers, activateIfNone \in BOOLEAN : TestProvider(id, activateIfNone)
  BY <1>4, TestLinked
<1> QED BY <1>1, <1>2, <1>3, <1>4 DEF Calls, InStep, Activate, SetCaptureDetailsEnabled, MayCall

------------------------
(* Steps before the Worker is called *)

LEMMA KindIs ==
  ASSUME InStep, TransactionInv
  PROVE  /\ op.kind \notin {"activate", "details"}
         /\ op.kind = "mode" => ~Recording
         /\ op.step # "none" => op.kind \in OperationKinds
  BY OperationsAssumption DEF InStep, TransactionInv, ShapeInv, KindsInv

\* An operation that has not called the Worker.
LEMMA CalmIs ==
  ASSUME LinkInv, ~op.attempted
  PROVE  /\ ~Taken /\ ~Tried /\ call.kind = "none"
         /\ confirmed.gen <= confirmedGeneration
         /\ op.step \notin {"called", "undocall", "undone", "cleaned", "cleanup"}
  BY DEF LinkInv, AttemptInv, Taken, Tried, CallInv, ConfirmedInv

\* The same operation at another step.
Goes(step) ==
  /\ Same /\ op'.step = step /\ op'.attempted = op.attempted
  /\ op'.gen = op.gen /\ op'.cand = op.cand /\ UNCHANGED trusted

LEMMA GoGoes ==
  ASSUME NEW step, IsOp(op), Go(step)
  PROVE  Goes(step)
  BY DEF Go, IsOp, Goes, Same, endVars

LEMMA ProceedGoes ==
  ASSUME NEW step, NEW o, IsOp(o), Proceed(o, step),
         o.kind = op.kind, o.id = op.id, o.prev = op.prev, o.next = op.next,
         o.running = op.running, o.prior = op.prior,
         o.attempted = op.attempted, o.gen = op.gen, o.cand = op.cand
  PROVE  Goes(step) \/ (step = "record" /\ Finish("committed"))
<1>1. CASE EndsWarned(o, step)
  BY <1>1 DEF Proceed, EndsWarned
<1>2. CASE ~EndsWarned(o, step)
  <2>1. op' = [o EXCEPT !.step = step] /\ UNCHANGED trusted
    BY <1>2 DEF Proceed, endVars
  <2>2. /\ op'.kind = o.kind /\ op'.id = o.id /\ op'.prev = o.prev /\ op'.next = o.next
        /\ op'.running = o.running /\ op'.prior = o.prior /\ op'.step = step
        /\ op'.attempted = o.attempted /\ op'.gen = o.gen /\ op'.cand = o.cand
    BY <2>1 DEF IsOp
  <2> QED BY <2>1, <2>2 DEF Goes, Same
<1> QED BY <1>1, <1>2

LEMMA WarnedGoes ==
  ASSUME NEW step, NEW persisted, NEW warned, IsOp(op),
         Proceed([op EXCEPT !.persisted = persisted, !.warned = warned], step)
  PROVE  Goes(step) \/ (step = "record" /\ Finish("committed"))
<1>1. ASSUME NEW o, o = [op EXCEPT !.persisted = persisted, !.warned = warned]
      PROVE  /\ IsOp(o) /\ o.kind = op.kind /\ o.id = op.id /\ o.prev = op.prev
             /\ o.next = op.next /\ o.running = op.running /\ o.prior = op.prior
             /\ o.attempted = op.attempted /\ o.gen = op.gen /\ o.cand = op.cand
  BY <1>1 DEF IsOp
<1>2. PICK o : o = [op EXCEPT !.persisted = persisted, !.warned = warned]
  OBVIOUS
<1> QED BY <1>1, <1>2, ProceedGoes

LEMMA FinishHas ==
  ASSUME LinkInv, NEW result, Finish(result)
  PROVE  /\ op' = NoOp /\ outcome'.result = result /\ trusted' \in BOOLEAN
         /\ result = "degraded" => trusted' = FALSE
         /\ ~op.attempted \/ result = "failed" \/ op.kind \notin WholeDocument =>
              (trusted' => trusted)
  BY DEF Finish, LinkInv, AttemptInv

\* The end of an operation that calls no Worker, or did not need to.
LEMMA EndUnattempted ==
  ASSUME InStep, TransactionInv, LinkInv, op.step # "none", ~op.attempted,
         NEW result, Finish(result), UNCHANGED <<slotVars, factVars>>,
         op.kind \in Changing => ~op.running,
         Closed(document'),
         op.kind \in {"create", "group", "test", "stop"} \union Starting =>
           Covers(document', op.prev) /\ secret' = secret
  PROVE  LinkInv'
<1> QED
  BY KindIs, CalmIs, FinishHas, EndBasis DEF SecretBefore, Starting, OperationKinds, Settings,
     Changing, Hot, LinkInv, AttemptInv

\* The end of an operation that was rolled back, or could not be.
LEMMA EndUndone ==
  ASSUME TransactionInv, Kept, LinkInv, op.step # "none", op.kind \notin {"test", "details"},
         NEW broken \in BOOLEAN, Undone(broken), UNCHANGED <<slotVars, factVars>>,
         call.kind = "none", ~Taken, ~Tried,
         Closed(document'), op.kind # "secret" => secret' = secret
  PROVE  LinkInv'
<1>1. confirmed.gen <= confirmedGeneration
  BY DEF LinkInv, ConfirmedInv
<1>2. CASE broken
  BY <1>1, <1>2, FinishHas, EndDegraded DEF Undone
<1>3. CASE ~broken
  <2>1. secret' \in BOOLEAN
    BY DEF Kept, TransactionInv, ShapeInv
  <2> QED
    BY <1>3, <2>1, FinishHas, NoOpHas, EndBasis DEF Covers, SecretBefore, Kept, FailureUndoes,
       Ends, Idle, Undone
<1> QED BY <1>2, <1>3

LEMMA FailedIsUndone == ASSUME Finish("failed") PROVE Undone(FALSE)
  BY DEF Undone

LEMMA AfterCommitLinked ==
  ASSUME InStep, TransactionInv, LinkInv, op.step \in {"commit", "reset"},
         NEW doc, Goes(AfterCommit(doc)), UNCHANGED <<slotVars, factVars, secret>>,
         Closed(document'), op.kind # "secret" => document' = op.next
  PROVE  LinkInv'
<1> USE DEF LinkInv
<1>1. /\ ~op.attempted /\ op.step # "none"
      /\ op.kind \notin {"none", "test", "start", "restart", "stop", "activate", "details"}
  BY KindIs DEF AttemptInv, TransactionInv, KindsInv
<1>2. /\ op.kind \in Hot => \/ op'.step \in {"fallback", "build"} /\ op.running
                            \/ op'.step \in {"record", "forget"} /\ ~op.running
      /\ op.kind = "weight" => op'.step = IF op.running THEN "build" ELSE "record"
      /\ op.kind \in {"mode", "capture"} => op'.step = IF op.running THEN "call" ELSE "record"
      /\ op.kind \notin Changing => op'.step = "record"
  <2>1. op'.step = AfterCommit(doc) /\ (Hot \subseteq Changing) /\ op.running \in BOOLEAN
    BY DEF Goes, Changing, AttemptInv
  <2>2. CASE op.kind \in Hot
    <3>1. op'.step = AfterHot(doc)
      BY <2>1, <2>2 DEF AfterCommit, Hot
    <3>2. CASE op.running
      BY <2>1, <2>2, <3>2, <3>1 DEF Hot, AfterHot
    <3>3. CASE ~op.running
      BY <2>1, <2>2, <3>1, <3>3 DEF AfterHot, NeedsFallback, Hot
    <3> QED BY <3>2, <3>3
  <2>3. CASE op.kind \in {"weight", "mode", "capture"}
    BY <2>1, <2>3 DEF AfterCommit, AfterWeight, AfterMode, AfterCapture, Hot, Changing
  <2>4. CASE op.kind \notin Changing
    BY <1>1, <2>1, <2>4 DEF AfterCommit, Hot, Changing
  <2> QED BY <2>2, <2>3, <2>4 DEF Changing, Hot
<1>3. op.running \in BOOLEAN
  BY DEF AttemptInv
<1>4. op.kind \in Changing <=> op.kind \in Hot \union {"weight", "mode", "capture"}
  BY DEF Changing
<1>5. op'.step = "call" => op.kind \in {"mode", "capture"} /\ op.running
                           /\ op.step = "commit" /\ op.gen > confirmedGeneration
  BY <1>2, <1>3, <1>4 DEF GenerationInv, WithCandidate, TransactionInv, KindsInv
<1>6. GenerationInv'
  BY <1>1, <1>2, <1>3, <1>4, <1>5
  DEF GenerationInv, WithCandidate, Goes, Same, factVars, Starting
<1>7. /\ op'.step \in Unattempted
      /\ op.kind \in Changing /\ op.running => op'.step \notin {"forget", "record"}
      /\ op.kind \in Changing /\ op'.step \in {"build", "call", "fallback"} => op.running
      /\ op'.step # "commit"
      /\ op.kind \notin Starting \union {"test"}
      /\ op'.attempted = FALSE /\ Same /\ UNCHANGED <<slotVars, factVars, trusted, secret>>
  BY <1>1, <1>2, <1>3, <1>4 DEF Unattempted, Goes, Starting, AttemptInv
<1> QED BY <1>1, <1>6, <1>5, <1>7, MovesLinked DEF CandidateInv, Goes, DataInv, Starting

\* A move to a step that leads to no candidate.
LEMMA PlainMove ==
  ASSUME LinkInv, op.step # "none", ~op.attempted,
         NEW step \in Unattempted \ {"call", "build", "fallback"}, Goes(step),
         UNCHANGED <<slotVars, factVars>>, secret' = secret \/ op.kind = "secret",
         Closed(document'),
         op.kind \in Changing /\ op.running => step \notin {"forget", "record"},
         step \in {"set", "reset", "commit"} =>
           op.step \in {"set", "reset"} /\ op.kind \in {"secret", "create"},
         op.kind \in {"create", "group", "test", "stop"} \union Starting =>
           Covers(document', op.prev),
         op.kind = "test" => op.id \in document'.providers
  PROVE  LinkInv'
<1> QED
  BY MovesLinked DEF Goes, LinkInv, AttemptInv, GenerationInv, WithCandidate, Same, factVars,
     Hot, Unattempted

LEMMA UnattemptedAt ==
  ASSUME LinkInv,
         op.step \in {"probe", "set", "reset", "commit", "fallback", "build", "call", "select",
                      "selected", "clear", "unset", "unmark"}
  PROVE  ~op.attempted /\ op.step # "none"
  BY DEF LinkInv, AttemptInv

LEMMA SetCredentialLinked ==
  ASSUME InStep, TransactionInv, LinkInv, Kept, NEW c \in Commits, SetCredential(c)
  PROVE  LinkInv'
<1>1. /\ op.step = "set" /\ ~op.attempted /\ op.step # "none"
      /\ op.kind \in {"secret", "create"} /\ UNCHANGED <<document, slotVars, factVars>>
      /\ Closed(document')
  BY UnattemptedAt DEF SetCredential, TransactionInv, KindsInv, LinkInv, DataInv
<1>2. CASE c = "refused"
  BY <1>1, <1>2, CalmIs, EndUndone DEF SetCredential, Undone
<1>3. CASE c # "refused"
  <2>1. PICK step \in {"reset", "commit"} :
          op' = [op EXCEPT !.warned = (c = "warned"), !.step = step] /\ UNCHANGED endVars
    BY <1>3 DEF SetCredential
  <2>2. Goes(step)
    BY <2>1 DEF TransactionInv, ShapeInv, IsOp, Goes, Same, endVars
  <2> QED
    BY <1>1, <2>2, <1>3, PlainMove DEF Unattempted, Starting, LinkInv, DataInv, SetCredential
<1> QED BY <1>2, <1>3

LEMMA UnsetLinked ==
  ASSUME InStep, TransactionInv, LinkInv, op.step \in {"commit", "reset"},
         op.kind \in {"secret", "create"}, Go("unset"),
         UNCHANGED <<slotVars, factVars, secret>>, document' = document
  PROVE  LinkInv'
<1> QED
  BY UnattemptedAt, GoGoes, PlainMove DEF Unattempted, Starting, LinkInv, DataInv,
     TransactionInv, ShapeInv

\* A commit after which there is nothing left to do.
LEMMA CommitEndsLinked ==
  ASSUME InStep, TransactionInv, LinkInv, op.step \in {"commit", "reset"},
         NEW doc, AfterCommit(doc) = "record", Finish("committed"),
         UNCHANGED <<slotVars, factVars, secret>>,
         Closed(document'), op.kind # "secret" => document' = op.next
  PROVE  LinkInv'
<1>1. op.kind \in Changing => ~op.running
  <2>1. op.running \in BOOLEAN
    BY DEF LinkInv, AttemptInv
  <2>2. CASE op.kind \in Hot
    BY <2>1, <2>2 DEF AfterCommit, AfterHot, NeedsFallback, Hot
  <2>3. CASE op.kind \in {"weight", "mode", "capture"}
    BY <2>1, <2>3 DEF AfterCommit, AfterWeight, AfterMode, AfterCapture, Hot
  <2> QED BY <2>2, <2>3 DEF Changing
<1> QED
  BY <1>1, UnattemptedAt, KindIs, EndUnattempted DEF LinkInv, DataInv, Starting, TransactionInv,
     KindsInv

LEMMA ResetTestLinked ==
  ASSUME InStep, TransactionInv, LinkInv, NEW c \in Commits, ResetTest(c)
  PROVE  LinkInv'
<1> DEFINE doc == [document EXCEPT !.tested = @ \ {op.id}]
<1>1. /\ op.step = "reset" /\ ~op.attempted /\ op.step # "none" /\ op.kind = "secret"
      /\ UNCHANGED <<secret, slotVars, factVars>>
      /\ document' = IF c = "refused" THEN document ELSE doc
  BY UnattemptedAt DEF ResetTest, Persist, TransactionInv, KindsInv
<1>2. Closed(document')
  BY <1>1 DEF LinkInv, DataInv, Closed, TransactionInv, ShapeInv, Document
<1>3. CASE c = "done"
  BY <1>1, <1>2, <1>3, GoGoes, PlainMove DEF Unattempted, Starting, ResetTest, TransactionInv,
     ShapeInv
<1>4. CASE c = "warned"
  <2>1. Proceed([op EXCEPT !.persisted = TRUE, !.warned = TRUE], AfterCommit(doc))
    BY <1>4 DEF ResetTest
  <2> HIDE DEF doc
  <2> QED
    BY <1>1, <1>2, <2>1, WarnedGoes, AfterCommitLinked, CommitEndsLinked DEF TransactionInv,
       ShapeInv
<1>5. CASE c = "refused"
  BY <1>1, <1>5, UnsetLinked DEF ResetTest
<1> QED BY <1>3, <1>4, <1>5 DEF Commits

LEMMA CommitLinked ==
  ASSUME InStep, TransactionInv, LinkInv, Kept, NEW c \in Commits, Commit(c)
  PROVE  LinkInv'
<1>1. /\ op.step = "commit" /\ ~op.attempted /\ op.step # "none"
      /\ UNCHANGED <<secret, slotVars, factVars>>
      /\ document' = IF c = "refused" THEN document ELSE op.next
      /\ op.kind # "test"
  BY UnattemptedAt DEF Commit, Persist, TransactionInv, KindsInv
<1>2. Closed(document')
  BY <1>1 DEF LinkInv, DataInv
<1>3. CASE c = "refused" \/ NothingWritten(c)
  <2>1. CASE op.kind \in {"secret", "create"}
    BY <1>1, <2>1, <1>3, UnsetLinked DEF Commit, NothingWritten
  <2>2. CASE op.kind \notin {"secret", "create"}
    BY <1>1, <1>2, <1>3, <2>2, KindIs, CalmIs, EndUndone DEF Commit, Undone
  <2> QED BY <2>1, <2>2
<1>4. CASE ~(c = "refused" \/ NothingWritten(c))
  <2>1. PICK warned : Proceed([op EXCEPT !.persisted = TRUE, !.warned = warned],
                              AfterCommit(op.next))
    BY <1>4 DEF Commit
  <2> QED
    BY <1>1, <1>2, <1>4, <2>1, WarnedGoes, AfterCommitLinked, CommitEndsLinked DEF
       TransactionInv, ShapeInv
<1> QED BY <1>3, <1>4

LEMMA FallbackLinked ==
  ASSUME InStep, TransactionInv, LinkInv, NEW c \in Commits, Fallback(c)
  PROVE  LinkInv'
<1>1. /\ op.step = "fallback" /\ ~op.attempted /\ op.step # "none" /\ op.kind \in Hot
      /\ UNCHANGED <<secret, slotVars, factVars>> /\ op.running /\ op.gen = confirmedGeneration
      /\ op.kind \notin {"create", "group", "test", "stop", "mode", "weight", "capture"} \union Starting
  BY UnattemptedAt
  DEF Fallback, TransactionInv, KindsInv, LinkInv, AttemptInv, GenerationInv, Changing, Hot, Starting
<1>2. Closed(document')
  BY DEF LinkInv, DataInv, Closed, TransactionInv, ShapeInv, Document, Fallback, Persist
<1>3. CASE Go("undo")
  BY <1>1, <1>2, <1>3, GoGoes, PlainMove DEF Unattempted, TransactionInv, ShapeInv
<1>4. CASE ~Go("undo")
  <2>1. PICK warned : op' = [op EXCEPT !.step = "build", !.warned = warned] /\ UNCHANGED endVars
    BY <1>4 DEF Fallback
  <2>2. Goes("build")
    BY <2>1 DEF TransactionInv, ShapeInv, IsOp, Goes, Same, endVars
  <2> QED
    BY <1>1, <1>2, <2>2, MovesLinked DEF Unattempted, Goes, LinkInv, AttemptInv, GenerationInv,
       WithCandidate, Same, factVars
<1> QED BY <1>3, <1>4

\* A snapshot agrees with the document it is built from.
LEMMA ConfigAgrees ==
  ASSUME NEW doc \in Document, Closed(doc), secret \in BOOLEAN,
         NEW pool \in SUBSET doc.tested
  PROVE  Agrees(Config(doc, doc.active, pool), doc, secret)
<1>1. /\ pool \subseteq Providers /\ pool \subseteq doc.providers
      /\ doc.settings \in [Settings -> BOOLEAN]
  BY DEF Document, Closed
<1>2. PICK cfg : cfg = Config(doc, doc.active, pool)
  OBVIOUS
<1>3. cfg \in Configurations
  BY <1>1, <1>2 DEF Config, Configurations
<1> QED BY <1>1, <1>2, <1>3 DEF Agrees, Config

LEMMA BuildFailsLinked ==
  ASSUME InStep, TransactionInv, LinkInv, Kept, BuildFails
  PROVE  LinkInv'
<1>1. /\ op.step = "build" /\ ~op.attempted /\ op.step # "none" /\ op.kind # "test"
      /\ UNCHANGED <<secret, document, slotVars, factVars>>
      /\ Closed(document')
  BY UnattemptedAt DEF BuildFails, TransactionInv, KindsInv, LinkInv, DataInv, storeVars, Hot
<1>2. CASE op.persisted
  BY <1>1, <1>2, GoGoes, PlainMove DEF LinkInv, DataInv, Unattempted, BuildFails,
     TransactionInv, ShapeInv
<1>3. CASE ~op.persisted
  BY <1>1, <1>3, KindIs, CalmIs, EndUndone DEF BuildFails, Undone
<1> QED BY <1>2, <1>3

LEMMA BuildLinked ==
  ASSUME InStep, TransactionInv, LinkInv, Build
  PROVE  LinkInv'
<1> USE DEF LinkInv
<1>1. /\ op.step = "build" /\ ~op.attempted /\ op.step # "none"
      /\ UNCHANGED <<secret, document, slotVars, factVars, trusted>>
      /\ document \in Document /\ op.next \in Document /\ secret \in BOOLEAN
      /\ Closed(document) /\ Closed(op.next)
  BY UnattemptedAt DEF Build, TransactionInv, ShapeInv, DataInv, storeVars, endVars
<1>2. /\ op.kind \in Hot \union {"weight", "capture", "mode"} \union Starting
      /\ op.kind \in Hot \union {"weight", "capture"} <=> op.persisted
      /\ op.kind \in Hot \union {"weight", "capture", "mode"} => op.running
  BY <1>1, KindIs DEF TransactionInv, KindsInv, Hot, Starting, AttemptInv, Changing
<1> DEFINE doc == IF op.persisted THEN document ELSE op.next
           step == IF op.kind = "mode" THEN "commit" ELSE "call"
           gen == IF op.kind \in Hot \union {"weight"} THEN op.gen + 1 ELSE op.gen
<1>3. PICK pool \in SUBSET Servable :
        op' = [op EXCEPT !.cand = Config(doc, Preferred, pool), !.gen = gen, !.step = step]
  BY <1>2 DEF Build, Hot, Starting
<1>4. /\ Same /\ op'.step = step /\ op'.gen = gen /\ op'.attempted = FALSE
      /\ op'.cand = Config(doc, Preferred, pool)
  <2> HIDE DEF doc, step, gen
  <2> QED BY <1>3, <1>1 DEF IsOp, Same, AttemptInv, TransactionInv, ShapeInv
<1>5. Preferred = doc.active /\ doc.tested = document.tested /\ doc \in Document /\ Closed(doc)
      /\ (op.kind # "mode" => doc = document)
  <2>1. CASE op.persisted
    BY <1>1, <1>2, <2>1 DEF Preferred, Gated, Hot, Starting
  <2>2. CASE ~op.persisted
    <3>1. op.kind \in {"mode", "start", "restart"} /\ document = op.prev
      BY <1>1, <1>2, <2>2 DEF Starting, Hot, TransactionInv, DocumentInv
    <3>2. CASE op.kind = "mode"
      BY <1>1, <2>2, <3>2, <3>1 DEF Preferred, Gated, TransactionInv, DocumentInv, Asked
    <3>3. CASE op.kind \in Starting
      BY <1>1, <2>2, <3>3, <3>1 DEF Preferred, Gated, Starting, TransactionInv, DocumentInv,
         Asked, DataInv
    <3> QED BY <3>1, <3>2, <3>3 DEF Starting
  <2> QED BY <2>1, <2>2
<1>6. Agrees(op'.cand, doc, secret)
  <2> HIDE DEF doc
  <2> QED BY <1>1, <1>4, <1>5, ConfigAgrees DEF Servable
<1>7. GenerationInv' /\ (step = "call" => gen > confirmedGeneration)
  BY <1>1, <1>4, <1>2 DEF GenerationInv, WithCandidate, Same, factVars, Hot, Starting
<1>8. op'.step = "call" => /\ op.kind # "capture" => Agrees(op'.cand, document', secret')
                           /\ op.prior # NoConfig \/ op.kind # "weight"
  BY <1>1, <1>4, <1>5, <1>6 DEF Build, MayBuild
<1> QED
  BY <1>1, <1>4, <1>7, <1>8, <1>2, <1>6, MovesLinked DEF Unattempted, Changing, Hot, Starting,
     DataInv

------------------------
(* Steps after the Worker was called *)

\* The candidate was taken, and the operation goes on to its end.
LEMMA TakenMove ==
  ASSUME LinkInv, op.attempted, call.kind = "none", op.kind # "stop",
         NEW step \in {"forget", "record"}, Goes(step), UNCHANGED <<slotVars, document, secret>>,
         confirmed = Candidate, Serves, confirmedGeneration' \in Nat,
         confirmed.gen > confirmedGeneration' => op.kind = "mode" /\ step = "record",
         trusted \/ op.kind # "capture" => Agrees(op.cand, document, secret),
         op.kind # "mode" => confirmedSnapshot' = op.cand
  PROVE  LinkInv'
<1> USE DEF LinkInv
<1>1. /\ op'.step = step /\ op'.attempted /\ op'.kind # "stop" /\ Same
      /\ op'.gen = op.gen /\ op'.cand = op.cand
  BY DEF Goes, Same
<1>2. Taken' /\ confirmed' = confirmed /\ confirmed' = Candidate'
  BY <1>1, SlotSame DEF Taken, Candidate
<1>3. call'.kind = "none" /\ ~OwnJob' /\ SlotShape' /\ (Serves' <=> Serves) /\ (Live' <=> Live)
  BY SlotSame DEF SlotShape
<1>4. CallInv'
  BY <1>1, <1>3 DEF CallInv, Answered
<1>5. GenerationInv'
  BY <1>1 DEF GenerationInv, WithCandidate, Same
<1>6. AttemptInv'
  BY <1>1, <1>3 DEF AttemptInv, Goes, Same
<1>7. PriorInv'
  BY <1>1 DEF PriorInv, SecretBefore, Goes, Same
<1>8. CandidateInv'
  BY <1>1 DEF CandidateInv, Goes, Same
<1> QED
  BY <1>3, <1>4, <1>1, <1>2, <1>5, <1>6, <1>7, <1>8 DEF ConfirmedInv, Same, DataInv, BasisInv

\* It was not, and the operation is undone, or was a stop.
LEMMA UndoMove ==
  ASSUME LinkInv, op.attempted, op.step # "none", call.kind = "none",
         NEW step \in {"undo", "restore", "undocall", "cleanup", "record"}, Goes(step),
         UNCHANGED <<slotVars, factVars>>, confirmed.gen <= confirmedGeneration,
         Closed(document'), secret' = secret \/ op.kind = "secret",
         op.kind \in Changing => step \notin {"cleanup", "record"},
         op.kind \in Starting => step = "cleanup",
         op.kind = "stop" => step = "record",
         op.kind \in Starting \union {"stop"} =>
           /\ document' = document
           /\ trusted => /\ Serves
                         /\ Live => /\ Agrees(confirmed.cfg, op.prev, secret)
                                    /\ confirmedSnapshot = confirmed.cfg
  PROVE  LinkInv'
<1> USE DEF LinkInv
<1>1. /\ op'.step = step /\ op'.attempted /\ Same
      /\ op'.gen = op.gen /\ op'.cand = op.cand /\ trusted' = trusted
  BY DEF Goes
<1>2. op.kind \in Changing \union Starting \union {"stop"}
  BY DEF AttemptInv
<1>3. call'.kind = "none" /\ ~OwnJob' /\ SlotShape' /\ (Serves' <=> Serves) /\ (Live' <=> Live)
  BY SlotSame DEF SlotShape
<1>4. CallInv'
  BY <1>1, <1>3 DEF CallInv, Answered
<1>5. ConfirmedInv'
  BY <1>1, <1>2, SlotSame DEF ConfirmedInv, factVars, Taken, Same
<1>6. GenerationInv'
  BY <1>1 DEF GenerationInv, WithCandidate, Same
<1>7. BasisInv'
  <2>1. CASE op.kind \in Changing
    BY <1>1, <2>1 DEF BasisInv, Tried, Same
  <2>2. CASE op.kind \in Starting \union {"stop"}
    BY <1>1, <1>3, <2>2, SlotSame DEF BasisInv, DocumentBefore, SecretBefore, Same, Starting,
       factVars
  <2> QED BY <1>2, <2>1, <2>2
<1>8. PriorInv'
  BY <1>1 DEF PriorInv, Same, SecretBefore
<1>9. CandidateInv'
  BY <1>1, <1>2 DEF CandidateInv, Same, Changing
<1>10. DataInv'
  BY <1>1, <1>2 DEF DataInv, Same, Changing, Starting, Hot
<1> QED BY <1>3, <1>4, <1>5, <1>6, <1>1, <1>2, <1>7, <1>8, <1>9, <1>10 DEF AttemptInv, Same

\* The end of an operation whose candidate was taken.
LEMMA TakenEnd ==
  ASSUME LinkInv, op.attempted, call.kind = "none", NEW result, Finish(result),
         UNCHANGED <<slotVars, document, secret>>, confirmed = Candidate, Serves,
         confirmedGeneration' \in Nat, confirmed.gen <= confirmedGeneration',
         confirmedSnapshot' = op.cand,
         trusted \/ op.kind # "capture" => Agrees(op.cand, document, secret)
  PROVE  LinkInv'
<1> QED
  BY FinishHas, EndLinked DEF LinkInv, Candidate, Want, ConfirmedInv, WholeDocument, Hot,
     DataInv

LEMMA AttemptedNow ==
  ASSUME LinkInv, op.step \in {"called", "undocall", "undone", "cleaned", "cleanup"}
  PROVE  op.attempted /\ op.step # "none"
  BY DEF LinkInv, AttemptInv

\* What an answered call says of the candidate.
LEMMA ConfirmedIs ==
  ASSUME LinkInv, Answered, op.step \in {"called", "undone"}, op.kind # "stop"
  PROVE  /\ call.kind = "none" /\ op.attempted /\ op.step # "none"
         /\ IsConfirmed(op.gen) =>
              /\ confirmed = Candidate /\ Serves
              /\ confirmed.gen = op.gen /\ op.gen \in Nat /\ op.gen > confirmedGeneration
         /\ ~IsConfirmed(op.gen) => confirmed.gen <= confirmedGeneration
<1> USE DEF LinkInv
<1>1. ASSUME confirmed.gen > confirmedGeneration
      PROVE  confirmed = Candidate /\ Serves /\ confirmed.gen = op.gen /\ IsConfirmed(op.gen)
  BY <1>1 DEF IsConfirmed, CallInv, Candidate, Want, ConfirmedInv, Taken
<1> QED
  BY <1>1, AttemptedNow DEF Answered, ConfirmedInv, GenerationInv, WithCandidate, IsConfirmed,
     CallInv

LEMMA WorkerConfirmsLinked ==
  ASSUME InStep, TransactionInv, LinkInv, WorkerConfirms
  PROVE  LinkInv'
<1> DEFINE step == IF op.kind = "delete" THEN "forget" ELSE "record"
<1>1. /\ Answered /\ op.step = "called" /\ op.kind \notin {"stop", "mode"} /\ IsConfirmed(op.gen)
      /\ Proceed(op, step) /\ confirmedGeneration' = op.gen /\ confirmedSnapshot' = op.cand
      /\ UNCHANGED <<document, secret, slotVars>> /\ IsOp(op)
  BY DEF WorkerConfirms, Confirm, storeVars, TransactionInv, ShapeInv
<1>2. /\ call.kind = "none" /\ op.attempted /\ confirmed = Candidate /\ Serves
      /\ confirmed.gen = op.gen /\ op.gen \in Nat
  BY <1>1, ConfirmedIs
<1>3. trusted \/ op.kind # "capture" => Agrees(op.cand, document, secret)
  <2>1. CASE op.kind = "capture"
    BY <1>1, <2>1 DEF LinkInv, CandidateInv
  <2>2. CASE op.kind # "capture"
    BY <1>1, <2>2, KindIs DEF LinkInv, CandidateInv, TransactionInv, KindsInv, Starting
  <2> QED BY <2>1, <2>2
<1>4. step \in {"forget", "record"}
  OBVIOUS
<1> HIDE DEF step
<1>5. CASE Goes(step)
  BY <1>1, <1>2, <1>3, <1>4, <1>5, TakenMove
<1>6. CASE Finish("committed")
  BY <1>1, <1>2, <1>3, <1>6, TakenEnd
<1> QED BY <1>1, <1>5, <1>6, ProceedGoes

LEMMA ModeConfirmedLinked ==
  ASSUME InStep, TransactionInv, LinkInv, ModeConfirmed
  PROVE  LinkInv'
<1>1. /\ Answered /\ op.step = "called" /\ op.kind = "mode" /\ IsConfirmed(op.gen)
      /\ Go("record") /\ UNCHANGED <<document, secret, factVars, slotVars>> /\ IsOp(op)
  BY DEF ModeConfirmed, Proceed, EndsWarned, Go, storeVars, TransactionInv, ShapeInv
<1> QED
  BY <1>1, ConfirmedIs, GoGoes, TakenMove DEF LinkInv, CandidateInv, ConfirmedInv, factVars

\* What is confirmed stands as before a start or a stop that took nothing.
LEMMA BasisIs ==
  ASSUME LinkInv, op.step # "none", op.kind \in Starting \union {"stop"}, ~Taken
  PROVE  trusted => /\ Serves
                    /\ Live => /\ Agrees(confirmed.cfg, op.prev, secret)
                               /\ confirmedSnapshot = confirmed.cfg
<1> QED BY DEF LinkInv, BasisInv, DocumentBefore, SecretBefore, Starting, Tried, Changing, Hot

LEMMA WorkerRefusesLinked ==
  ASSUME InStep, TransactionInv, LinkInv, WorkerRefuses
  PROVE  LinkInv'
<1> DEFINE step == IF op.kind \in {"start", "restart"} THEN "cleanup" ELSE "undo"
<1>1. /\ Answered /\ op.step = "called" /\ op.kind # "stop" /\ ~IsConfirmed(op.gen)
      /\ Go(step) /\ UNCHANGED <<document, secret, factVars, slotVars>> /\ IsOp(op)
  BY DEF WorkerRefuses, storeVars, TransactionInv, ShapeInv
<1>2. /\ step \in {"undo", "cleanup"} /\ (op.kind \in Starting <=> step = "cleanup")
      /\ op.kind \in Changing => op.kind \notin Starting
  BY DEF Starting, Changing, Hot
<1> HIDE DEF step
<1> QED
  BY <1>1, <1>2, GoGoes, ConfirmedIs, BasisIs, UndoMove DEF LinkInv, DataInv, Taken,
     ConfirmedInv

LEMMA WorkerStoppedLinked ==
  ASSUME InStep, TransactionInv, LinkInv, Kept, WorkerStopped
  PROVE  LinkInv'
<1>1. /\ Answered /\ op.step = "called" /\ op.kind = "stop"
      /\ UNCHANGED <<document, secret, factVars, slotVars>> /\ IsOp(op)
  BY DEF WorkerStopped, storeVars, TransactionInv, ShapeInv
<1>2. call.kind = "none" /\ op.attempted /\ op.step # "none"
  BY <1>1, AttemptedNow DEF Answered
<1>3. confirmed.gen <= confirmedGeneration
  <2>1. ASSUME confirmed.gen > confirmedGeneration PROVE FALSE
    BY <2>1, <1>1 DEF LinkInv, ConfirmedInv, Candidate, Want, GenerationInv
  <2> QED BY <2>1 DEF LinkInv, ConfirmedInv
<1>4. ~Taken /\ ~Tried
  BY <1>1, <1>3 DEF Taken, Tried, Changing, Hot, LinkInv, ConfirmedInv
<1>5. Closed(document')
  BY <1>1 DEF LinkInv, DataInv
<1>6. CASE Go("record")
  BY <1>1, <1>2, <1>3, <1>4, <1>5, <1>6, GoGoes, BasisIs, UndoMove DEF Changing, Hot, Starting
<1>7. CASE Finish("failed")
  BY <1>1, <1>2, <1>4, <1>5, <1>7, FailedIsUndone, EndUndone
<1> QED BY <1>6, <1>7 DEF WorkerStopped

\* Where a candidate that was taken stands while its operation is recorded.
LEMMA RecordingIs ==
  ASSUME LinkInv, op.attempted, op.step \in {"forget", "record"}
  PROVE  /\ call.kind = "none" /\ ~Tried
         /\ op.kind # "stop" =>
              /\ confirmed = Candidate /\ Serves
              /\ trusted \/ op.kind # "capture" => Agrees(op.cand, document, secret)
              /\ op.kind # "mode" => /\ confirmedSnapshot = op.cand
                                     /\ confirmed.gen <= confirmedGeneration
         /\ op.kind = "stop" => ~Taken
         /\ confirmedGeneration \in Nat /\ confirmed.gen \in Nat
<1> USE DEF LinkInv
<1> QED BY DEF CandidateInv, Tried, ConfirmedInv, CallInv, Taken

\* An operation that is being recorded ends as it should.
LEMMA RecordedEnds ==
  ASSUME InStep, TransactionInv, LinkInv, op.step \in {"forget", "record"}, op.kind # "mode",
         NEW result, Finish(result), UNCHANGED <<document, secret, factVars, slotVars>>
  PROVE  LinkInv'
<1>1. op.step # "none" /\ Closed(document') /\ op.attempted \in BOOLEAN
  BY DEF LinkInv, DataInv, AttemptInv
<1>2. CASE ~op.attempted
  BY <1>1, <1>2, EndUnattempted DEF LinkInv, DataInv, AttemptInv
<1>3. CASE op.attempted /\ op.kind = "stop"
  BY <1>1, <1>3, FinishHas, RecordingIs, EndBasis DEF WholeDocument, Hot, LinkInv, DataInv,
     SecretBefore
<1>4. CASE op.attempted /\ op.kind # "stop"
  BY <1>4, RecordingIs, TakenEnd DEF factVars
<1> QED BY <1>1, <1>2, <1>3, <1>4

LEMMA RecordedLinked ==
  ASSUME InStep, TransactionInv, LinkInv, Recorded
  PROVE  LinkInv'
<1>1. /\ op.step = "record" /\ op.kind # "mode" /\ IsOp(op)
      /\ UNCHANGED <<document, secret, factVars, slotVars>>
  BY DEF Recorded, storeVars, TransactionInv, ShapeInv
<1>2. CASE op.kind = "test" /\ op.warned
  BY <1>1, <1>2, GoGoes, PlainMove DEF LinkInv, DataInv, Unattempted, Changing, Hot, Recorded,
     AttemptInv, Starting
<1>3. CASE ~(op.kind = "test" /\ op.warned)
  BY <1>1, <1>3, RecordedEnds DEF Recorded
<1> QED BY <1>2, <1>3

LEMMA ModeRecordedLinked ==
  ASSUME InStep, TransactionInv, LinkInv, ModeRecorded
  PROVE  LinkInv'
<1>1. /\ op.step = "record" /\ op.kind = "mode"
      /\ UNCHANGED <<document, secret, slotVars>>
  BY DEF ModeRecorded, storeVars
<1>2. PICK result : Finish(result)
  BY DEF ModeRecorded
<1>3. CASE op.attempted
  BY <1>1, <1>2, <1>3, RecordingIs, TakenEnd DEF Candidate, Want, ModeRecorded, Confirm
<1>4. CASE ~op.attempted
  BY <1>1, <1>2, <1>4, EndUnattempted DEF Starting, ModeRecorded, LinkInv, DataInv, AttemptInv,
     Changing
<1> QED BY <1>3, <1>4

LEMMA ForgetCredentialLinked ==
  ASSUME InStep, TransactionInv, LinkInv, NEW done \in BOOLEAN, ForgetCredential(done)
  PROVE  LinkInv'
<1>1. /\ op.step = "forget" /\ op.kind = "delete" /\ IsOp(op)
      /\ UNCHANGED <<document, secret, factVars, slotVars>>
  BY DEF ForgetCredential, TransactionInv, ShapeInv, KindsInv
<1>2. Goes("record") \/ Finish("committed")
  <2>1. PICK warned : Proceed([op EXCEPT !.warned = warned], "record")
    BY DEF ForgetCredential
  <2>2. ASSUME NEW o, o = [op EXCEPT !.warned = warned]
        PROVE  /\ IsOp(o) /\ o.kind = op.kind /\ o.id = op.id /\ o.prev = op.prev
               /\ o.next = op.next /\ o.running = op.running /\ o.prior = op.prior
               /\ o.attempted = op.attempted /\ o.gen = op.gen /\ o.cand = op.cand
    BY <1>1, <2>2 DEF IsOp
  <2>3. PICK o : o = [op EXCEPT !.warned = warned]
    OBVIOUS
  <2> QED BY <2>2, <2>3, <2>1, ProceedGoes
<1>3. CASE Finish("committed")
  BY <1>1, <1>3, RecordedEnds
<1>4. CASE Goes("record") /\ op.attempted
  BY <1>1, <1>4, RecordingIs, TakenMove DEF factVars
<1>5. CASE Goes("record") /\ ~op.attempted
  BY <1>1, <1>5, PlainMove DEF Starting, LinkInv, AttemptInv, DataInv, Changing, Hot,
     Unattempted
<1> QED BY <1>2, <1>3, <1>4, <1>5

LEMMA RecordFailsLinked ==
  ASSUME InStep, TransactionInv, LinkInv, RecordFails
  PROVE  LinkInv'
<1>1. /\ op.step = "record" /\ op.kind \notin {"activate", "mode", "details"} /\ IsOp(op)
      /\ UNCHANGED <<document, secret, factVars, slotVars>> /\ Closed(document')
      /\ op.attempted \in BOOLEAN
  BY KindIs DEF RecordFails, storeVars, TransactionInv, ShapeInv, LinkInv, DataInv, AttemptInv
<1>2. CASE op.kind \in {"weight", "capture"}
  <2>1. Goes("undo")
    BY <1>1, <1>2, GoGoes DEF RecordFails
  <2>2. op.kind \in Changing /\ op.kind \notin Starting \union {"stop"}
    BY <1>2 DEF Changing, Starting
  <2>3. CASE op.attempted
    BY <1>1, <2>1, <2>2, <2>3, <1>2, RecordingIs, UndoMove
  <2>4. CASE ~op.attempted
    BY <1>1, <1>2, <2>1, <2>2, <2>4, PlainMove DEF Unattempted
  <2> QED BY <1>1, <2>3, <2>4
<1>3. CASE op.kind \in Starting /\ op.attempted
  <2>1. Goes("cleanup") /\ op.kind \notin Changing \union {"stop", "capture"}
    BY <1>1, <1>3, GoGoes DEF RecordFails, Starting, Changing, Hot
  <2> QED
    BY <1>1, <1>3, <2>1, RecordingIs, UndoMove DEF TransactionInv, DocumentInv, KindsInv,
       Starting, Candidate, Want
<1>4. CASE op.kind \notin {"weight", "capture"} /\ ~(op.kind \in Starting /\ op.attempted)
  <2>1. PICK result : Finish(result)
    BY <1>1, <1>4 DEF RecordFails, Starting
  <2> QED BY <1>1, <2>1, RecordedEnds
<1> QED BY <1>2, <1>3, <1>4

\* The Worker is called, and may confirm the candidate from now on.
LEMMA CallsWorkerLinked ==
  ASSUME LinkInv, op.step = "call", Same, op'.gen = op.gen, op'.step = "called",
         op'.attempted = TRUE, UNCHANGED <<document, secret, factVars, trusted>>,
         op.kind \in Changing \union Starting \union {"stop"},
         SlotShape', confirmed' = confirmed, Live' => Live,
         OwnJob' => job'.snap = Candidate' /\ op.kind # "stop",
         call'.kind = "none" => reply'.gen = confirmed'.gen /\ reply'.phase = phase',
         op.kind \notin Changing => (Serves => Serves') /\ op'.cand = op.cand,
         op.kind # "capture" => op'.cand = op.cand,
         op.kind = "capture" /\ trusted => Agrees(op'.cand, document, secret)
  PROVE  LinkInv'
<1> USE DEF LinkInv
<1>1. /\ ~op.attempted /\ ~Taken /\ ~Tried /\ confirmed.gen <= confirmedGeneration
      /\ confirmed.gen \in Nat /\ confirmedGeneration \in Nat
  BY UnattemptedAt, CalmIs DEF ConfirmedInv
<1>2. ~Taken' /\ op'.kind = op.kind
  BY <1>1 DEF Taken, factVars, Same
<1>3. CallInv'
  BY <1>1, <1>2 DEF CallInv, Answered, factVars
<1>4. ConfirmedInv'
  BY <1>1, <1>2 DEF ConfirmedInv, factVars
<1>5. GenerationInv'
  BY DEF GenerationInv, WithCandidate, Same, factVars
<1>6. SecretBefore' = SecretBefore /\ DocumentBefore' = op.prev /\ DocumentBefore = op.prev
  BY DEF SecretBefore, DocumentBefore, Same
<1>7. BasisInv'
  <2>1. CASE op.kind \in Changing
    BY <2>1 DEF BasisInv, Tried, Same
  <2>2. CASE op.kind \notin Changing
    BY <1>1, <1>6, <2>2 DEF BasisInv, factVars
  <2> QED BY <2>1, <2>2
<1> QED
  BY <1>3, <1>4, <1>5, <1>7, <1>6 DEF CandidateInv, Same, Hot, Starting, AttemptInv, DataInv,
     PriorInv

\* The candidate of Capture is what was confirmed, with Capture on or off.
LEMMA CaptureAgrees ==
  ASSUME TransactionInv, LinkInv, op.step = "call", op.kind = "capture", trusted,
         NEW cfg,
         cfg = [op.prior EXCEPT !.settings = WithCapture(@, op.next.settings["capture"])]
  PROVE  Agrees(cfg, document, secret)
<1>1. document = op.next /\ op.next.providers = op.prev.providers
      /\ op.next.active = op.prev.active /\ document \in Document
  BY DEF TransactionInv, ShapeInv, KindsInv, DocumentInv, Applied, Asked, Hot
<1> QED
  BY <1>1 DEF Agrees, Configurations, Document, LinkInv, DataInv, AttemptInv, PriorInv,
     SecretBefore, Changing

LEMMA CallWorkerLinked ==
  ASSUME InStep, TransactionInv, LinkInv, CallWorker
  PROVE  LinkInv'
<1> DEFINE cfg == IF op.kind = "capture"
                  THEN [op.prior EXCEPT !.settings = WithCapture(@, op.next.settings["capture"])]
                  ELSE op.cand
           want == Want(op.gen, cfg)
<1>1. /\ op.step = "call" /\ UNCHANGED <<document, secret, factVars, trusted>>
      /\ op' = [op EXCEPT !.cand = cfg, !.attempted = TRUE, !.step = "called"]
      /\ op.kind \in Changing \union Starting \union {"stop"}
      /\ SlotShape /\ op.kind # "activate"
  BY KindIs
  DEF CallWorker, storeVars, endVars, TransactionInv, KindsInv, Changing, Starting, LinkInv
<1>2. CASE op.kind = "stop"
  <2>1. /\ Same /\ op'.gen = op.gen /\ op'.step = "called" /\ op'.attempted = TRUE
        /\ op'.cand = op.cand
    <3> HIDE DEF cfg
    <3> QED BY <1>1, <1>2 DEF Same, TransactionInv, ShapeInv, IsOp, cfg
  <2> QED BY <1>1, <1>2, <2>1, StopCalls, CallsWorkerLinked DEF CallWorker
<1>3. CASE op.kind # "stop"
  <2>1. /\ SlotShape' /\ SlotCalled(want)
        /\ op.kind \notin Changing => (Serves => Serves')
    <3>1. CASE op.kind \in Starting
      <4>1. Slot!Start(want) \/ Slot!Restart(want)
        BY <1>3, <3>1 DEF CallWorker, Starting
      <4> HIDE DEF want
      <4> QED BY <1>1, <4>1, StartCalls
    <3>2. CASE op.kind \notin Starting
      <4>1. Slot!Apply(want)
        BY <1>1, <1>3, <3>2 DEF CallWorker, Starting
      <4> HIDE DEF want
      <4> QED BY <1>1, <1>3, <3>2, <4>1, ApplyCalls
    <3> QED BY <3>1, <3>2
  <2>2. op.kind = "capture" /\ trusted => Agrees(cfg, document, secret)
    BY <1>1, CaptureAgrees
  <2>3. op.kind # "capture" => cfg = op.cand
    OBVIOUS
  <2> HIDE DEF cfg
  <2>4. /\ Same /\ op'.gen = op.gen /\ op'.step = "called" /\ op'.attempted = TRUE
        /\ op'.cand = cfg
    BY <1>1 DEF Same, TransactionInv, ShapeInv, IsOp
  <2> QED
    BY <1>1, <1>3, <2>1, <2>2, <2>3, <2>4, CallsWorkerLinked DEF SlotCalled, Changing,
       Candidate, Want
<1> QED BY <1>2, <1>3

------------------------
(* Tests *)

\* A test changes nothing a snapshot shows but who may be in its pool.
LEMMA TestIs ==
  ASSUME TransactionInv, LinkInv, op.kind = "test"
  PROVE  /\ ~op.attempted /\ op.step # "none" /\ op.kind \notin Changing
         /\ Closed(document) /\ op.id \in document.providers /\ Covers(document, op.prev)
         /\ IsOp(op) /\ document \in Document
  BY DEF TransactionInv, ShapeInv, KindsInv, LinkInv, DataInv, AttemptInv, Changing, Hot, Starting

LEMMA TestMoves ==
  ASSUME TransactionInv, LinkInv, op.kind = "test",
         NEW step \in {"record", "select", "selected", "clear"}, Goes(step),
         UNCHANGED <<secret, factVars, slotVars>>,
         Closed(document'), op.id \in document'.providers, Covers(document', op.prev)
  PROVE  LinkInv'
<1> QED BY TestIs, PlainMove DEF Unattempted

LEMMA ProbedLinked ==
  ASSUME InStep, TransactionInv, LinkInv, NEW c \in Commits, NEW passed \in BOOLEAN,
         Probed(passed, c)
  PROVE  LinkInv'
<1>1. /\ op.step = "probe" /\ op.kind = "test" /\ UNCHANGED <<secret, factVars, slotVars>>
  BY DEF Probed, TransactionInv, KindsInv
<1>2. \/ document' = document
      \/ \E tested \in SUBSET (document.tested \union {op.id}) :
           document' = [document EXCEPT !.tested = tested]
  BY DEF Probed, Persist
<1>3. Goes("record") \/ \E result : Finish(result)
  BY <1>1, TestIs DEF Goes, Same, IsOp, endVars, Probed, Commits
<1> QED
  BY <1>1, <1>2, <1>3, TestIs, TestMoves, EndUnattempted DEF Starting, Closed, Covers, Document

LEMMA SelectInitialLinked ==
  ASSUME InStep, TransactionInv, LinkInv, NEW c \in Commits, SelectInitial(c)
  PROVE  LinkInv'
<1>1. /\ op.step = "select" /\ op.kind = "test" /\ UNCHANGED <<secret, factVars, slotVars>>
      /\ document.active = op.prev.active
  BY DEF SelectInitial, TransactionInv, KindsInv, DocumentInv
<1> QED
  BY <1>1, TestIs, GoGoes, TestMoves, EndUnattempted DEF Starting, SelectInitial, Commits,
     Closed, Covers, Document, Persist

LEMMA SelectionLinked ==
  ASSUME InStep, TransactionInv, LinkInv,
         \/ \E done \in BOOLEAN : SelectionRecorded(done)
         \/ \E c \in Commits : ClearSelection(c)
  PROVE  LinkInv'
<1>1. /\ op.step \in {"selected", "clear"} /\ op.kind = "test"
      /\ UNCHANGED <<secret, factVars, slotVars>> /\ op.prev.active = NoProvider
  BY DEF SelectionRecorded, ClearSelection, storeVars, TransactionInv, KindsInv, DocumentInv
<1>2. document' = document \/ document' = [document EXCEPT !.active = NoProvider]
  BY DEF SelectionRecorded, ClearSelection, Persist, storeVars
<1> QED
  BY <1>1, <1>2, TestIs, GoGoes, TestMoves, EndUnattempted DEF Starting, Closed, Covers,
     Document, SelectionRecorded, ClearSelection

------------------------
(* Backward *)

LEMMA UndoProceedsIs ==
  ASSUME NEW broken, NEW step, IsOp(op), UndoProceeds(broken, step)
  PROVE  (step = "none" /\ Undone(broken)) \/ (step # "none" /\ Goes(step))
<1>1. CASE step # "none"
  BY <1>1 DEF Goes, Same, IsOp, UndoProceeds, endVars
<1>2. CASE step = "none"
  BY <1>2 DEF UndoProceeds
<1> QED BY <1>1, <1>2

\* The registry's rollback, or that of the secret, and what comes after it.
LEMMA UndoesLinked ==
  ASSUME InStep, TransactionInv, LinkInv, Kept, op.step \in {"undo", "restore"},
         op.kind \in Changing, NEW broken \in BOOLEAN, NEW step,
         step \in {"none", "restore", "undocall"},
         step = "none" => ~op.attempted, step = "undocall" => op.attempted,
         UndoProceeds(broken, step), UNCHANGED <<factVars, slotVars>>,
         Closed(document'), secret' = secret \/ op.kind = "secret"
  PROVE  LinkInv'
<1>1. /\ op.step # "none" /\ call.kind = "none" /\ ~Taken /\ op.kind \notin {"test", "details"}
      /\ confirmed.gen <= confirmedGeneration /\ op.attempted \in BOOLEAN
      /\ op.kind \notin {"create", "group", "test", "stop"} \union Starting
  BY KindIs DEF LinkInv, CallInv, ConfirmedInv, AttemptInv, Taken, Changing, Hot, Starting
<1>2. (step = "none" /\ Undone(broken)) \/ (step # "none" /\ Goes(step))
  BY UndoProceedsIs DEF TransactionInv, ShapeInv
<1>3. CASE step = "none"
  BY <1>1, <1>2, <1>3, CalmIs, EndUndone
<1>4. CASE step # "none" /\ op.attempted
  BY <1>1, <1>2, <1>4, UndoMove
<1>5. CASE step # "none" /\ ~op.attempted
  BY <1>1, <1>2, <1>5, PlainMove DEF Unattempted
<1> QED BY <1>1, <1>3, <1>4, <1>5

LEMMA UndoLinked ==
  ASSUME InStep, TransactionInv, LinkInv, Kept, NEW c \in Commits, Undo(c)
  PROVE  LinkInv'
<1>1. /\ op.step = "undo" /\ op.kind \in Changing /\ op.kind \notin {"details", "activate"}
      /\ UNCHANGED <<secret, factVars, slotVars>> /\ UndoProceeds(c # "done", AfterUndo)
  BY KindIs DEF Undo, TransactionInv, KindsInv, Changing
<1>2. Closed(document')
  <2>1. \/ UndoneDocument = op.prev
        \/ UndoneDocument.tested = document.tested /\ UndoneDocument.providers = document.providers
    BY <1>1 DEF UndoneDocument, UndoWeight, UndoMode, UndoCapture, UndoHot, TransactionInv,
                ShapeInv, Document
  <2> QED BY <2>1 DEF Closed, LinkInv, DataInv, Undo, Persist
<1> QED BY <1>1, <1>2, UndoesLinked DEF AfterUndo

LEMMA RestoreSecretLinked ==
  ASSUME InStep, TransactionInv, LinkInv, Kept, NEW c \in Commits, RestoreSecret(c)
  PROVE  LinkInv'
<1> DEFINE step == IF op.attempted THEN "undocall" ELSE "none"
<1>1. /\ op.step = "restore" /\ op.kind = "secret" /\ op.kind \in Changing
      /\ UNCHANGED <<document, factVars, slotVars>>
      /\ UndoProceeds(op.broken \/ c # "done", step)
      /\ Closed(document') /\ op.broken \in BOOLEAN
  BY DEF RestoreSecret, TransactionInv, KindsInv, ShapeInv, Changing, Hot, LinkInv, DataInv
<1>2. PICK broken \in BOOLEAN : broken = (op.broken \/ c # "done")
  BY <1>1
<1>3. /\ step \in {"none", "undocall"}
      /\ step = "none" => ~op.attempted
      /\ step = "undocall" => op.attempted
  OBVIOUS
<1> HIDE DEF step
<1> QED BY <1>1, <1>3, <1>2, UndoesLinked

\* What the Worker served goes back to it, under a generation that is new.
LEMMA UndoCallLinked ==
  ASSUME InStep, TransactionInv, LinkInv, UndoCall
  PROVE  LinkInv'
<1> USE DEF LinkInv
<1> DEFINE gen == RollbackGeneration
           want == Want(gen, op.prior)
<1>1. /\ op.step = "undocall" /\ op.kind \in Changing /\ op.kind \notin {"stop", "details"}
      /\ Slot!Apply(want) /\ UNCHANGED <<document, secret, factVars, trusted>>
      /\ op' = [op EXCEPT !.gen = gen, !.cand = op.prior, !.step = "undone"]
      /\ op.attempted /\ op.running /\ op.kind \notin Starting
  BY AttemptedNow, KindIs
  DEF UndoCall, FallsBackTo, storeVars, endVars, TransactionInv, KindsInv, Changing, Hot,
      Starting, AttemptInv
<1>2. /\ ~Taken /\ confirmed.gen <= confirmedGeneration
      /\ confirmed.gen \in Nat /\ confirmedGeneration \in Nat
  BY <1>1 DEF ConfirmedInv, Taken
<1>3. gen \in Nat /\ gen > confirmedGeneration
  BY <1>2 DEF RollbackGeneration, Max2, GenerationInv
<1> HIDE DEF want
<1>4. SlotShape' /\ SlotCalled(want)
  BY <1>1, ApplyCalls
<1> HIDE DEF gen
<1>5. /\ Same /\ op'.gen = gen /\ op'.cand = op.prior /\ op'.step = "undone"
      /\ op'.attempted /\ op'.broken = op.broken
  BY <1>1 DEF TransactionInv, ShapeInv, IsOp, Same
<1>6. /\ Candidate' = want /\ confirmed' = confirmed /\ (Live' => Live)
      /\ OwnJob' => job'.snap = want
      /\ call'.kind = "none" => reply'.gen = confirmed'.gen /\ reply'.phase = phase'
  BY <1>4, <1>5 DEF Candidate, Want, SlotCalled, want
<1>7. ~Taken' /\ Tried'
  BY <1>1, <1>2, <1>5, <1>6 DEF Taken, Tried, Same, factVars
<1>8. CallInv'
  BY <1>1, <1>2, <1>5, <1>6 DEF CallInv, Answered, Same, factVars
<1>9. ConfirmedInv'
  BY <1>1, <1>2, <1>5, <1>6, <1>7 DEF ConfirmedInv, factVars
<1>10. GenerationInv'
  BY <1>1, <1>3, <1>5 DEF GenerationInv, WithCandidate, Same, factVars
<1>11. AttemptInv'
  BY <1>1, <1>5, <1>6 DEF AttemptInv, Same
<1>12. PriorInv'
  BY <1>1, <1>5 DEF PriorInv, Same, SecretBefore
<1>13. CandidateInv'
  <2>1. trusted /\ ~op.broken => Agrees(op.prior, document, secret)
    <3> SUFFICES ASSUME trusted, ~op.broken PROVE Agrees(op.prior, document, secret)
      OBVIOUS
    <3> QED
      BY <1>1 DEF PriorInv, SecretBefore, TransactionInv, SecretInv, ShapeInv, DocumentInv,
         Restored
  <2> QED BY <1>1, <1>5, <2>1 DEF CandidateInv, PriorInv
<1>14. DataInv'
  BY <1>1, <1>5 DEF DataInv, Same
<1> QED
  BY <1>4, <1>8, <1>9, <1>10, <1>11, <1>7, <1>12, <1>13, <1>14 DEF BasisInv

LEMMA UndoAnsweredLinked ==
  ASSUME InStep, TransactionInv, LinkInv, Kept, UndoAnswered
  PROVE  LinkInv'
<1> USE DEF LinkInv
<1>1. /\ Answered /\ op.step = "undone" /\ op.kind # "stop"
      /\ UNCHANGED <<document, secret, slotVars>> /\ op.cand # NoConfig
      /\ Closed(document') /\ op.broken \in BOOLEAN
  BY DEF UndoAnswered, storeVars, TransactionInv, ShapeInv, KindsInv, Hot, CandidateInv, DataInv
<1>2. call.kind = "none"
  BY <1>1, ConfirmedIs
<1>3. CASE IsConfirmed(op.gen)
  <2>1. /\ Undone(op.broken) /\ confirmedGeneration' = op.gen /\ confirmedSnapshot' = op.cand
    BY <1>1, <1>3 DEF UndoAnswered, Confirm
  <2>2. /\ op' = NoOp /\ trusted' \in BOOLEAN
        /\ trusted' => trusted /\ ~op.broken
    BY <2>1, FinishHas DEF Undone
  <2> QED
    BY <1>1, <1>2, <1>3, <2>1, <2>2, ConfirmedIs, EndLinked DEF CandidateInv, Candidate, Want
<1>4. CASE ~IsConfirmed(op.gen)
  BY <1>1, <1>2, <1>4, ConfirmedIs, FinishHas, EndDegraded DEF UndoAnswered, Undone
<1> QED BY <1>3, <1>4

LEMMA CleanupLinked ==
  ASSUME InStep, TransactionInv, LinkInv, Cleanup
  PROVE  LinkInv'
<1> USE DEF LinkInv
<1>1. /\ op.step = "cleanup" /\ op.kind \in Starting /\ Slot!Stop /\ op.attempted
      /\ UNCHANGED <<document, secret, factVars, trusted>>
      /\ op' = [op EXCEPT !.step = "cleaned"]
      /\ op.kind \notin Changing \union {"stop", "create", "group", "test"}
  BY AttemptedNow
  DEF Cleanup, storeVars, endVars, TransactionInv, KindsInv, Starting, Changing, Hot
<1>2. /\ SlotShape' /\ (Serves => Serves') /\ ~OwnJob'
      /\ confirmed' = confirmed /\ (Live' => Live)
      /\ call'.kind = "none" => reply'.gen = confirmed'.gen /\ reply'.phase = phase'
  BY <1>1, StopCalls
<1>3. /\ Same /\ op'.gen = op.gen /\ op'.step = "cleaned" /\ op'.attempted
  BY <1>1 DEF TransactionInv, ShapeInv, IsOp, Same
<1>4. /\ ~Taken /\ ~Taken' /\ ~Tried /\ confirmed.gen <= confirmedGeneration
      /\ confirmed.gen \in Nat /\ confirmedGeneration \in Nat
  BY <1>1, <1>3 DEF Taken, Tried, ConfirmedInv
<1>5. CallInv'
  BY <1>1, <1>2, <1>3, <1>4 DEF CallInv, Answered, factVars
<1>6. ConfirmedInv'
  BY <1>1, <1>2, <1>4 DEF ConfirmedInv, factVars
<1>7. GenerationInv'
  BY <1>1, <1>3 DEF GenerationInv, WithCandidate, Same, factVars
<1>8. BasisInv'
  BY <1>1, <1>2, <1>4, <1>3 DEF BasisInv, factVars, SecretBefore, DocumentBefore, Same
<1> QED
  BY <1>2, <1>5, <1>6, <1>7, <1>1, <1>3, <1>8 DEF AttemptInv, Same, CandidateInv, PriorInv,
     DataInv

LEMMA CleanedUpLinked ==
  ASSUME InStep, TransactionInv, LinkInv, Kept, CleanedUp
  PROVE  LinkInv'
<1>1. /\ Answered /\ op.step = "cleaned" /\ op.kind \in Starting /\ op.step # "none"
      /\ UNCHANGED <<document, secret, factVars, slotVars>> /\ call.kind = "none"
      /\ Closed(document') /\ op.kind \notin Changing \union {"test", "details"}
  BY DEF CleanedUp, storeVars, TransactionInv, KindsInv, Answered, LinkInv, DataInv, Starting,
         Changing, Hot
<1>2. PICK broken \in BOOLEAN : Undone(broken)
  BY DEF CleanedUp, Undone
<1> QED BY <1>1, <1>2, EndUndone DEF Taken, Tried

LEMMA UndoCredentialsLinked ==
  ASSUME InStep, TransactionInv, LinkInv, Kept, NEW c \in Commits,
         UndoCredential(c) \/ UndoCreate(c) \/ RestoreTest(c)
  PROVE  LinkInv'
<1>1. /\ op.step \in {"unset", "unmark"} /\ op.kind \in {"secret", "create"}
      /\ UNCHANGED <<factVars, slotVars>>
      /\ op.step = "unset" => document' = document
      /\ op.step = "unmark" => document' \in {document, op.prev}
      /\ op.kind # "secret" => secret' = secret
  BY DEF UndoCredential, UndoCreate, RestoreTest, Persist, TransactionInv, KindsInv
<1>2. /\ ~op.attempted /\ op.step # "none" /\ Closed(document')
      /\ op.kind \notin {"test", "details"} \union Starting
  BY <1>1, UnattemptedAt DEF LinkInv, DataInv, Starting
<1>3. CASE Go("unmark") /\ op.kind = "secret"
  BY <1>1, <1>2, <1>3, GoGoes, PlainMove DEF TransactionInv, ShapeInv, Unattempted
<1>4. CASE Undone(c # "done")
  BY <1>1, <1>2, <1>4, CalmIs, EndUndone
<1> QED BY <1>1, <1>3, <1>4 DEF UndoCredential, UndoCreate, RestoreTest

------------------------
(* Always *)

LEMMA LinkInit == Init => LinkInv
<1> SUFFICES ASSUME Init PROVE LinkInv
  OBVIOUS
<1>1. /\ op.step = "none" /\ op.kind = "none" /\ op.attempted = FALSE
      /\ op.running = FALSE /\ op.gen = 0 /\ op.prev = NoDocument /\ op.next = NoDocument
  BY NoOpHas DEF Init
<1>2. /\ phase = "stopped" /\ confirmed = Slot!NoSnap /\ worker = Slot!Gone /\ inbox = <<>>
      /\ job = Slot!NoJob /\ recovery = "none" /\ closed = FALSE /\ call = Slot!NoCall
      /\ confirmed.gen = 0 /\ ~worker.alive /\ worker = [alive |-> worker.alive, snap |-> worker.snap]
      /\ job.fn = "none" /\ job.restart = FALSE /\ call.kind = "none"
  BY DEF Init, Slot!SlotInit, Slot!NoSnap, Slot!Gone, Slot!NoJob, Slot!NoCall
<1>3. ~OwnJob /\ ~Live /\ Serves /\ ~Taken /\ ~Tried
  BY <1>1, <1>2 DEF OwnJob, Live, Serves, Taken, Tried
<1>4. SlotShape
  BY <1>2, <1>3 DEF SlotShape, IsWorker
<1>5. CallInv /\ ConfirmedInv
  BY <1>1, <1>2, <1>3 DEF CallInv, Answered, ConfirmedInv, Init
<1>6. AttemptInv
  BY <1>1, <1>3 DEF AttemptInv, Hot, Changing, Init
<1>7. BasisInv /\ PriorInv /\ CandidateInv
  BY <1>1, <1>3 DEF BasisInv, PriorInv, CandidateInv, Hot, Starting
<1>8. DataInv
  BY <1>1 DEF DataInv, Closed, NoDocument, Starting, Init
<1> QED
  BY <1>4, <1>5, <1>1, <1>6, <1>7, <1>8 DEF LinkInv, GenerationInv, WithCandidate, Hot, Starting

LEMMA LinkStep == InStep /\ TransactionInv /\ LinkInv /\ [Next]_vars => LinkInv'
<1> SUFFICES ASSUME InStep, TransactionInv, LinkInv, [Next]_vars PROVE LinkInv'
  OBVIOUS
<1>1. Kept
  BY TransactionStep
<1>2. CASE UNCHANGED vars
  BY <1>2, StaysLinked DEF vars, storeVars, endVars
<1>3. CASE Calls
  BY <1>3, CallsLinked
<1>4. CASE Forward
  <2>1. CASE \E c \in Commits : SetCredential(c) \/ ResetTest(c) \/ Commit(c) \/ Fallback(c)
    BY <1>1, <2>1, SetCredentialLinked, ResetTestLinked, CommitLinked, FallbackLinked
  <2>2. CASE Build \/ BuildFails \/ CallWorker
    BY <1>1, <2>2, BuildLinked, BuildFailsLinked, CallWorkerLinked
  <2>3. CASE WorkerConfirms \/ ModeConfirmed \/ WorkerRefuses \/ WorkerStopped
    BY <1>1, <2>3, WorkerConfirmsLinked, ModeConfirmedLinked, WorkerRefusesLinked,
       WorkerStoppedLinked
  <2>4. CASE \E done \in BOOLEAN : ForgetCredential(done)
    BY <2>4, ForgetCredentialLinked
  <2>5. CASE Recorded \/ ModeRecorded \/ RecordFails
    BY <2>5, RecordedLinked, ModeRecordedLinked, RecordFailsLinked
  <2>6. CASE \/ \E c \in Commits, passed \in BOOLEAN : Probed(passed, c)
             \/ \E c \in Commits : SelectInitial(c)
    BY <2>6, ProbedLinked, SelectInitialLinked
  <2>7. CASE \/ \E done \in BOOLEAN : SelectionRecorded(done)
             \/ \E c \in Commits : ClearSelection(c)
    BY <2>7, SelectionLinked
  <2> QED BY <1>4, <2>1, <2>2, <2>3, <2>4, <2>5, <2>6, <2>7 DEF Forward
<1>5. CASE Backward
  <2>1. CASE \E c \in Commits : Undo(c) \/ RestoreSecret(c)
    BY <1>1, <2>1, UndoLinked, RestoreSecretLinked
  <2>2. CASE \E c \in Commits : UndoCredential(c) \/ UndoCreate(c) \/ RestoreTest(c)
    BY <1>1, <2>2, UndoCredentialsLinked
  <2>3. CASE Rebuild \/ RebuildFails \/ UndoActivationCall
    BY <2>3, KindIs
    DEF Rebuild, RebuildFails, UndoActivationCall, TransactionInv, KindsInv
  <2>4. CASE UndoCall \/ UndoAnswered \/ Cleanup \/ CleanedUp
    BY <1>1, <2>4, UndoCallLinked, UndoAnsweredLinked, CleanupLinked, CleanedUpLinked
  <2> QED BY <1>5, <2>1, <2>2, <2>3, <2>4 DEF Backward
<1>6. CASE Manager \/ ManagerFails
  BY <1>6, ManagerLinked
<1> QED BY <1>2, <1>3, <1>4, <1>5, <1>6 DEF Next

LEMMA LinkAgrees == TransactionInv /\ LinkInv => Agreement
<1> SUFFICES ASSUME TransactionInv, LinkInv, Quiet, trusted, phase = "running", worker.alive
             PROVE  LET cfg == worker.snap.cfg
                    IN /\ cfg.preferred \in {document.active, NoProvider}
                       /\ cfg.pool \subseteq document.providers
                       /\ cfg.settings = document.settings
                       /\ cfg.secret = secret
  BY DEF Agreement
<1> QED
  BY NoOpHas DEF Agrees, LinkInv, BasisInv, Serves, Taken, Tried, DocumentBefore, SecretBefore,
     Live, Quiet, Idle

\* A Worker in service routes by the registry document, after any operations and whatever
\* goes wrong in them: commits, credentials, the log, acknowledgements and processes.  Each
\* rollback goes back to a snapshot that stands for the document it goes back to, under a
\* generation that is not taken for another.  For any providers and any number of faults,
\* without the operations that InStep names.
THEOREM WorkerAgrees == ASSUME InStep PROVE Spec => []Agreement
<1>1. TransactionInv /\ LinkInv /\ [Next]_vars => LinkInv'
  BY LinkStep
<1> QED
  BY <1>1, TransactionAlways, LinkInit, LinkAgrees, PTL DEF Spec

------------------------
(* What one fault can do *)

\* Nothing has gone wrong, but for a lock of the registry that was left behind.
Intact == faults = 0 \/ (faults = 1 /\ locked)

Special == {"delete", "secret", "details"}
Served(doc) == doc.active \in doc.tested
Sent == {"called", "undone", "cleaned"}

LockInv == faults \in Nat /\ locked \in BOOLEAN /\ (locked => faults >= 1)
FreeInv == Answered => job = Slot!NoJob
NumberInv ==
  /\ op.gen \in Nat /\ confirmedGeneration \in Nat
  /\ confirmed.gen \in Nat /\ job.snap.gen \in Nat

\* What a rollback needs to be asked for.
BackInv ==
  /\ op.running \in BOOLEAN /\ op.attempted \in BOOLEAN
  /\ Closed(document) /\ Closed(op.prev) /\ Closed(op.next)
  /\ op.step = "probe" => op.id \in document.providers
  /\ op.kind = "test" => op.attempted = FALSE
  /\ confirmedSnapshot \in Configurations \union {NoConfig}
  /\ op.prior \in Configurations \union {NoConfig}
  /\ op.cand \in Configurations \union {NoConfig}
  /\ op.attempted => op.step \in {"called", "forget", "record", "undo", "restore", "rebuild",
                                  "undocall", "undone", "cleanup", "cleaned"}
  /\ op.step \in {"called", "rebuild", "undocall", "undone", "cleanup", "cleaned"} => op.attempted
  /\ op.kind \in Changing /\ (op.step \in {"fallback", "build", "call"} \/ op.attempted) =>
       op.running
  /\ op.kind \in Changing /\ op.running
     /\ (op.kind # "weight" \/ op.step = "call" \/ op.attempted) => op.prior # NoConfig
  /\ \/ op.step = "call" /\ op.kind \notin {"stop", "capture"}
     \/ op.step = "called" /\ op.kind # "stop"
     \/ op.step = "commit" /\ (op.kind = "activate" \/ (op.kind = "mode" /\ op.running))
     \/ op.step = "record" /\ op.kind = "mode" /\ op.attempted
     => op.cand # NoConfig

\* Who is asked to undo has the slot for itself; the rollback is confirmed, or the Worker is gone.
Lost == phase # "running" \/ ~worker.alive

UndoInv ==
  /\ op.broken /\ op.kind \notin Special => faults >= 2
  /\ op.step \in {"selected", "clear"} => ~locked
  /\ op.step = "clear" \/ (op.step = "unset" /\ op.kind = "create") => faults >= 1
  /\ faults <= 1 /\ op.kind \notin Special =>
       /\ op.attempted /\ op.step \in {"undo", "undocall", "cleanup"} => job = Slot!NoJob
       /\ op.step = "undone" =>
            IF call.kind = "none" THEN (IsConfirmed(op.gen) /\ op.cand # NoConfig) \/ Lost
            ELSE \/ job.fn = "stop" /\ ~job.restart
                 \/ /\ job.fn \in {"start", "apply"} \/ job.restart
                    /\ job.snap.gen = op.gen /\ op.cand # NoConfig
       /\ op.step = "cleaned" => IF call.kind = "none" THEN reply.ok \/ Lost
                                 ELSE job.fn = "stop" /\ ~job.restart

\* While no fault has come, the manager rests between the calls, and
Serving == worker.alive /\ worker.snap = confirmed /\ inbox = <<>>

Resting ==
  /\ call.kind = "none" /\ job = Slot!NoJob
  /\ phase \in {"stopped", "running"}
  /\ IF phase = "running" THEN Serving ELSE ~worker.alive

\* a call is answered with what it asked for.
Carried ==
  \/ worker.snap = job.snap /\ inbox = <<>>
  \/ /\ worker.snap.gen \in Nat /\ worker.snap.gen < job.snap.gen
     /\ inbox = <<>> \/ inbox = <<job.snap>>

Flying ==
  /\ call.kind # "none"
  /\ IF op.kind = "stop" THEN job.fn = "stop" /\ ~job.restart
     ELSE /\ job.snap = Candidate
          /\ job.restart \/ (job.fn \in {"start", "apply"} /\ worker.alive /\ Carried)

Landed ==
  /\ call.kind = "none" /\ job = Slot!NoJob
  /\ IF op.kind = "stop" THEN phase = "stopped" /\ ~worker.alive
     ELSE IsConfirmed(op.gen) /\ confirmed = Candidate /\ phase = "running" /\ Serving

SlotGood ==
  recovery = "none" /\ IF op.step = "called" THEN Flying \/ Landed ELSE Resting

\* Only the deletion of the last provider is undone.
StepGood ==
  /\ op.step \notin {"clear", "restore", "rebuild", "undocall", "undone", "cleanup", "cleaned"}
  /\ op.step \in {"fallback", "undo"} => op.kind = "delete"
  /\ op.attempted => op.step # "undo"
  /\ op.step = "fallback" => document.tested = {}
  /\ op.step = "build" => op.kind # "capture"

\* The generation of a candidate is new.
WithFresh ==
  \/ op.kind \in Gated /\ op.step \in {"build", "commit"}
  \/ op.kind \in {"mode", "capture"} /\ op.running /\ op.step \in {"build", "commit"}
  \/ op.kind # "stop" /\ op.step \in {"call", "called"}

GenGood ==
  /\ \/ confirmed.gen <= confirmedGeneration
     \/ op.attempted /\ confirmed.gen = op.gen /\ op.kind # "stop"
        /\ (op.step = "called" \/ (op.kind = "mode" /\ op.step = "record"))
  /\ op.kind \in Hot \union {"weight"}
     /\ op.step \in {"set", "reset", "commit", "fallback", "build"}
       => op.gen = confirmedGeneration
  /\ op.kind = "mode" /\ op.step = "record" /\ op.attempted => confirmed.gen = op.gen
  /\ WithFresh => op.gen > confirmedGeneration

\* What ran when the operation began still runs.
PhaseGood ==
  /\ op.kind \in Changing /\ op.step # "called" => (op.running <=> phase = "running")
  /\ op.kind = "start" /\ op.step \in {"build", "call"} => phase # "running"

\* The preferred provider of a Worker in service has passed its test.
DocGood ==
  /\ op.kind \in Hot \union {"weight"} /\ op.step = "build" => Served(document)
  /\ op.kind = "weight" /\ op.step = "commit" => op.prior = confirmedSnapshot
  /\ op.kind = "weight" /\ op.step = "build" => op.prior # NoConfig
  /\ op.kind = "secret" /\ op.step \in {"set", "reset"} /\ phase = "running" =>
       op.next.tested = op.prev.tested
  /\ op.step = "reset" => op.id \notin op.next.tested
  /\ op.step = "probe" /\ phase = "running" => op.running \/ op.id \notin document.tested
  /\ faults = 0 =>
       /\ \/ phase = "running" /\ op.step \notin {"fallback", "undo"}
          \/ op.kind \in Starting /\ op.step \in {"build", "call"}
          \/ op.kind = "activate" /\ op.step = "call"
          \/ op.kind # "stop" /\ op.step = "called"
          => Served(document)
       /\ op.step \in {"set", "reset", "commit", "build"}
          /\ (phase = "running" \/ op.kind = "activate") =>
            Served(op.next) \/ (op.kind = "delete" /\ op.next.tested = {})
            \/ (op.kind \in Hot \union {"weight"} /\ op.step = "build")
       /\ op.kind \in Hot /\ op.running => Served(op.prev)
       /\ (IF op.step = "called" THEN op.kind = "mode" ELSE phase = "running") =>
            confirmedSnapshot # NoConfig

Good == SlotGood /\ StepGood /\ GenGood /\ PhaseGood /\ DocGood

FaultInv ==
  LockInv /\ SlotShape /\ FreeInv /\ NumberInv /\ BackInv /\ UndoInv /\ (Intact => Good)

------------------------
(* Faults, and what an operation keeps *)

LEMMA Blamed ==
  ASSUME LockInv, NEW failed \in BOOLEAN, Blame(failed), locked' = locked
  PROVE  /\ LockInv' /\ faults' >= faults /\ (Intact' => Intact)
         /\ failed => faults' = faults + 1 /\ ~Intact'
         /\ ~failed => faults' = faults
  BY DEF LockInv, Blame, Intact

LEMMA Persisted ==
  ASSUME LockInv, NEW c \in Commits, NEW new, Persist(new, c)
  PROVE  /\ LockInv' /\ faults' >= faults /\ (Intact' => Intact)
         /\ c = "done" => document' = new /\ faults' = faults /\ ~locked /\ ~locked'
         /\ c = "refused" => document' = document /\ locked' = locked /\ faults' >= 1
                             /\ (~locked => ~Intact' /\ faults' = faults + 1)
         /\ c = "warned" => document' = new /\ ~locked /\ faults' = faults + 1
  BY DEF LockInv, Persist, Blame, Intact, Commits

LEMMA Unblamed ==
  ASSUME LockInv, UNCHANGED <<locked, faults>>
  PROVE  LockInv' /\ (Intact' <=> Intact)
  BY DEF LockInv, Intact

LEMMA SlotFixed ==
  ASSUME UNCHANGED slotVars
  PROVE  /\ SlotShape' <=> SlotShape
         /\ Resting' <=> Resting
         /\ Serving' <=> Serving
         /\ Lost' <=> Lost
         /\ UNCHANGED <<phase, confirmed, worker, inbox, job, recovery, call, reply>>
<1> QED BY SlotSame DEF Resting, Serving, Lost, slotVars

LEMMA AtRest ==
  ASSUME FaultInv, Intact, op.step # "called"
  PROVE  recovery = "none" /\ Resting
  BY DEF FaultInv, Good, SlotGood

LEMMA HasLanded ==
  ASSUME FaultInv, Intact, op.step = "called", Answered
  PROVE  recovery = "none" /\ Resting /\ Landed
  BY DEF FaultInv, Good, SlotGood, Answered, Flying, Landed, Resting

\* The operation has ended.
LEMMA Ended ==
  ASSUME FaultInv, LockInv', op' = NoOp, UNCHANGED slotVars,
         confirmedGeneration' \in Nat,
         confirmedSnapshot' \in Configurations \union {NoConfig},
         Closed(document'),
         Intact' => recovery = "none" /\ Resting /\ confirmed.gen <= confirmedGeneration',
         faults' = 0 /\ phase = "running" => Served(document') /\ confirmedSnapshot' # NoConfig
  PROVE  FaultInv'
<1>1. /\ op'.step = "none" /\ op'.kind = "none" /\ op'.attempted = FALSE
      /\ op'.running = FALSE /\ op'.gen = 0 /\ op'.prev = NoDocument /\ op'.next = NoDocument
      /\ op'.broken = FALSE /\ op'.prior = NoConfig /\ op'.cand = NoConfig
  BY DEF NoOp
<1>2. BackInv'
  <2>1. Closed(op'.prev) /\ Closed(op'.next)
    BY <1>1 DEF Closed, NoDocument
  <2> QED BY <1>1, <2>1 DEF BackInv, Changing, Hot
<1>3. ASSUME Intact'
      PROVE  Good'
  <2>1. GenGood'
    BY <1>1, <1>3, SlotFixed DEF GenGood, WithFresh, Hot, Gated
  <2> QED
    BY <1>1, <1>3, <2>1, SlotFixed DEF Good, StepGood, PhaseGood, Changing, Hot, DocGood,
       SlotGood
<1> QED BY <1>1, <1>2, <1>3, SlotFixed DEF FaultInv, FreeInv, Answered, NumberInv, UndoInv

\* The operation has gone on, to a step that waits for no call.
LEMMA Moved ==
  ASSUME FaultInv, LockInv', op.step # "none", NEW step,
         step \notin Sent \union {"none", "probe"}, Goes(step), faults' >= faults,
         op'.broken /\ op.kind \notin Special => op.broken \/ faults' >= 2, UNCHANGED slotVars,
         confirmedGeneration' \in Nat,
         confirmedSnapshot' \in Configurations \union {NoConfig},
         Closed(document'),
         op.attempted => step \in {"forget", "record", "undo", "restore", "rebuild", "undocall",
                                   "cleanup"},
         step \in {"rebuild", "undocall", "cleanup"} => op.attempted,
         op.kind \in Changing /\ step \in {"fallback", "build", "call"} => op.running,
         step = "call" => op.kind # "weight",
         \/ step = "call" /\ op.kind \notin {"stop", "capture"}
         \/ step = "commit" /\ (op.kind = "activate" \/ (op.kind = "mode" /\ op.running))
         \/ step = "record" /\ op.kind = "mode" /\ op.attempted
         => op.cand # NoConfig,
         step \in {"selected", "clear"} => ~locked',
         step = "clear" \/ (step = "unset" /\ op.kind = "create") => faults' >= 1,
         faults' <= 1 /\ op.kind \notin Special /\ op.attempted
           /\ step \in {"undo", "undocall", "cleanup"} => job = Slot!NoJob,
         Intact' => recovery = "none" /\ Resting /\ StepGood' /\ GenGood' /\ PhaseGood' /\ DocGood'
  PROVE  FaultInv'
<1>1. /\ op'.step = step /\ op'.attempted = op.attempted /\ op'.running = op.running
      /\ op'.kind = op.kind /\ op'.prev = op.prev /\ op'.next = op.next
      /\ op'.prior = op.prior /\ op'.cand = op.cand /\ op'.gen = op.gen
  BY DEF Goes, Same
<1>2. BackInv'
  BY <1>1 DEF BackInv, Sent, FaultInv
<1>3. UndoInv'
  BY <1>1, SlotFixed DEF UndoInv, Sent, FaultInv, LockInv
<1> QED
  BY <1>1, <1>2, <1>3, SlotFixed DEF FaultInv, FreeInv, Answered, Sent, Good, SlotGood,
     NumberInv
------------------------
(* What the begin of an operation must see to *)

Ready ==
  /\ op'.step \in {"set", "commit", "build", "record", "call", "probe"}
  /\ op'.running \in BOOLEAN /\ op'.attempted = FALSE /\ op'.broken = FALSE
  /\ op'.prev = document /\ Closed(op'.next)
  /\ op'.prior = (IF op'.kind = "test" THEN NoConfig ELSE confirmedSnapshot)
  /\ op'.cand = NoConfig /\ op'.gen \in Nat
  /\ op'.kind \in Changing =>
       /\ op'.running = (phase = "running")
       /\ op'.step \in {"set", "commit", "build"}
       /\ op'.step = "build" => op'.kind = "mode"
       /\ phase = "running" /\ op'.kind # "weight" => confirmedSnapshot # NoConfig
  /\ op'.kind = "mode" => (op'.step = "build" <=> phase = "running")
  /\ op'.kind = "activate" => op'.step = "build"
  /\ op'.kind \in Starting => op'.step # "commit"
  /\ op'.step = "call" => op'.kind = "stop"
  /\ op'.kind \in Hot \union {"weight"} => op'.gen = confirmedGeneration
  /\ op'.kind \in Gated /\ op'.step = "build" => op'.gen > confirmedGeneration
  /\ op'.kind \in {"mode", "capture"} /\ phase = "running" => op'.gen > confirmedGeneration
  /\ op'.kind = "start" /\ op'.step = "build" => phase # "running"
  /\ op'.kind = "secret" /\ phase = "running" => op'.next.tested = document.tested
  /\ op'.step = "probe" => op'.id \in document.providers
  /\ op'.step = "probe" /\ phase = "running" => op'.running \/ op'.id \notin document.tested
  /\ op'.kind \in Starting /\ op'.step = "build" => Served(document)
  /\ op'.step \in {"set", "commit", "build"} =>
       /\ phase = "running" /\ Served(document) =>
            Served(op'.next) \/ (op'.kind = "delete" /\ op'.next.tested = {})
       /\ op'.kind = "activate" => Served(op'.next)

LEMMA Begun ==
  ASSUME FaultInv, Idle, UNCHANGED <<storeVars, factVars, faults, slotVars>>, Ready
  PROVE  FaultInv'
<1> USE DEF Ready
<1>1. /\ op.step = "none" /\ op.kind = "none" /\ op.attempted = FALSE
      /\ UNCHANGED <<document, locked, credentials, secret, confirmedGeneration, confirmedSnapshot>>
      /\ LockInv' /\ (Intact' <=> Intact)
  BY NoOpHas, Unblamed DEF Idle, storeVars, factVars, FaultInv
<1>2. op'.step \notin Sent
  BY DEF Sent
<1>3. BackInv'
  <2>1. op'.kind \in Changing /\ op'.step \in {"fallback", "build", "call"} => op'.running
    OBVIOUS
  <2> QED BY <1>1, <2>1 DEF BackInv, FaultInv, Changing, Hot
<1>4. ASSUME Intact'
      PROVE  Good'
  <2>1. Intact /\ Good /\ recovery = "none" /\ Resting
    BY <1>1, <1>4, AtRest DEF FaultInv
  <2>2. GenGood'
    BY <1>1, <2>1, SlotFixed DEF GenGood, Good, WithFresh, Gated, Starting, Changing
  <2>3. DocGood'
    BY <1>1, <2>1, SlotFixed DEF DocGood, Good, Starting, Changing, Hot
  <2> QED
    BY <1>2, <2>1, <2>2, <2>3, SlotFixed DEF Good, PhaseGood, SlotGood, Sent, StepGood, Changing
<1> QED
  BY <1>1, <1>2, <1>3, <1>4, SlotFixed DEF FaultInv, FreeInv, Answered, Sent, NumberInv, UndoInv

LEMMA RejectFaultless ==
  ASSUME FaultInv, UNCHANGED <<storeVars, factVars, op, faults, slotVars>>
  PROVE  FaultInv'
<1>1. /\ UNCHANGED <<document, locked, confirmedGeneration, confirmedSnapshot, op, faults>>
      /\ UNCHANGED <<phase, confirmed, worker, inbox, job, recovery, closed, call, reply>>
  BY DEF storeVars, factVars, slotVars
<1>2. LockInv' /\ SlotShape' /\ NumberInv' /\ BackInv' /\ (Intact' <=> Intact)
  BY <1>1, Unblamed, SlotFixed DEF FaultInv, NumberInv, BackInv
<1>3. FreeInv' /\ UndoInv'
  BY <1>1, SlotFixed DEF FaultInv, FreeInv, Answered, UndoInv, IsConfirmed
<1>4. SlotGood => SlotGood'
  BY <1>1 DEF SlotGood, Flying, Landed, Resting, Serving, Carried, Candidate, Want, IsConfirmed
<1> QED
  BY <1>2, <1>3, <1>4, <1>1 DEF FaultInv, Good, StepGood, GenGood, WithFresh, PhaseGood, DocGood

LEMMA RejectedFaultless ==
  ASSUME FaultInv, NEW kind, Reject(kind)
  PROVE  FaultInv'
  BY RejectFaultless DEF Reject

LEMMA BeginIs ==
  ASSUME NEW kind, NEW id, NEW step, NEW next, NEW gen, Begin(kind, id, step, next, gen)
  PROVE  /\ UNCHANGED <<storeVars, factVars, faults, slotVars>>
         /\ op'.kind = kind /\ op'.id = id /\ op'.step = step /\ op'.prev = document
         /\ op'.next = next /\ op'.gen = gen /\ op'.attempted = FALSE /\ op'.broken = FALSE
         /\ op'.running = (phase = "running") /\ op'.running \in BOOLEAN
         /\ op'.prior = confirmedSnapshot /\ op'.cand = NoConfig
  BY DEF Begin, NoOp

LEMMA ChangingReady ==
  ASSUME FaultInv, Idle, NEW kind \in Changing, NEW id, NEW step, NEW next, NEW gen,
         Begin(kind, id, step, next, gen), Closed(next),
         kind # "weight" /\ phase = "running" => confirmedSnapshot # NoConfig,
         step = IF kind = "secret" THEN "set"
                ELSE IF kind = "mode" /\ phase = "running" THEN "build" ELSE "commit",
         gen = confirmedGeneration
               + IF kind \in {"mode", "capture"} /\ phase = "running" THEN 1 ELSE 0,
         kind = "secret" /\ phase = "running" => next.tested = document.tested,
         phase = "running" /\ Served(document) =>
           Served(next) \/ (kind = "delete" /\ next.tested = {})
  PROVE  FaultInv'
<1>1. /\ UNCHANGED <<storeVars, factVars, faults, slotVars>>
      /\ op'.kind = kind /\ op'.step = step /\ op'.prev = document
      /\ op'.next = next /\ op'.gen = gen /\ op'.attempted = FALSE /\ op'.broken = FALSE
      /\ op'.running = (phase = "running") /\ op'.running \in BOOLEAN
      /\ op'.prior = confirmedSnapshot /\ op'.cand = NoConfig
  BY DEF Begin, NoOp
<1>2. Ready
  BY <1>1 DEF Ready, FaultInv, NumberInv, Starting, Hot, Changing, Gated
<1> QED BY <1>1, <1>2, Begun

LEMMA HotReady ==
  ASSUME FaultInv, Idle, NEW kind \in Hot, NEW id, NEW step, NEW next,
         step = IF kind = "secret" THEN "set" ELSE "commit",
         BeginHot(kind, id, step, next), Closed(next),
         kind = "secret" /\ phase = "running" => next.tested = document.tested,
         phase = "running" /\ Served(document) =>
           Served(next) \/ (kind = "delete" /\ next.tested = {})
  PROVE  FaultInv'
<1>1. CASE HotAllowed
  BY <1>1, ChangingReady DEF BeginHot, HotAllowed, NothingToRestore, Changing, Hot, FaultInv,
     NumberInv
<1>2. CASE ~HotAllowed
  BY <1>2, RejectedFaultless DEF BeginHot
<1> QED BY <1>1, <1>2

LEMMA ToggledServes ==
  ASSUME FaultInv, TransactionInv, NEW s \in Settings
  PROVE  /\ Closed(document) /\ Closed(Toggle(s))
         /\ Served(document) => Served(Toggle(s))
         /\ document \in Document /\ Toggle(s) \in Document
         /\ Toggle(s).providers = document.providers
         /\ Toggle(s).tested = document.tested /\ Toggle(s).active = document.active
         /\ confirmedGeneration \in Nat
  BY Toggled DEF FaultInv, NumberInv, BackInv, Closed, Served, TransactionInv, ShapeInv

LEMMA HotEditFaultless ==
  ASSUME FaultInv, NEW next, Closed(next),
         phase = "running" /\ Served(document) => Served(next),
         HotEdit(next)
  PROVE  FaultInv'
<1> QED BY HotReady DEF HotEdit, MayCall, Hot

LEMMA HotCallsFaultless ==
  ASSUME FaultInv, TransactionInv,
         \/ UpdateRoutingRuleGroup \/ DeleteRoutingRuleGroup \/ UpdateModelMappingGroup
         \/ SetApiKeyAuthEnabled \/ SetActiveRoutingRuleGroup \/ SetProviderSupportedModels
         \/ UpdateProvider \/ SetCaptureDetailsEnabled
         \/ \E id \in Providers : UpdateSecret(id) \/ DeleteProvider(id)
  PROVE  FaultInv'
<1>1. "rules" \in Settings /\ "details" \in Settings
      /\ "secret" \in Hot /\ "delete" \in Hot /\ "details" \in Hot
  BY DEF Settings, Hot
<1>2. /\ Closed(document) /\ Closed(Toggle("rules")) /\ Closed(Toggle("details"))
      /\ Served(document) => Served(Toggle("rules")) /\ Served(Toggle("details"))
      /\ document \in Document /\ Toggle("rules") \in Document
      /\ Toggle("rules").providers = document.providers
      /\ Toggle("rules").tested = document.tested /\ Toggle("rules").active = document.active
  BY <1>1, ToggledServes
<1>3. CASE UpdateProvider
  <2>1. PICK reset : /\ HotEdit([Toggle("rules") EXCEPT !.tested = @ \ reset])
                     /\ phase = "running" => reset = {}
    BY <1>3 DEF UpdateProvider
  <2> QED BY <2>1, <1>2, HotEditFaultless DEF Served, Document, Closed
<1>4. CASE \E id \in Providers : UpdateSecret(id)
  <2>1. PICK id \in Providers : UpdateSecret(id)
    BY <1>4
  <2> DEFINE next == [Toggle("rules") EXCEPT
                        !.tested = IF phase = "running" THEN @ ELSE @ \ {id}]
  <2>2. Idle /\ BeginHot("secret", id, "set", next)
    BY <2>1 DEF UpdateSecret, MayCall
  <2>3. /\ Closed(next)
        /\ (phase = "running" =>
              next.tested = document.tested /\ next.active = document.active)
    BY <1>2 DEF Closed, Document
  <2> HIDE DEF next
  <2> QED BY <1>1, <2>2, <2>3, HotReady DEF Served
<1>5. CASE \E id \in Providers : DeleteProvider(id)
  <2>1. PICK id \in Providers : DeleteProvider(id)
    BY <1>5
  <2>2. PICK fallback \in IF document.active # id THEN {document.active}
                          ELSE IF document.tested \ {id} = {} THEN {NoProvider}
                          ELSE document.tested \ {id} :
               BeginHot("delete", id, "commit",
                          [document EXCEPT !.providers = @ \ {id}, !.tested = @ \ {id},
                                           !.active = fallback])
    BY <2>1 DEF DeleteProvider
  <2> DEFINE next == [document EXCEPT !.providers = @ \ {id}, !.tested = @ \ {id},
                                !.active = fallback]
  <2> HIDE DEF next
  <2> QED
    BY <1>1, <1>2, <2>1, <2>2, HotReady DEF Served, Closed, Document, DeleteProvider, MayCall
<1>6. CASE SetCaptureDetailsEnabled
  BY <1>1, <1>2, <1>6, RejectedFaultless, HotReady DEF SetCaptureDetailsEnabled, MayCall
<1> QED
  BY <1>2, <1>3, <1>4, <1>5, <1>6, HotEditFaultless
  DEF UpdateRoutingRuleGroup, DeleteRoutingRuleGroup, UpdateModelMappingGroup,
      SetApiKeyAuthEnabled, SetActiveRoutingRuleGroup, SetProviderSupportedModels

LEMMA SettingsFaultless ==
  ASSUME FaultInv, TransactionInv,
         SetProviderWeight \/ SetRoutingMode \/ SetCaptureEnabled
  PROVE  FaultInv'
<1>1. /\ "weight" \in Settings /\ "mode" \in Settings /\ "capture" \in Settings
      /\ "weight" \in Changing /\ "mode" \in Changing /\ "capture" \in Changing
  BY DEF Settings, Changing
<1>2. /\ Idle /\ confirmedGeneration \in Nat /\ confirmedGeneration + 0 = confirmedGeneration
  BY DEF SetProviderWeight, SetRoutingMode, SetCaptureEnabled, MayCall, FaultInv, NumberInv
<1>3. CASE SetProviderWeight
  BY <1>1, <1>2, <1>3, ToggledServes, RejectedFaultless, ChangingReady DEF SetProviderWeight
<1>4. CASE SetRoutingMode
  <2> DEFINE step == IF phase = "running" THEN "build" ELSE "commit"
             gen == confirmedGeneration + IF phase = "running" THEN 1 ELSE 0
  <2> QED
    BY <1>1, <1>2, <1>4, ToggledServes, RejectedFaultless, ChangingReady DEF SetRoutingMode,
       NothingToRestore
<1>5. CASE SetCaptureEnabled
  <2> DEFINE on == ~document.settings["capture"]
             next == [document EXCEPT !.settings = WithCapture(@, on)]
             gen == confirmedGeneration + IF phase = "running" THEN 1 ELSE 0
  <2>1. \/ Reject("capture")
        \/ /\ phase = "running" => confirmedSnapshot # NoConfig
           /\ Begin("capture", NoProvider, "commit", next, gen)
    BY <1>5 DEF SetCaptureEnabled, NothingToRestore
  <2>2. Closed(next) /\ (Served(document) => Served(next))
    BY <1>1, ToggledServes DEF Document, Closed, Served
  <2> HIDE DEF next
  <2> QED BY <1>1, <1>2, <2>1, <2>2, RejectedFaultless, ChangingReady
<1> QED BY <1>3, <1>4, <1>5

LEMMA OtherReady ==
  ASSUME FaultInv, Idle,
         NEW kind \in {"create", "group", "host", "stop", "start", "restart", "activate"}, NEW id,
         NEW step \in {"set", "commit", "build", "record", "call"}, NEW next,
         NEW gen \in Nat, Begin(kind, id, step, next, gen),
         Closed(next), Served(document) => Served(next),
         kind = "activate" => step = "build" /\ Served(next),
         kind \in Starting => step \in {"build", "record"},
         kind \in Starting /\ step = "build" => Served(document),
         kind = "start" /\ step = "build" => phase # "running",
         step = "build" => gen > confirmedGeneration,
         step = "call" => kind = "stop"
  PROVE  FaultInv'
<1> QED BY Begun DEF Ready, Changing, Hot, Begin, NoOp

LEMMA TestReady ==
  ASSUME FaultInv, NEW id, NEW activateIfNone \in BOOLEAN, TestProvider(id, activateIfNone)
  PROVE  FaultInv'
<1>1. CASE Reject("test")
  BY <1>1, RejectedFaultless
<1>2. CASE ~Reject("test")
  <2>1. /\ UNCHANGED <<storeVars, factVars, faults, slotVars>> /\ Idle
        /\ id \in document.providers
        /\ op'.kind = "test" /\ op'.id = id /\ op'.step = "probe" /\ op'.prev = document
        /\ op'.next = document /\ op'.gen = 0 /\ op'.attempted = FALSE /\ op'.broken = FALSE
        /\ op'.running = (id \in document.tested /\ phase = "running") /\ op'.running \in BOOLEAN
        /\ op'.prior = NoConfig /\ op'.cand = NoConfig
    BY <1>2 DEF TestProvider, MayCall, NoOp
  <2>2. phase = "running" => op'.running \/ op'.id \notin document.tested
    BY <2>1
  <2>3. Ready
    BY <2>1, <2>2 DEF Ready, Changing, Hot, Starting, Gated, FaultInv, BackInv
  <2> QED BY <2>1, <2>3, Begun
<1> QED BY <1>1, <1>2

LEMMA OtherCallsFaultless ==
  ASSUME FaultInv, TransactionInv,
         \/ GroupEdit \/ StopProxy \/ StartProxy("start") \/ StartProxy("restart") \/ SetProxyHost
         \/ \E id \in Providers : CreateProvider(id) \/ Activate(id)
  PROVE  FaultInv'
<1>1. /\ Idle /\ Closed(document) /\ document \in Document
      /\ confirmedGeneration \in Nat /\ confirmed.gen \in Nat
  BY DEF GroupEdit, StopProxy, StartProxy, CreateProvider, SetProxyHost, Activate, MayCall,
         FaultInv, BackInv, NumberInv, TransactionInv, ShapeInv
<1>2. "activate" \notin Starting /\ "host" \notin Starting /\ "create" \notin Starting
      /\ "group" \notin Starting /\ "stop" \notin Starting
  BY DEF Starting
<1>3. CASE GroupEdit
  BY <1>2, <1>1, <1>3, OtherReady DEF GroupEdit
<1>4. CASE StopProxy
  BY <1>2, <1>1, <1>4, OtherReady DEF StopProxy
<1>5. ASSUME NEW kind \in {"start", "restart"}, StartProxy(kind) PROVE FaultInv'
  <2> DEFINE gen == Max2(confirmedGeneration, confirmed.gen) + 1
  <2>1. gen \in Nat /\ gen > confirmedGeneration
    BY <1>1 DEF Max2
  <2> HIDE DEF gen
  <2>2. CASE Reject(kind)
    BY <2>2, RejectedFaultless
  <2>3. CASE Begin(kind, NoProvider, "record", document, confirmedGeneration)
    BY <1>2, <1>1, <2>3, OtherReady
  <2>4. CASE /\ Begin(kind, document.active, "build", document, gen)
             /\ Served(document) /\ (kind = "start" => phase # "running")
    BY <1>2, <1>1, <2>1, <2>4, OtherReady
  <2> QED BY <1>5, <2>2, <2>3, <2>4 DEF StartProxy, gen, Served
<1>6. CASE \E id \in Providers : CreateProvider(id)
  <2>1. PICK id \in Providers : CreateProvider(id)
    BY <1>6
  <2> DEFINE next == [document EXCEPT !.providers = @ \union {id}]
  <2>2. Begin("create", id, "set", next, confirmedGeneration)
    BY <2>1 DEF CreateProvider
  <2>3. Closed(next) /\ (Served(document) => Served(next))
    BY <1>1 DEF Document, Closed, Served
  <2> HIDE DEF next
  <2> QED BY <1>2, <1>1, <2>2, <2>3, OtherReady
<1>7. CASE SetProxyHost
  BY <1>2, <1>1, <1>7, ToggledServes, RejectedFaultless, OtherReady DEF SetProxyHost, Settings
<1>8. CASE \E id \in Providers : Activate(id)
  <2>1. PICK id \in Providers : Activate(id)
    BY <1>8
  <2> DEFINE next == [document EXCEPT !.active = id]
  <2>2. \/ Reject("activate")
        \/ /\ id \in document.tested
           /\ Begin("activate", id, "build", next, confirmedGeneration + 1)
    BY <2>1 DEF Activate
  <2>3. Closed(next) /\ (id \in document.tested => Served(next))
    BY <1>1 DEF Document, Closed, Served
  <2> HIDE DEF next
  <2> QED BY <1>2, <1>1, <2>2, <2>3, RejectedFaultless, OtherReady
<1> QED BY <1>3, <1>4, <1>5, <1>6, <1>7, <1>8

LEMMA CallsFaultless ==
  ASSUME FaultInv, TransactionInv, Calls
  PROVE  FaultInv'
<1>1. CASE \/ UpdateRoutingRuleGroup \/ DeleteRoutingRuleGroup \/ UpdateModelMappingGroup
           \/ SetApiKeyAuthEnabled \/ SetActiveRoutingRuleGroup \/ SetProviderSupportedModels
           \/ UpdateProvider \/ SetCaptureDetailsEnabled
           \/ \E id \in Providers : UpdateSecret(id) \/ DeleteProvider(id)
  BY <1>1, HotCallsFaultless
<1>2. CASE SetProviderWeight \/ SetRoutingMode \/ SetCaptureEnabled
  BY <1>2, SettingsFaultless
<1>3. CASE \/ CreateRoutingRuleGroup \/ CreateModelMappingGroup \/ DeleteModelMappingGroup
           \/ StopProxy \/ StartProxy("start") \/ StartProxy("restart") \/ SetProxyHost
           \/ \E id \in Providers : CreateProvider(id) \/ Activate(id)
  BY <1>3, OtherCallsFaultless
  DEF CreateRoutingRuleGroup, CreateModelMappingGroup, DeleteModelMappingGroup
<1>4. CASE \E id \in Providers, activateIfNone \in BOOLEAN : TestProvider(id, activateIfNone)
  BY <1>4, TestReady
<1> QED BY <1>1, <1>2, <1>3, <1>4 DEF Calls

------------------------
(* What the manager does of a call, without a fault and with one *)

LEMMA ManagerKeepsOperation ==
  ASSUME Manager \/ ManagerFails
  PROVE  /\ UNCHANGED <<document, locked, credentials, secret, confirmedGeneration,
                        confirmedSnapshot, op, outcome, trusted>>
         /\ ~Urgent /\ ~Answered
  BY DEF Manager, ManagerFails, Urgent, storeVars, factVars, endVars

\* A call is answered when its job ends, and a job is about what it was begun for.
LEMMA SlotAnswers ==
  ASSUME SlotShape, Manager \/ ManagerFails
  PROVE  /\ call'.kind = call.kind \/ (call'.kind = "none" /\ job' = Slot!NoJob)
         /\ job'.snap \in {job.snap, confirmed, Slot!NoSnap}
         /\ confirmed' \in {confirmed, job.snap}
<1>1. Slot!NoJob.snap = Slot!NoSnap
  BY DEF Slot!NoJob
<1>2. ASSUME NEW ok, Slot!Settle(ok)
      PROVE  job' = Slot!NoJob /\ call'.kind = "none"
  BY <1>2, CallAnswered DEF Slot!Settle
<1>3. CASE Slot!WorkerTakes \/ Slot!StartSends \/ Slot!RecoveryRetries \/ Slot!WorkerDies
           \/ Slot!RecoveryGivesUp
  BY <1>3 DEF Slot!WorkerTakes, Slot!StartSends, Slot!RecoveryRetries, Slot!WorkerDies,
              Slot!RecoveryGivesUp
<1>4. CASE Slot!Started \/ Slot!ApplyConfirmed
  BY <1>1, <1>2, <1>4 DEF Slot!Started, Slot!ApplyConfirmed
<1>5. CASE \/ Slot!AccountApplied \/ Slot!MessageFails \/ Slot!StopFails
           \/ \E ok \in BOOLEAN : Slot!StopEnds(ok)
  BY <1>1, <1>2, <1>5
  DEF Slot!AccountApplied, Slot!MessageFails, Slot!StopFails, Slot!StopEnds
<1>6. CASE Slot!CrashNoticed
  BY <1>1, <1>6, CallAnswered DEF Slot!CrashNoticed
<1>7. CASE Slot!AccountBegins
  BY <1>7 DEF Slot!NoJob, Slot!AccountBegins
<1>8. CASE Slot!RestartForks
  <2>1. CASE Slot!Forks(call, job.snap)
    BY <1>8, <2>1 DEF Slot!RestartForks, Slot!Forks, Slot!NoJob
  <2>2. CASE Slot!ForkFails(call)
    BY <1>1, <1>8, <2>2, CallAnswered DEF Slot!RestartForks, Slot!ForkFails
  <2> QED BY <1>8, <2>1, <2>2 DEF Slot!RestartForks
<1>9. CASE Slot!RecoveryStarts
  <2>1. call.kind = "none" /\ Slot!NoCall.kind = "none" /\ confirmed' = confirmed
    BY <1>9, NoJobIs DEF Slot!RecoveryStarts, SlotShape, Slot!NoCall
  <2>2. CASE Slot!Forks(Slot!NoCall, confirmed)
    BY <2>1, <2>2 DEF Slot!Forks, Slot!NoJob
  <2>3. CASE Slot!ForkFails(Slot!NoCall)
    BY <1>1, <2>1, <2>3, AnswerIs DEF Slot!ForkFails
  <2> QED BY <1>9, <2>2, <2>3 DEF Slot!RecoveryStarts
<1> QED
  BY <1>3, <1>4, <1>5, <1>6, <1>7, <1>8, <1>9 DEF Manager, ManagerFails, SlotProceeds

\* Without a fault a call is answered with what it asked for.
LEMMA FlyingStep ==
  ASSUME ~AccountUpdates, SlotShape, NumberInv, LockInv, recovery = "none", Flying,
         op.kind # "stop" => op.gen > 0,
         Manager, Intact, Intact'
  PROVE  /\ recovery' = "none" /\ (Flying' \/ Landed')
         /\ confirmed' = confirmed \/ (confirmed' = Candidate /\ op.kind # "stop")
<1>1. /\ UNCHANGED op /\ Candidate' = Candidate /\ call.kind # "none"
      /\ job # Slot!NoJob /\ job.fn # "none" /\ op.gen \in Nat /\ UNCHANGED locked
  BY ManagerKeepsOperation, NoJobIs DEF Candidate, Want, Flying, SlotShape, NumberInv
<1>a. ASSUME NEW failed \in BOOLEAN, Blame(failed)
      PROVE  ~failed
  BY <1>1, <1>a, Blamed
<1>2. CASE op.kind = "stop"
  <2>1. job.fn = "stop" /\ ~job.restart /\ phase = "draining"
    BY <1>2 DEF Flying, SlotShape
  <2>2. CASE Slot!WorkerTakes \/ Slot!WorkerDies
    BY <1>1, <1>2, <2>1, <2>2 DEF Flying, Slot!WorkerTakes, Slot!WorkerDies
  <2>3. CASE Slot!StopEnds(TRUE)
    BY <1>1, <1>2, <2>3, CallAnswered DEF Landed, Slot!StopEnds, Slot!Settle
  <2>4. ~Slot!StartSends /\ ~Slot!Started /\ ~Slot!ApplyConfirmed /\ ~Slot!AccountApplied
        /\ ~Slot!CrashNoticed /\ ~Slot!RecoveryRetries /\ ~Slot!RestartForks /\ ~Slot!RecoveryStarts
        /\ job.fn # "start"
    BY <1>1, <2>1
    DEF Slot!StartSends, Slot!Started, Slot!ApplyConfirmed, Slot!AccountApplied, Slot!CrashNoticed,
        Slot!RecoveryRetries, Slot!RestartForks, Slot!RecoveryStarts
  <2> QED BY <2>2, <2>3, <2>4 DEF Manager, SlotProceeds
<1>3. CASE op.kind # "stop" /\ job.restart
  <2>1. job.fn = "stop" /\ phase = "draining" /\ job.snap = Candidate
    BY <1>3 DEF Flying, SlotShape
  <2>2. CASE Slot!WorkerTakes \/ Slot!WorkerDies
    BY <1>1, <1>3, <2>1, <2>2 DEF Flying, Slot!WorkerTakes, Slot!WorkerDies
  <2>3. CASE Slot!RestartForks /\ Blame(job' = Slot!NoJob)
    <3>1. Slot!Forks(call, job.snap) /\ UNCHANGED <<recovery, confirmed>>
      BY <2>3, <1>a DEF Slot!RestartForks, Slot!ForkFails
    <3> QED
      BY <1>1, <1>3, <2>1, <3>1 DEF Flying, Carried, Slot!Fresh, Slot!NoSnap, Slot!Forks,
         Slot!NoJob, Candidate, Want
  <2>4. ~Slot!StartSends /\ ~Slot!Started /\ ~Slot!ApplyConfirmed /\ ~Slot!AccountApplied
        /\ ~Slot!CrashNoticed /\ ~Slot!RecoveryRetries /\ ~Slot!RecoveryStarts
        /\ ~Slot!StopEnds(TRUE) /\ job.fn # "start"
    BY <1>1, <1>3, <2>1
    DEF Slot!StartSends, Slot!Started, Slot!ApplyConfirmed, Slot!AccountApplied, Slot!CrashNoticed,
        Slot!RecoveryRetries, Slot!StopEnds, Slot!RecoveryStarts
  <2> QED BY <2>2, <2>3, <2>4 DEF Manager, SlotProceeds
<1>4. CASE op.kind # "stop" /\ ~job.restart
  <2>1. /\ job.snap = Candidate /\ job.fn \in {"start", "apply"} /\ worker.alive /\ Carried
        /\ job.snap.gen = op.gen /\ op.gen > 0
    BY <1>4 DEF Flying, Candidate, Want
  <2>2. CASE Slot!WorkerTakes
    <3>1. /\ inbox = <<job.snap>> /\ UNCHANGED <<job, call, recovery, confirmed>>
          /\ worker' = [worker EXCEPT !.snap = Head(inbox)] /\ inbox' = Tail(inbox)
      BY <2>1, <2>2 DEF Slot!WorkerTakes, Carried
    <3>2. worker'.alive /\ worker'.snap = job.snap /\ inbox' = <<>>
      BY <2>1, <3>1 DEF SlotShape, IsWorker
    <3> QED BY <1>1, <1>4, <2>1, <3>1, <3>2 DEF Flying, Carried
  <2>3. CASE Slot!StartSends
    BY <1>1, <1>4, <2>1, <2>3 DEF Flying, Carried, Slot!Fresh, Slot!NoSnap, Slot!StartSends
  <2>4. CASE Slot!Started \/ Slot!ApplyConfirmed
    BY <1>1, <1>4, <2>1, <2>4, AnswerIs DEF Landed, Serving, IsConfirmed, Slot!Settle,
       Slot!Started, Slot!ApplyConfirmed, Slot!ServesOrGone
  <2>5. CASE Slot!WorkerDies /\ Blame(job.fn # "stop" /\ ~Refuses)
    <3>1. Refuses
      BY <1>a, <2>1, <2>5
    <3> QED BY <1>1, <2>1, <3>1 DEF Refuses, Carried
  <2>6. ~Slot!AccountApplied /\ ~Slot!CrashNoticed /\ ~Slot!RecoveryRetries
        /\ ~Slot!RecoveryStarts /\ ~Slot!RestartForks
        /\ ~(\E ok \in BOOLEAN : Slot!StopEnds(ok))
    BY <1>1, <1>4, <2>1
    DEF Slot!AccountApplied, Slot!CrashNoticed, Slot!RecoveryRetries, Slot!StopEnds,
        Slot!RecoveryStarts, Slot!RestartForks
  <2> QED BY <2>2, <2>3, <2>4, <2>5, <2>6 DEF Manager, SlotProceeds
<1> QED BY <1>2, <1>3, <1>4 DEF SlotShape

LEMMA RestingStep ==
  ASSUME ~AccountUpdates, SlotShape, LockInv, recovery = "none", Resting, Manager, Intact
  PROVE  ~Intact'
<1>1. /\ call.kind = "none" /\ job = Slot!NoJob /\ phase \in {"stopped", "running"}
      /\ phase = "running" => worker.alive
      /\ worker.alive => inbox = <<>>
      /\ job.fn = "none" /\ job.restart = FALSE /\ UNCHANGED locked
  BY ManagerKeepsOperation, NoJobIs DEF Resting, Serving
<1>2. ~Slot!StartSends /\ ~Slot!Started /\ ~Slot!ApplyConfirmed /\ ~Slot!AccountApplied
      /\ ~Slot!CrashNoticed /\ ~Slot!RecoveryRetries /\ ~Slot!RestartForks /\ ~Slot!RecoveryStarts
      /\ ~(\E ok \in BOOLEAN : Slot!StopEnds(ok))
  BY <1>1
  DEF Slot!StartSends, Slot!Started, Slot!ApplyConfirmed, Slot!AccountApplied, Slot!CrashNoticed,
      Slot!RecoveryRetries, Slot!RestartForks, Slot!RecoveryStarts, Slot!StopEnds
<1> QED
  BY <1>1, <1>2, Blamed DEF Manager, SlotProceeds, Slot!WorkerDies, Refuses, Slot!WorkerTakes

\* What a rollback asks for is confirmed, unless the Worker is gone.
Fetches ==
  \/ job.fn = "stop" /\ ~job.restart
  \/ /\ job.fn \in {"start", "apply"} \/ job.restart
     /\ job.snap.gen = op.gen /\ op.cand # NoConfig

LEMMA FetchingStep ==
  ASSUME ~AccountUpdates, SlotShape, call.kind # "none", Fetches, Manager, faults \in Nat,
         faults' = faults
  PROVE  IF call'.kind = "none" THEN (IsConfirmed(op.gen)' /\ op.cand # NoConfig) \/ Lost'
         ELSE Fetches'
<1>1. UNCHANGED op /\ job # Slot!NoJob /\ job.fn # "none"
  BY ManagerKeepsOperation DEF SlotShape
<1>2. CASE Slot!WorkerTakes \/ Slot!StartSends \/ Slot!WorkerDies \/ Slot!RecoveryRetries
  BY <1>1, <1>2 DEF Fetches, Slot!WorkerTakes, Slot!StartSends, Slot!WorkerDies,
     Slot!RecoveryRetries
<1>3. CASE Slot!Started \/ Slot!ApplyConfirmed
  BY <1>1, <1>3, AnswerIs DEF IsConfirmed, Slot!Settle, Fetches, SlotShape, Slot!Started,
     Slot!ApplyConfirmed
<1>4. CASE \E ok \in BOOLEAN : Slot!StopEnds(ok)
  BY <1>4, CallAnswered DEF Lost, Slot!StopEnds, Slot!Settle
<1>5. CASE Slot!CrashNoticed
  BY <1>5, CallAnswered DEF Lost, Slot!CrashNoticed
<1>6. CASE Slot!RestartForks
  <2>1. CASE Slot!Forks(call, job.snap)
    BY <1>1, <1>6, <2>1 DEF Fetches, Slot!Forks, Slot!NoJob, Slot!RestartForks
  <2>2. CASE Slot!ForkFails(call)
    BY <2>2, CallAnswered DEF Lost, Slot!ForkFails
  <2> QED BY <1>6, <2>1, <2>2 DEF Slot!RestartForks
<1> QED
  BY <1>2, <1>3, <1>4, <1>5, <1>6, <1>1 DEF Manager, SlotProceeds, Slot!AccountApplied,
     Slot!RecoveryStarts, Fetches, SlotShape

LEMMA StoppingStep ==
  ASSUME ~AccountUpdates, SlotShape, call.kind # "none", job.fn = "stop", ~job.restart,
         Manager, faults \in Nat, faults' = faults
  PROVE  IF call'.kind = "none" THEN reply'.ok \/ Lost' ELSE job'.fn = "stop" /\ ~job'.restart
<1>1. job # Slot!NoJob /\ phase = "draining"
  BY NoJobIs DEF SlotShape
<1>2. CASE Slot!WorkerTakes \/ Slot!WorkerDies \/ Slot!RecoveryRetries
  BY <1>1, <1>2 DEF Slot!WorkerTakes, Slot!WorkerDies, Slot!RecoveryRetries
<1>3. CASE Slot!StopEnds(TRUE)
  BY <1>3, CallAnswered DEF Lost, Slot!StopEnds, Slot!Settle
<1> QED
  BY <1>2, <1>3, <1>1 DEF Manager, SlotProceeds, Slot!StartSends, Slot!Started,
     Slot!ApplyConfirmed, Slot!AccountApplied, Slot!CrashNoticed, Slot!RecoveryStarts,
     Slot!RestartForks

LEMMA ManagerFaultless ==
  ASSUME ~AccountUpdates, FaultInv, Manager \/ ManagerFails
  PROVE  FaultInv'
<1> USE DEF FaultInv
<1>1. /\ UNCHANGED <<document, locked, confirmedGeneration, confirmedSnapshot, op>>
      /\ ~Urgent /\ ~Answered /\ SlotShape'
  BY ManagerKeepsOperation, ManagerSteps
<1>2. LockInv' /\ faults' >= faults /\ (Intact' => Intact)
      /\ (ManagerFails => faults' = faults + 1 /\ ~Intact')
      /\ faults' \in {faults, faults + 1}
  <2>1. PICK failed \in BOOLEAN : Blame(failed) \/ UNCHANGED faults
    BY DEF Manager, ManagerFails, Blame
  <2>2. CASE Blame(failed)
    BY <1>1, <2>2, Blamed DEF ManagerFails
  <2>3. CASE UNCHANGED faults
    <3>1. ManagerFails => Blame(TRUE)
      BY DEF ManagerFails
    <3> QED BY <2>3, <1>1, <3>1, Unblamed DEF Blame, LockInv
  <2> QED BY <2>1, <2>2, <2>3
<1>3. UndoInv'
  <2>1. ASSUME faults' <= 1, op.kind \notin Special, op.step \in {"undone", "cleaned"}
        PROVE  faults' = faults /\ Manager /\ call.kind # "none"
    BY <1>2, <2>1, <1>1 DEF Intact, LockInv, Answered, Good, StepGood
  <2>2. ASSUME faults' <= 1, op.kind \notin Special, op.step = "undone"
        PROVE  IF call'.kind = "none" THEN (IsConfirmed(op.gen)' /\ op.cand # NoConfig) \/ Lost'
               ELSE Fetches'
    BY <2>1, <2>2, FetchingStep DEF UndoInv, Fetches, LockInv
  <2>3. ASSUME faults' <= 1, op.kind \notin Special, op.step = "cleaned"
        PROVE  IF call'.kind = "none" THEN reply'.ok \/ Lost'
               ELSE job'.fn = "stop" /\ ~job'.restart
    BY <2>1, <2>3, StoppingStep DEF UndoInv, LockInv
  <2>4. faults' >= 2 <=> ~(faults' <= 1)
    BY <1>2 DEF LockInv
  <2> QED
    BY <1>1, <2>2, <2>3, <1>2 DEF UndoInv, Fetches, Urgent, UrgentSteps, LockInv
<1>4. ASSUME Intact'
      PROVE  Good'
  <2>1. Intact /\ Good /\ Manager
    BY <1>2, <1>4
  <2>2. op.step = "called" /\ recovery = "none" /\ Flying
    BY <1>1, <2>1, <1>4, AtRest, RestingStep DEF Good, SlotGood, Landed, Answered
  <2>3. op.kind # "stop" => op.gen > 0 /\ op.attempted
    BY <2>1, <2>2 DEF Good, GenGood, WithFresh, NumberInv, BackInv
  <2>4. /\ recovery' = "none" /\ (Flying' \/ Landed')
        /\ confirmed' = confirmed \/ (confirmed' = Candidate /\ op.kind # "stop")
    BY <1>4, <2>1, <2>2, <2>3, FlyingStep
  <2>5. GenGood'
    BY <1>1, <2>1, <2>2, <2>3, <2>4 DEF Good, GenGood, WithFresh, Candidate, Want
  <2>6. DocGood'
    BY <1>1, <2>1, <2>2, <2>4, <1>2 DEF Good, DocGood, Flying, Landed, SlotShape, LockInv
  <2> QED BY <1>1, <2>2, <2>4, <2>1, <2>5, <2>6 DEF Good, StepGood, PhaseGood, SlotGood
<1> QED
  BY <1>1, <1>2, <1>3, <1>4, SlotAnswers DEF NumberInv, Slot!NoSnap, FreeInv, Answered, BackInv

------------------------
(* The calls *)

LEMMA CallsAnswer ==
  ASSUME SlotShape, NEW want,
         Slot!Start(want) \/ Slot!Restart(want) \/ Slot!Apply(want) \/ Slot!Stop
  PROVE  /\ call'.kind = "none" => job' = Slot!NoJob
         /\ job'.snap \in {job.snap, want, Slot!NoSnap} /\ confirmed' = confirmed
<1>1. call.kind = "none" /\ ~closed /\ Slot!NoJob.snap = Slot!NoSnap
  BY NoCallIs DEF SlotShape, Slot!NoJob, Slot!Start, Slot!Restart, Slot!Apply, Slot!Stop
<1>2. ASSUME NEW kind, NEW w, Slot!Joined(kind, w), kind # "none"
      PROVE  call'.kind # "none" /\ job' = job /\ confirmed' = confirmed
  BY <1>2 DEF Slot!Joined
<1>3. ASSUME NEW kind, NEW w, NEW ok, Slot!AnsweredNow(kind, w, ok)
      PROVE  job' = job /\ confirmed' = confirmed
  BY <1>3 DEF Slot!AnsweredNow
<1>4. ASSUME NEW kind, kind # "none", NEW w,
             \/ Slot!Forks([kind |-> kind, want |-> w], w)
             \/ Slot!ForkFails([kind |-> kind, want |-> w])
      PROVE  \/ call'.kind = kind /\ job'.snap = w
             \/ job' = Slot!NoJob
  <2>1. CASE Slot!Forks([kind |-> kind, want |-> w], w)
    BY <2>1 DEF Slot!Forks, Slot!NoJob
  <2>2. CASE Slot!ForkFails([kind |-> kind, want |-> w])
    BY <2>2 DEF Slot!ForkFails
  <2> QED BY <1>4, <2>1, <2>2
<1>5. ASSUME NEW kind, kind # "none", NEW w, Slot!BeginStop(kind, w)
      PROVE  call'.kind = kind /\ job'.snap = w /\ confirmed' = confirmed
  BY <1>5 DEF Slot!BeginStop
<1>6. CASE Slot!Start(want)
  BY <1>1, <1>2, <1>3, <1>4, <1>6 DEF Slot!Start, Slot!Refused, Slot!Free
<1>7. CASE Slot!Restart(want)
  BY <1>1, <1>2, <1>4, <1>5, <1>7 DEF Slot!Restart, Slot!Refused, Slot!Free
<1>8. CASE Slot!Stop
  BY <1>1, <1>2, <1>3, <1>5, <1>8 DEF Slot!Stop, Slot!Refused, Slot!Free
<1>9. CASE Slot!Apply(want)
  <2>1. ASSUME job' = [Slot!NoJob EXCEPT !.fn = "apply", !.snap = want],
               call' = [kind |-> "apply", want |-> want]
        PROVE  job'.snap = want /\ call'.kind = "apply"
    BY <2>1 DEF Slot!NoJob
  <2> QED BY <1>1, <1>2, <1>3, <1>9, <2>1 DEF Slot!Apply, Slot!Refused, Slot!Free
<1> QED BY <1>6, <1>7, <1>8, <1>9

\* A Worker is forked, or the fork is a fault.
LEMMA ForkFlies ==
  ASSUME NEW kind \in {"start", "restart"}, NEW want, want.gen \in Nat, want.gen > 0,
         \/ Slot!Forks([kind |-> kind, want |-> want], want)
         \/ Slot!ForkFails([kind |-> kind, want |-> want])
  PROVE  \/ ForkFailed
         \/ /\ call'.kind = kind /\ job'.fn = "start" /\ ~job'.restart /\ job'.snap = want
            /\ worker'.alive /\ Carried'
<1>1. CASE Slot!Forks([kind |-> kind, want |-> want], want)
  BY <1>1 DEF Carried, Slot!Fresh, Slot!NoSnap, Slot!Forks, Slot!NoJob
<1>2. CASE Slot!ForkFails([kind |-> kind, want |-> want])
  BY <1>2 DEF ForkFailed, Slot!ForkFails, Slot!Answer
<1> QED BY <1>1, <1>2

\* What a call does to a manager at rest.
LEMMA RestingStart ==
  ASSUME SlotShape, Resting, phase # "running", NEW want, want.gen \in Nat, want.gen > 0,
         Slot!Start(want)
  PROVE  recovery' = recovery
         /\ \/ ForkFailed
            \/ /\ call'.kind # "none" /\ job'.fn = "start" /\ ~job'.restart /\ job'.snap = want
               /\ worker'.alive /\ Carried'
  BY ForkFlies DEF Slot!Start, Slot!Refused, Slot!Joined, SlotShape, Resting

LEMMA RestingRestart ==
  ASSUME SlotShape, Resting, NEW want, want.gen \in Nat, want.gen > 0, Slot!Restart(want)
  PROVE  recovery' = "none"
         /\ \/ ForkFailed
            \/ call'.kind # "none" /\ job'.restart /\ job'.snap = want
            \/ /\ call'.kind # "none" /\ job'.fn = "start" /\ ~job'.restart /\ job'.snap = want
               /\ worker'.alive /\ Carried'
<1>1. ASSUME Slot!BeginStop("restart", want)
      PROVE  call'.kind # "none" /\ job'.restart /\ job'.snap = want
  BY <1>1 DEF Slot!BeginStop
<1> QED BY <1>1, ForkFlies DEF Slot!Restart, Slot!Refused, Slot!Joined, SlotShape, Resting

LEMMA RestingStop ==
  ASSUME SlotShape, Resting, recovery = "none", Slot!Stop
  PROVE  /\ recovery' = "none"
         /\ \/ call'.kind # "none" /\ job'.fn = "stop" /\ ~job'.restart
            \/ call'.kind = "none" /\ job' = Slot!NoJob /\ phase' = "stopped" /\ ~worker'.alive
               /\ reply'.ok
<1>1. ASSUME Slot!BeginStop("stop", Slot!NoSnap)
      PROVE  call'.kind # "none" /\ job'.fn = "stop" /\ ~job'.restart
  BY <1>1 DEF Slot!BeginStop
<1>2. ASSUME Slot!AnsweredNow("stop", Slot!NoSnap, TRUE)
      PROVE  call'.kind = "none" /\ reply'.ok /\ UNCHANGED <<job, worker>>
  <2>1. PICK c : c = [kind |-> "stop", want |-> Slot!NoSnap]
    OBVIOUS
  <2>2. Slot!Answer(c, TRUE) /\ c.kind # "none" /\ UNCHANGED <<job, worker>>
    BY <1>2, <2>1 DEF Slot!AnsweredNow
  <2> QED BY <2>2, AnswerIs
<1> QED BY <1>1, <1>2 DEF Slot!Stop, Slot!Refused, Slot!Joined, SlotShape, Resting

LEMMA RestingApply ==
  ASSUME SlotShape, Resting, phase = "running", NEW want, want.gen \in Nat,
         confirmed.gen \in Nat, want.gen > confirmed.gen, Slot!Apply(want)
  PROVE  /\ recovery' = recovery /\ call'.kind # "none" /\ job'.fn = "apply" /\ ~job'.restart
         /\ job'.snap = want /\ worker'.alive /\ Carried'
<1>1. worker.alive /\ worker.snap = confirmed /\ inbox = <<>> /\ job = Slot!NoJob
  BY DEF Resting, Serving
<1>2. /\ inbox' = Append(inbox, want) /\ job' = [Slot!NoJob EXCEPT !.fn = "apply", !.snap = want]
      /\ call' = [kind |-> "apply", want |-> want] /\ UNCHANGED <<worker, recovery>>
  <2>1. ~(want.gen <= confirmed.gen) /\ ~closed
    BY DEF SlotShape
  <2> QED BY <1>1, <2>1 DEF Slot!Apply, Slot!Refused, Slot!Joined
<1> QED BY <1>1, <1>2 DEF Carried, Slot!NoJob
LEMMA CallBlamed ==
  ASSUME LockInv, Blame(ForkFailed), locked' = locked
  PROVE  LockInv' /\ faults' >= faults /\ (Intact' => Intact /\ ~ForkFailed)
         /\ (faults' = 0 => faults = 0) /\ (~ForkFailed => faults' = faults)
<1>1. PICK failed \in BOOLEAN : failed <=> ForkFailed
  OBVIOUS
<1> QED BY <1>1, Blamed DEF LockInv, Blame

\* The candidate of Capture is a configuration, as is every other.
LEMMA CandidateIs ==
  ASSUME NoConfig \notin Configurations, TransactionInv, BackInv, op.step = "call",
         NEW cfg,
         cfg = IF op.kind = "capture"
               THEN [op.prior EXCEPT !.settings = WithCapture(@, op.next.settings["capture"])]
               ELSE op.cand
  PROVE  /\ cfg \in Configurations \union {NoConfig}
         /\ op.kind # "stop" => cfg # NoConfig
<1>1. CASE op.kind # "capture"
  BY <1>1 DEF BackInv
<1>2. CASE op.kind = "capture"
  BY <1>2 DEF Configurations, WithCapture, Settings, TransactionInv, ShapeInv, Document,
     BackInv, Changing
<1> QED BY <1>1, <1>2

\* The Worker is called by a manager at rest.
LEMMA CalledFlies ==
  ASSUME FaultInv, Intact, op.step = "call", NEW want, want.gen = op.gen,
         op.kind \in Hot \union {"activate", "weight", "mode", "capture", "start", "restart",
                                "stop"},
         CASE op.kind = "stop" -> Slot!Stop
           [] op.kind = "restart" -> Slot!Restart(want)
           [] op.kind = "start" \/ (op.kind = "activate" /\ phase # "running") ->
                Slot!Start(want)
           [] OTHER -> Slot!Apply(want),
         ~ForkFailed
  PROVE  /\ recovery' = "none"
         /\ IF op.kind = "stop"
            THEN \/ call'.kind # "none" /\ job'.fn = "stop" /\ ~job'.restart
                 \/ call'.kind = "none" /\ job' = Slot!NoJob /\ phase' = "stopped"
                    /\ ~worker'.alive
            ELSE /\ call'.kind # "none" /\ job'.snap = want
                 /\ job'.restart \/ (job'.fn \in {"start", "apply"} /\ worker'.alive /\ Carried')
<1>1. recovery = "none" /\ Resting /\ SlotShape /\ Good /\ NumberInv /\ BackInv
  BY AtRest DEF FaultInv
<1>2. op.kind # "stop" => want.gen \in Nat /\ want.gen > 0 /\ confirmed.gen \in Nat
                          /\ want.gen > confirmed.gen
  BY <1>1 DEF NumberInv, Good, GenGood, WithFresh, BackInv
<1>3. CASE op.kind = "stop"
  BY <1>1, <1>3, RestingStop
<1>4. CASE op.kind = "restart"
  BY <1>1, <1>2, <1>4, RestingRestart
<1>5. CASE op.kind = "start" \/ (op.kind = "activate" /\ phase # "running")
  BY <1>1, <1>2, <1>5, RestingStart DEF Good, PhaseGood
<1>6. CASE /\ op.kind \notin {"stop", "restart", "start"}
           /\ ~(op.kind = "activate" /\ phase # "running")
  BY <1>1, <1>2, <1>6, RestingApply DEF Good, PhaseGood, BackInv, Changing
<1> QED BY <1>3, <1>4, <1>5, <1>6

LEMMA CallWorkerFaultless ==
  ASSUME NoConfig \notin Configurations, FaultInv, TransactionInv, CallWorker
  PROVE  FaultInv'
<1> USE DEF FaultInv
<1> DEFINE cfg == IF op.kind = "capture"
                  THEN [op.prior EXCEPT !.settings = WithCapture(@, op.next.settings["capture"])]
                  ELSE op.cand
           want == Want(op.gen, cfg)
<1>1. /\ op.step = "call" /\ Blame(ForkFailed)
      /\ UNCHANGED <<document, locked, confirmedGeneration, confirmedSnapshot>>
      /\ op' = [op EXCEPT !.cand = cfg, !.attempted = TRUE, !.step = "called"]
      /\ CASE op.kind = "stop" -> Slot!Stop
           [] op.kind = "restart" -> Slot!Restart(want)
           [] op.kind = "start" \/ (op.kind = "activate" /\ phase # "running") ->
                Slot!Start(want)
           [] OTHER -> Slot!Apply(want)
  BY DEF CallWorker, storeVars, factVars
<1>2. cfg \in Configurations \union {NoConfig} /\ (op.kind # "stop" => cfg # NoConfig)
  BY <1>1, CandidateIs
<1> HIDE DEF cfg
<1>3. /\ op'.kind = op.kind /\ op'.gen = op.gen /\ op'.step = "called" /\ op'.attempted = TRUE
      /\ op'.cand = cfg /\ op'.prior = op.prior /\ op'.running = op.running
      /\ op'.prev = op.prev /\ op'.next = op.next /\ op'.broken = op.broken /\ op'.id = op.id
      /\ op.attempted = FALSE
  BY <1>1 DEF TransactionInv, ShapeInv, IsOp, BackInv
<1>4. want.gen = op.gen /\ Candidate' = want
  BY <1>3 DEF Want, Candidate
<1>5. op.kind \in Hot \union {"activate", "weight", "mode", "capture", "start", "restart", "stop"}
  BY <1>1 DEF TransactionInv, KindsInv
<1> HIDE DEF want
<1>6. Slot!Start(want) \/ Slot!Restart(want) \/ Slot!Apply(want) \/ Slot!Stop
  BY <1>1
<1>7. SlotShape'
  BY <1>6, StartCalls, StopCalls, ApplyCalls
<1>8. /\ call'.kind = "none" => job' = Slot!NoJob
      /\ job'.snap \in {job.snap, want, Slot!NoSnap} /\ confirmed' = confirmed
  BY <1>6, CallsAnswer
<1>9. LockInv' /\ faults' >= faults /\ (Intact' => Intact /\ ~ForkFailed)
      /\ (faults' = 0 => faults = 0)
  BY <1>1, CallBlamed
<1>10. FreeInv'
  BY <1>8 DEF FreeInv, Answered
<1>11. BackInv'
  BY <1>1, <1>2, <1>3, <1>5 DEF BackInv, Hot
<1>12. UndoInv'
  BY <1>3, <1>9 DEF UndoInv, LockInv
<1>13. ASSUME Intact'
       PROVE  Good'
  <2>1. Intact /\ Good /\ ~ForkFailed
    BY <1>9, <1>13
  <2>2. /\ recovery' = "none"
        /\ IF op.kind = "stop"
           THEN \/ call'.kind # "none" /\ job'.fn = "stop" /\ ~job'.restart
                \/ call'.kind = "none" /\ job' = Slot!NoJob /\ phase' = "stopped"
                   /\ ~worker'.alive
           ELSE /\ call'.kind # "none" /\ job'.snap = want
                /\ job'.restart \/ (job'.fn \in {"start", "apply"} /\ worker'.alive /\ Carried')
    BY <1>1, <1>4, <1>5, <2>1, CalledFlies
  <2>3. GenGood'
    BY <1>1, <1>3, <1>8, <2>1 DEF GenGood, WithFresh, Good
  <2>4. DocGood'
    <3>1. ASSUME faults = 0
          PROVE  /\ op.kind # "stop" => Served(document)
                 /\ op.kind \in Hot /\ op.running => Served(op.prev)
                 /\ op.kind = "mode" => confirmedSnapshot # NoConfig
      BY <1>1, <1>5, <2>1, <3>1 DEF Good, DocGood, Changing, Starting, PhaseGood, BackInv
    <3> QED BY <1>9, <3>1, <1>1, <1>3, <1>7, <2>2 DEF DocGood, Served, Starting, Hot, SlotShape
  <2> QED
    BY <1>3, <1>4, <2>2, <2>3, <2>4 DEF Good, StepGood, PhaseGood, SlotGood, Flying, Landed
<1> QED
  BY <1>7, <1>9, <1>10, <1>1, <1>3, <1>4, <1>8, <1>11, <1>12, <1>13 DEF NumberInv, Slot!NoSnap

\* What a rollback finds a free slot with begins what it asks for, or there is no Worker.
LEMMA FetchApplies ==
  ASSUME SlotShape, job = Slot!NoJob, NEW want, want.gen \in Nat, confirmed.gen \in Nat,
         want.gen > confirmed.gen, Slot!Apply(want)
  PROVE  IF call'.kind = "none" THEN Lost' ELSE job'.fn = "apply" /\ job'.snap = want
<1>1. ~(want.gen <= confirmed.gen) /\ ~closed
  BY DEF SlotShape
<1>2. CASE /\ phase # "running" \/ ~worker.alive
           /\ UNCHANGED phase /\ Slot!AnsweredNow("apply", want, FALSE)
  <2>1. PICK c : c = [kind |-> "apply", want |-> want]
    OBVIOUS
  <2>2. Slot!Answer(c, FALSE) /\ c.kind # "none" /\ UNCHANGED worker
    BY <1>2, <2>1 DEF Slot!AnsweredNow
  <2>3. call'.kind = "none"
    BY <2>2, AnswerIs
  <2> QED BY <1>2, <2>2, <2>3 DEF Lost
<1>3. CASE /\ job' = [Slot!NoJob EXCEPT !.fn = "apply", !.snap = want]
           /\ call' = [kind |-> "apply", want |-> want]
  BY <1>3 DEF Slot!NoJob
<1> QED BY <1>1, <1>2, <1>3 DEF Slot!Apply, Slot!Refused, Slot!Joined

LEMMA FetchRestarts ==
  ASSUME SlotShape, job = Slot!NoJob, NEW want, Slot!Restart(want)
  PROVE  IF call'.kind = "none" THEN Lost'
         ELSE (job'.fn = "start" \/ job'.restart) /\ job'.snap = want
<1>1. CASE Slot!BeginStop("restart", want)
  BY <1>1 DEF Slot!BeginStop
<1>2. CASE Slot!Forks([kind |-> "restart", want |-> want], want)
  BY <1>2 DEF Slot!Forks, Slot!NoJob
<1>3. CASE Slot!ForkFails([kind |-> "restart", want |-> want])
  <2>1. phase' = "stopped" /\ call'.kind = "none"
    <3>1. PICK c : c = [kind |-> "restart", want |-> want]
      OBVIOUS
    <3>2. Slot!Answer(c, FALSE) /\ c.kind # "none" /\ phase' = "stopped"
      BY <1>3, <3>1 DEF Slot!ForkFails
    <3> QED BY <3>2, AnswerIs
  <2> QED BY <2>1 DEF Lost
<1> QED BY <1>1, <1>2, <1>3 DEF Slot!Restart, Slot!Refused, Slot!Joined, SlotShape

LEMMA FetchStops ==
  ASSUME SlotShape, job = Slot!NoJob, Slot!Stop
  PROVE  IF call'.kind = "none" THEN Lost' ELSE job'.fn = "stop" /\ ~job'.restart
<1>1. CASE Slot!BeginStop("stop", Slot!NoSnap)
  BY <1>1 DEF Slot!BeginStop
<1>2. CASE phase' = "stopped" /\ Slot!AnsweredNow("stop", Slot!NoSnap, TRUE)
  <2>1. PICK c : c = [kind |-> "stop", want |-> Slot!NoSnap]
    OBVIOUS
  <2>2. Slot!Answer(c, TRUE) /\ c.kind # "none"
    BY <1>2, <2>1 DEF Slot!AnsweredNow
  <2>3. call'.kind = "none"
    BY <2>2, AnswerIs
  <2> QED BY <1>2, <2>3 DEF Lost
<1> QED BY <1>1, <1>2 DEF Slot!Stop, Slot!Refused, Slot!Joined, SlotShape

\* A rollback or a cleanup has called the manager: there has been a fault.
LEMMA CalledBack ==
  ASSUME FaultInv, op.step \in {"undocall", "cleanup"}, op.kind \notin {"stop", "none"},
         NEW step \in {"undone", "cleaned"},
         op'.step = step, op'.kind = op.kind, op'.attempted = op.attempted,
         op'.running = op.running, op'.prior = op.prior, op'.prev = op.prev, op'.next = op.next,
         op'.broken = op.broken, op'.gen \in Nat,
         op'.cand \in Configurations \union {NoConfig},
         UNCHANGED <<document, locked, confirmedGeneration, confirmedSnapshot>>,
         Blame(ForkFailed) \/ UNCHANGED faults,
         NEW want, want.gen \in Nat,
         Slot!Start(want) \/ Slot!Restart(want) \/ Slot!Apply(want) \/ Slot!Stop,
         job = Slot!NoJob /\ faults <= 1 /\ op.kind \notin Special =>
           IF step = "undone"
           THEN IF call'.kind = "none" THEN Lost' ELSE Fetches'
           ELSE IF call'.kind = "none" THEN Lost' ELSE job'.fn = "stop" /\ ~job'.restart
  PROVE  FaultInv'
<1> USE DEF FaultInv
<1>1. SlotShape'
  BY StartCalls, StopCalls, ApplyCalls
<1>2. /\ call'.kind = "none" => job' = Slot!NoJob
      /\ job'.snap \in {job.snap, want, Slot!NoSnap} /\ confirmed' = confirmed
  BY CallsAnswer
<1>3. LockInv' /\ faults' >= faults /\ (Intact' => Intact)
  BY CallBlamed, Unblamed DEF LockInv
<1>4. FreeInv' /\ op.attempted
  BY <1>2 DEF FreeInv, Answered, BackInv
<1>5. UndoInv'
  <2>1. ASSUME faults' <= 1, op.kind \notin Special
        PROVE  faults <= 1 /\ job = Slot!NoJob
    BY <1>4, <2>1, <1>3 DEF UndoInv, LockInv
  <2> QED BY <1>3, <2>1 DEF UndoInv, Fetches, LockInv
<1> QED BY <1>1, <1>3, <1>4, <1>2, <1>5 DEF NumberInv, Slot!NoSnap, BackInv, Good, StepGood

LEMMA RollbackIsNew ==
  ASSUME NumberInv
  PROVE  RollbackGeneration \in Nat /\ RollbackGeneration > confirmed.gen
  BY DEF NumberInv, RollbackGeneration, Max2

LEMMA UndoCallFaultless ==
  ASSUME FaultInv, TransactionInv, UndoCall
  PROVE  FaultInv'
<1> USE DEF FaultInv
<1> DEFINE gen == RollbackGeneration
           want == Want(gen, op.prior)
<1>1. /\ op.step = "undocall" /\ op.kind # "activate" /\ Slot!Apply(want)
      /\ op' = [op EXCEPT !.gen = gen, !.cand = op.prior, !.step = "undone"]
      /\ UNCHANGED <<document, locked, confirmedGeneration, confirmedSnapshot>>
      /\ Blame(ForkFailed)
  BY DEF UndoCall, FallsBackTo, storeVars, factVars
<1>2. gen \in Nat /\ gen > confirmed.gen /\ confirmed.gen \in Nat
  BY RollbackIsNew DEF NumberInv
<1> HIDE DEF gen
<1>3. want.gen = gen
  BY DEF Want
<1> HIDE DEF want
<1>4. /\ op'.step = "undone" /\ op'.gen = gen /\ op'.cand = op.prior
      /\ op'.kind = op.kind /\ op'.attempted = op.attempted /\ op'.running = op.running
      /\ op'.prior = op.prior /\ op'.prev = op.prev /\ op'.next = op.next
      /\ op'.broken = op.broken
  BY <1>1 DEF TransactionInv, ShapeInv, IsOp
<1>5. op.kind \in Changing /\ op.kind \notin {"stop", "none"}
  BY <1>1 DEF TransactionInv, KindsInv, Changing, Hot
<1>6. op.prior # NoConfig /\ op.prior \in Configurations \union {NoConfig}
  BY <1>1, <1>5 DEF BackInv
<1>7. ASSUME job = Slot!NoJob
      PROVE  IF call'.kind = "none" THEN Lost' ELSE Fetches'
  BY <1>1, <1>2, <1>3, <1>4, <1>6, <1>7, FetchApplies DEF Fetches
<1> QED BY <1>1, <1>2, <1>3, <1>4, <1>5, <1>6, <1>7, CalledBack

LEMMA UndoActivationCallFaultless ==
  ASSUME FaultInv, TransactionInv, UndoActivationCall
  PROVE  FaultInv'
<1> USE DEF FaultInv
<1> DEFINE gen == RollbackGeneration
           want == Want(gen, confirmedSnapshot)
<1>1. /\ op.step = "undocall" /\ op.kind = "activate"
      /\ \/ confirmedSnapshot = NoConfig /\ Slot!Stop
         \/ confirmedSnapshot # NoConfig /\ (Slot!Apply(want) \/ Slot!Restart(want))
      /\ op' = [op EXCEPT !.gen = gen, !.cand = confirmedSnapshot, !.step = "undone"]
      /\ UNCHANGED <<document, locked, confirmedGeneration, confirmedSnapshot>>
      /\ Blame(ForkFailed)
  BY DEF UndoActivationCall, FallsBackTo, storeVars, factVars
<1>2. gen \in Nat /\ gen > confirmed.gen /\ confirmed.gen \in Nat
  BY RollbackIsNew DEF NumberInv
<1> HIDE DEF gen
<1>3. want.gen = gen
  BY DEF Want
<1> HIDE DEF want
<1>4. /\ op'.step = "undone" /\ op'.gen = gen /\ op'.cand = confirmedSnapshot
      /\ op'.kind = op.kind /\ op'.attempted = op.attempted /\ op'.running = op.running
      /\ op'.prior = op.prior /\ op'.prev = op.prev /\ op'.next = op.next
      /\ op'.broken = op.broken
  BY <1>1 DEF TransactionInv, ShapeInv, IsOp
<1>5. ASSUME job = Slot!NoJob
      PROVE  IF call'.kind = "none" THEN Lost' ELSE Fetches'
  <2>1. CASE Slot!Stop
    BY <1>5, <2>1, FetchStops DEF Fetches
  <2>2. CASE confirmedSnapshot # NoConfig /\ Slot!Apply(want)
    BY <1>2, <1>3, <1>4, <1>5, <2>2, FetchApplies DEF Fetches
  <2>3. CASE confirmedSnapshot # NoConfig /\ Slot!Restart(want)
    BY <1>2, <1>3, <1>4, <1>5, <2>3, FetchRestarts DEF Fetches
  <2> QED BY <1>1, <2>1, <2>2, <2>3
<1> QED BY <1>1, <1>2, <1>3, <1>4, <1>5, CalledBack DEF BackInv

LEMMA CleanupFaultless ==
  ASSUME FaultInv, TransactionInv, Cleanup
  PROVE  FaultInv'
<1> USE DEF FaultInv
<1>1. /\ op.step = "cleanup" /\ Slot!Stop /\ op.kind \notin {"stop", "none"}
      /\ op' = [op EXCEPT !.step = "cleaned"]
      /\ UNCHANGED <<document, locked, confirmedGeneration, confirmedSnapshot, faults>>
  BY DEF Cleanup, storeVars, factVars, TransactionInv, KindsInv
<1>2. /\ op'.step = "cleaned" /\ op'.gen = op.gen /\ op'.cand = op.cand
      /\ op'.kind = op.kind /\ op'.attempted = op.attempted /\ op'.running = op.running
      /\ op'.prior = op.prior /\ op'.prev = op.prev /\ op'.next = op.next
      /\ op'.broken = op.broken
  BY <1>1 DEF TransactionInv, ShapeInv, IsOp
<1>3. ASSUME job = Slot!NoJob
      PROVE  IF call'.kind = "none" THEN Lost' ELSE job'.fn = "stop" /\ ~job'.restart
  BY <1>1, <1>3, FetchStops
<1>4. PICK want : want = Want(op.gen, op.cand)
  OBVIOUS
<1> QED BY <1>1, <1>2, <1>3, <1>4, CalledBack DEF Want, NumberInv, BackInv

------------------------
(* Steps of the service *)

\* An operation that reports itself degraded after one fault.
Degraded == Ends({"degraded"}) /\ faults' <= 1 /\ op.kind \notin Special

Sound == FaultInv' /\ (Degraded => Lost)

LEMMA GoesOn ==
  ASSUME NEW step, step # "none", op'.step = step
  PROVE  ~Degraded
  BY NoOpHas DEF Degraded, Ends

LEMMA FinishesWell ==
  ASSUME NEW result, result # "degraded", Finish(result)
  PROVE  op' = NoOp /\ ~Degraded
  BY DEF Finish, Degraded, Ends

\* What the service finds when it did not wait for a call.
LEMMA RestFacts ==
  ASSUME FaultInv, Intact, op.step # "called"
  PROVE  /\ Good /\ recovery = "none" /\ Resting
         /\ op.step = "record" /\ op.kind = "mode" /\ op.attempted => confirmed.gen = op.gen
         /\ ~(op.step = "record" /\ op.kind = "mode" /\ op.attempted) =>
              confirmed.gen <= confirmedGeneration
         /\ faults = 0 /\ phase = "running" => confirmedSnapshot # NoConfig
         /\ faults = 0 /\ phase = "running" /\ op.step \notin {"fallback", "undo"} =>
              Served(document)
  BY AtRest DEF FaultInv, Good, GenGood, DocGood, NumberInv

\* An operation ends that has not called the Worker, or whose candidate is known to be confirmed.
LEMMA EndsKept ==
  ASSUME FaultInv, LockInv', Intact' => Intact, faults' >= faults, op' = NoOp,
         UNCHANGED <<slotVars, factVars>>, Closed(document'),
         op.step \notin {"called", "fallback", "undo"},
         ~(op.step = "record" /\ op.kind = "mode"),
         faults' = 0 /\ phase = "running" /\ Served(document) => Served(document')
  PROVE  FaultInv'
<1>1. faults' = 0 /\ phase = "running" => Served(document') /\ confirmedSnapshot # NoConfig
  BY RestFacts DEF FaultInv, LockInv, Intact
<1> QED BY <1>1, RestFacts, Ended DEF factVars, FaultInv, NumberInv, BackInv

LEMMA DocumentIs ==
  ASSUME TransactionInv
  PROVE  /\ document \in Document /\ op.prev \in Document /\ op.next \in Document /\ IsOp(op)
         /\ op.kind \in OperationKinds \union {"none"}
  BY OperationsAssumption DEF TransactionInv, ShapeInv

LEMMA SetCredentialSound ==
  ASSUME FaultInv, TransactionInv, NEW c \in Commits, SetCredential(c)
  PROVE  Sound
<1>1. /\ op.step = "set" /\ op.attempted = FALSE /\ Closed(document)
      /\ op.kind \in {"secret", "create"} /\ UNCHANGED <<document, locked, slotVars, factVars>>
      /\ confirmedGeneration \in Nat /\ confirmedSnapshot \in Configurations \union {NoConfig}
  BY DEF SetCredential, TransactionInv, KindsInv, FaultInv, BackInv, NumberInv
<1>2. LockInv' /\ faults' >= faults /\ (Intact' => Intact /\ c = "done")
  <2>1. PICK failed \in BOOLEAN : failed <=> c # "done"
    OBVIOUS
  <2> QED BY <1>1, <2>1, Blamed DEF FaultInv, SetCredential, Blame
<1>3. CASE c = "refused"
  BY <1>1, <1>2, <1>3, FinishesWell, EndsKept DEF Sound, SetCredential
<1>4. CASE c # "refused"
  <2> DEFINE step == IF op.kind = "secret" /\ op.id \notin op.next.tested THEN "reset" ELSE "commit"
  <2>1. op' = [op EXCEPT !.warned = (c = "warned"), !.step = step] /\ UNCHANGED endVars
    BY <1>4 DEF SetCredential
  <2>2. step \in {"reset", "commit"}
        /\ (step = "reset" => op.kind = "secret" /\ op.id \notin op.next.tested)
    OBVIOUS
  <2> HIDE DEF step
  <2>3. Goes(step) /\ op'.broken = op.broken
    BY <2>1 DEF TransactionInv, ShapeInv, IsOp, Goes, Same, endVars
  <2>4. op'.step = step /\ op'.kind = op.kind /\ op'.running = op.running /\ op'.next = op.next
        /\ op'.prev = op.prev /\ op'.attempted = FALSE /\ op'.gen = op.gen /\ op'.id = op.id
    BY <1>1, <2>3 DEF Goes, Same
  <2>5. ASSUME Intact'
        PROVE  recovery = "none" /\ Resting /\ StepGood' /\ GenGood' /\ PhaseGood' /\ DocGood'
    <3>1. Intact /\ Good /\ recovery = "none" /\ Resting
      BY <1>1, <1>2, <2>5, RestFacts
    <3>2. GenGood'
      BY <1>1, <2>2, <2>4, <3>1, SlotFixed DEF GenGood, WithFresh, Good, factVars, Gated, Hot
    <3>3. faults' = 0 => faults = 0
      BY <1>2 DEF FaultInv, LockInv
    <3>4. DocGood'
      BY <1>1, <2>2, <2>4, <3>1, <3>3, SlotFixed DEF DocGood, Good, factVars, Served, Hot, Starting
    <3> QED BY <3>1, <1>1, <2>2, <2>4, <3>2, <3>4, SlotFixed DEF StepGood, PhaseGood, Good
  <2> QED BY <2>2, <2>3, <1>1, <1>2, <2>5, Moved, GoesOn DEF Sound, Goes, Sent, factVars
<1> QED BY <1>3, <1>4

LEMMA AfterCommitIs ==
  ASSUME NEW doc, op.running \in BOOLEAN
  PROVE  /\ AfterCommit(doc) \in {"fallback", "build", "call", "forget", "record"}
         /\ AfterCommit(doc) = "fallback" => op.kind \in Hot /\ op.running /\ ~Served(doc)
         /\ AfterCommit(doc) = "build" =>
              op.running /\ ((op.kind \in Hot /\ Served(doc)) \/ op.kind = "weight")
         /\ AfterCommit(doc) = "call" =>
              (op.kind \in {"mode", "capture"} /\ op.running) \/ op.kind = "activate"
         /\ AfterCommit(doc) = "forget" => op.kind = "delete"
         /\ AfterCommit(doc) \in {"forget", "record"} =>
              op.kind # "activate" /\ (op.kind \in Changing => ~op.running)
<1>1. CASE op.kind \in Hot
  BY <1>1 DEF AfterCommit, AfterHot, NeedsFallback, Hot, Served
<1>2. CASE op.kind \in {"weight", "mode", "capture"}
  BY <1>2 DEF AfterCommit, AfterWeight, AfterMode, AfterCapture, Hot
<1>3. CASE op.kind = "activate"
  BY <1>3 DEF AfterCommit, AfterActivation, Hot
<1>4. CASE op.kind \notin Changing \union {"activate"}
  BY <1>4 DEF AfterCommit, Changing
<1> QED BY <1>1, <1>2, <1>3, <1>4 DEF Changing

\* The registry is written, and what was written is known.
LEMMA CommittedSound ==
  ASSUME FaultInv, TransactionInv, LockInv', op.step \in {"reset", "commit"},
         op.step = "reset" => op.kind = "secret",
         NEW doc, document' = doc, Closed(doc), UNCHANGED <<slotVars, factVars>>,
         faults' >= faults, Intact' => Intact /\ faults = 0,
         NEW warned,
         Proceed([op EXCEPT !.persisted = TRUE, !.warned = warned], AfterCommit(doc)),
         Intact /\ faults = 0 /\ (phase = "running" \/ op.kind = "activate") =>
           Served(doc) \/ (op.kind = "delete" /\ doc.tested = {})
  PROVE  Sound
<1> DEFINE step == AfterCommit(doc)
<1>1. /\ op.attempted = FALSE /\ op.running \in BOOLEAN
      /\ confirmedGeneration \in Nat /\ confirmedSnapshot \in Configurations \union {NoConfig}
      /\ confirmedGeneration' = confirmedGeneration /\ confirmedSnapshot' = confirmedSnapshot
      /\ op.step \notin {"called", "none"} /\ IsOp(op) /\ faults \in Nat /\ Closed(document')
      /\ step # "none"
  BY AfterCommitIs DEF FaultInv, BackInv, NumberInv, factVars, TransactionInv, ShapeInv, LockInv
<1>2. /\ step \in {"fallback", "build", "call", "forget", "record"}
      /\ step = "fallback" => op.kind \in Hot /\ op.running /\ ~Served(doc)
      /\ step = "build" =>
           op.running /\ ((op.kind \in Hot /\ Served(doc)) \/ op.kind = "weight")
      /\ step = "call" =>
           (op.kind \in {"mode", "capture"} /\ op.running) \/ op.kind = "activate"
      /\ step = "forget" => op.kind = "delete"
      /\ step \in {"forget", "record"} =>
           op.kind # "activate" /\ (op.kind \in Changing => ~op.running)
  BY <1>1, AfterCommitIs
<1>3. /\ Goes(step) \/ (step = "record" /\ Finish("committed"))
      /\ Moves([op EXCEPT !.persisted = TRUE, !.warned = warned], step) \/ op' = NoOp
  <2>1. IsOp([op EXCEPT !.persisted = TRUE, !.warned = warned])
    <3>1. ASSUME NEW o, o = [op EXCEPT !.persisted = TRUE, !.warned = warned]
          PROVE  IsOp(o)
      BY <1>1, <3>1 DEF IsOp
    <3> QED BY <3>1
  <2> HIDE DEF step
  <2> QED BY <1>1, <2>1, WarnedGoes, ProceedMoves DEF step
<1> HIDE DEF step
<1>4. ASSUME Intact'
      PROVE  /\ Intact /\ faults = 0 /\ Good /\ recovery = "none" /\ Resting
             /\ confirmed.gen <= confirmedGeneration
             /\ phase = "running" => confirmedSnapshot # NoConfig
             /\ op.kind \in Changing => (op.running <=> phase = "running")
  BY <1>4, RestFacts DEF Good, PhaseGood
<1>5. CASE Finish("committed") /\ step = "record"
  <2>1. faults' = 0 /\ phase = "running" => Served(document') /\ confirmedSnapshot # NoConfig
    BY <1>4, <1>2, <1>5 DEF Changing, Hot, Intact
  <2> QED BY <1>1, <1>4, <1>5, <2>1, FinishesWell, Ended DEF Sound
<1>6. CASE Goes(step)
  <2>1. /\ op'.step = step /\ op'.kind = op.kind /\ op'.running = op.running
        /\ op'.next = op.next /\ op'.prev = op.prev /\ op'.attempted = FALSE
        /\ op'.gen = op.gen /\ op'.id = op.id /\ op'.prior = op.prior /\ op'.cand = op.cand
    BY <1>1, <1>6 DEF Goes, Same
  <2>2. op'.broken = op.broken
    <3>1. [op EXCEPT !.persisted = TRUE, !.warned = warned].broken = op.broken
      BY <1>1 DEF IsOp
    <3> QED BY <1>3, <1>2, <2>1, <3>1, NoOpHas DEF Moves
  <2>3. ASSUME Intact'
        PROVE  recovery = "none" /\ Resting /\ StepGood' /\ GenGood' /\ PhaseGood' /\ DocGood'
    <3>1. phase = "running" => Served(doc) \/ (op.kind = "delete" /\ doc.tested = {})
      BY <1>4, <2>3
    <3>2. StepGood'
      BY <1>2, <2>1, <1>4, <2>3, <3>1 DEF StepGood, Changing, Hot
    <3>3. PhaseGood'
      BY <1>4, <2>1, <2>3, <1>2, SlotFixed DEF PhaseGood, Hot
    <3>4. GenGood'
      <4>1. WithFresh' => op.gen > confirmedGeneration
        BY <1>2, <2>1, <1>4, <2>3 DEF WithFresh, Good, GenGood, Gated, Hot
      <4> QED BY <1>1, <1>4, <2>1, <2>3, <4>1, SlotFixed DEF GenGood, Good
    <3>5. DocGood'
      <4>1. op.kind = "weight" /\ step = "build" => Served(doc) /\ op.prior # NoConfig
        <5> SUFFICES ASSUME op.kind = "weight", step = "build"
                     PROVE  Served(doc) /\ op.prior # NoConfig
          OBVIOUS
        <5> QED BY <1>4, <2>3, <3>1, <1>2 DEF Good, DocGood, Changing
      <4>2. op.kind \in Hot /\ op.running => Served(op.prev)
        BY <1>4, <2>3 DEF Good, DocGood
      <4>3. phase = "running" /\ step # "fallback" => Served(doc)
        <5>1. doc.tested = {} => ~Served(doc)
          BY DEF Served
        <5> QED BY <3>1, <1>2, <1>4, <2>3 DEF Changing, Hot
      <4>4. op.kind = "activate" => Served(doc)
        BY <1>4, <2>3
      <4>5. op.kind \in Starting => step \notin {"build", "call"}
        BY <1>2 DEF Starting, Hot
      <4>6. Served(document)' <=> Served(doc)
        BY DEF Served
      <4>7. step = "build" => op.kind \in Hot \union {"weight"}
        BY <1>2
      <4>8. /\ (op.kind \in Hot \union {"weight"} /\ step = "build" => Served(doc))
            /\ Served(op.prev)' <=> Served(op.prev)
        BY <1>2, <2>1, <4>1 DEF Served
      <4>9. step \notin {"set", "reset", "commit", "probe", "called", "undo"}
        BY <1>2
      <4> QED
        BY <1>1, <1>4, <2>1, <2>3, <4>1, <4>2, <4>3, <4>4, <4>5, <4>6, <4>7, <4>8, <4>9, SlotFixed
        DEF DocGood
    <3> QED BY <1>4, <2>3, <3>2, <3>3, <3>4, <3>5
  <2>4. op.kind \in {"mode", "activate"} /\ step = "call" => op.cand # NoConfig
    BY <1>2 DEF FaultInv, BackInv
  <2>5. FaultInv'
    BY <1>1, <1>2, <1>6, <2>2, <2>3, <2>4, Moved DEF Sent, Changing, Hot
  <2> QED BY <1>1, <2>1, <2>5, GoesOn DEF Sound
<1> QED BY <1>3, <1>5, <1>6

LEMMA ResetTestSound ==
  ASSUME FaultInv, TransactionInv, NEW c \in Commits, ResetTest(c)
  PROVE  Sound
<1> DEFINE doc == [document EXCEPT !.tested = @ \ {op.id}]
<1>1. /\ op.step = "reset" /\ op.kind = "secret" /\ Persist(doc, c) /\ op.attempted = FALSE
      /\ UNCHANGED <<slotVars, factVars>> /\ document = op.prev
      /\ confirmedGeneration' = confirmedGeneration /\ confirmedSnapshot' = confirmedSnapshot
      /\ confirmedGeneration \in Nat /\ confirmedSnapshot \in Configurations \union {NoConfig}
      /\ Closed(document) /\ IsOp(op)
  BY DEF ResetTest, TransactionInv, KindsInv, ShapeInv, DocumentInv, FaultInv, BackInv, NumberInv,
         factVars
<1>2. /\ doc.tested = document.tested \ {op.id} /\ doc.active = document.active
      /\ Closed(doc)
  BY <1>1, DocumentIs DEF Document, Closed
<1>3. Intact /\ phase = "running" =>
        (Served(document) => Served(doc)) /\ (faults = 0 => Served(document))
  BY <1>2, <1>1, RestFacts DEF Served, Good, DocGood, FaultInv
<1> HIDE DEF doc
<1>4. LockInv' /\ faults' >= faults /\ (Intact' => Intact)
  BY <1>1, Persisted DEF FaultInv
<1>5. CASE c = "warned"
  BY <1>1, <1>2, <1>3, <1>4, <1>5, Persisted, CommittedSound DEF ResetTest, doc, Intact,
     FaultInv
<1>6. ASSUME NEW step \in {"commit", "unset"}, Go(step), Closed(document'),
             faults' = 0 /\ Intact /\ phase = "running" /\ Served(document) => Served(document')
      PROVE  Sound
  <2>1. Goes(step)
    BY <1>1, <1>6, GoGoes
  <2>2. /\ op'.step = step /\ op'.kind = op.kind /\ op'.running = op.running
        /\ op'.next = op.next /\ op'.prev = op.prev /\ op'.attempted = FALSE
        /\ op'.gen = op.gen /\ op'.id = op.id /\ op'.prior = op.prior /\ op'.cand = op.cand
        /\ op'.broken = op.broken
    BY <1>1, <1>6, <2>1, GoMoves DEF Goes, Same, Moves
  <2>3. ASSUME Intact'
        PROVE  recovery = "none" /\ Resting /\ StepGood' /\ GenGood' /\ PhaseGood' /\ DocGood'
    <3>1. Intact /\ Good /\ recovery = "none" /\ Resting
      BY <1>1, <1>4, <2>3, RestFacts
    <3>2. faults' = 0 => faults = 0
      BY <1>4 DEF FaultInv, LockInv
    <3>3. DocGood'
      BY <1>1, <2>2, <3>1, <3>2, <1>6, RestFacts, SlotFixed DEF DocGood, Good, Hot, Starting,
         Served
    <3> QED
      BY <3>1, <1>1, <2>2, <3>3, SlotFixed DEF StepGood, PhaseGood, Good, GenGood, WithFresh,
         Gated, Hot
  <2> QED BY <2>2, <1>1, <1>4, <1>6, <2>1, <2>3, Moved, GoesOn DEF Sound, Sent
<1>7. CASE c = "done"
  BY <1>2, <1>3, <1>6, <1>1, <1>7, Persisted DEF FaultInv, ResetTest
<1>8. CASE c = "refused"
  BY <1>1, <1>6, <1>8, Persisted DEF FaultInv, ResetTest
<1> QED BY <1>5, <1>7, <1>8 DEF Commits

LEMMA CommitSound ==
  ASSUME FaultInv, TransactionInv, NEW c \in Commits, Commit(c)
  PROVE  Sound
<1>1. /\ op.step = "commit" /\ Persist(op.next, c) /\ op.attempted = FALSE
      /\ UNCHANGED <<slotVars, factVars>>
      /\ confirmedGeneration' = confirmedGeneration /\ confirmedSnapshot' = confirmedSnapshot
      /\ confirmedGeneration \in Nat /\ confirmedSnapshot \in Configurations \union {NoConfig}
      /\ Closed(document) /\ Closed(op.next) /\ IsOp(op)
  BY DEF Commit, TransactionInv, ShapeInv, FaultInv, BackInv, NumberInv, factVars
<1>2. LockInv' /\ faults' >= faults /\ (Intact' => Intact)
      /\ (c \in {"done", "warned"} => document' = op.next /\ ~locked)
      /\ (c = "refused" => document' = document /\ faults' >= 1)
      /\ (c = "warned" => faults' = faults + 1)
  BY <1>1, Persisted DEF FaultInv
<1>3. CASE ~(c = "refused" \/ NothingWritten(c))
  <2>1. PICK warned : Proceed([op EXCEPT !.persisted = TRUE, !.warned = warned],
                              AfterCommit(op.next))
    BY <1>3 DEF Commit
  <2> QED BY <1>1, <1>2, <2>1, <1>3, CommittedSound DEF FaultInv, Good, DocGood, Intact, Commits
<1>4. CASE c = "refused" \/ NothingWritten(c)
  <2>1. faults' >= 1 /\ faults' # 0 /\ Closed(document')
    BY <1>1, <1>2, <1>4 DEF NothingWritten, FaultInv, LockInv
  <2>2. CASE op.kind \notin {"secret", "create"}
    BY <1>1, <1>2, <2>1, <1>4, <2>2, FinishesWell, EndsKept DEF Sound, Commit
  <2>3. CASE op.kind \in {"secret", "create"}
    <3>1. Go("unset")
      BY <1>4, <2>3 DEF Commit
    <3>2. Goes("unset")
      BY <1>1, <3>1, GoGoes
    <3>3. /\ op'.step = "unset" /\ op'.kind = op.kind /\ op'.running = op.running
          /\ op'.next = op.next /\ op'.prev = op.prev /\ op'.attempted = FALSE
          /\ op'.gen = op.gen /\ op'.id = op.id /\ op'.prior = op.prior /\ op'.cand = op.cand
          /\ op'.broken = op.broken
      BY <1>1, <3>1, <3>2, GoMoves DEF Goes, Same, Moves
    <3>4. ASSUME Intact'
          PROVE  recovery = "none" /\ Resting /\ StepGood' /\ GenGood' /\ PhaseGood' /\ DocGood'
      <4>1. DocGood'
        BY <2>1, <2>3, <3>3 DEF DocGood
      <4> QED
        BY <1>1, <1>2, <3>4, <3>3, <4>1, RestFacts, SlotFixed DEF StepGood, PhaseGood, Good,
           GenGood, WithFresh
    <3> QED BY <3>3, <1>1, <1>2, <2>1, <3>2, <3>4, <2>3, Moved, GoesOn DEF Sound, Sent
  <2> QED BY <2>2, <2>3
<1> QED BY <1>3, <1>4

LEMMA FallbackSound ==
  ASSUME FaultInv, TransactionInv, NEW c \in Commits, Fallback(c)
  PROVE  Sound
<1>1. /\ op.step = "fallback" /\ op.kind \in Hot /\ op.attempted = FALSE
      /\ UNCHANGED <<slotVars, factVars>> /\ op.running
      /\ confirmedGeneration' = confirmedGeneration /\ confirmedSnapshot' = confirmedSnapshot
      /\ confirmedGeneration \in Nat /\ confirmedSnapshot \in Configurations \union {NoConfig}
      /\ Closed(document) /\ IsOp(op)
  BY DEF Fallback, TransactionInv, ShapeInv, KindsInv, FaultInv, BackInv, NumberInv, factVars,
         Changing
<1>2. PICK step \in {"undo", "build"} :
        /\ step = "undo" => Go("undo")
        /\ \/ \E warned : op' = [op EXCEPT !.step = step, !.warned = warned] /\ UNCHANGED endVars
           \/ Go(step)
        /\ \/ document.tested = {} /\ step = "undo" /\ UNCHANGED <<document, locked, faults>>
           \/ /\ document.tested # {}
              /\ \E id \in document.tested : Persist([document EXCEPT !.active = id], c)
  <2>1. CASE document.tested = {} /\ Go("undo") /\ UNCHANGED <<document, locked, faults>>
    BY <2>1
  <2>2. CASE \E id \in document.tested :
               /\ Persist([document EXCEPT !.active = id], c)
               /\ IF c = "refused" THEN Go("undo")
                  ELSE /\ op' = [op EXCEPT !.step = "build", !.warned = @ \/ c = "warned"]
                       /\ UNCHANGED endVars
    <3>1. document.tested # {}
      BY <2>2
    <3>2. CASE c = "refused"
      BY <2>2, <3>1, <3>2
    <3>3. CASE c # "refused"
      BY <2>2, <3>1, <3>3
    <3> QED BY <3>2, <3>3
  <2> QED BY <2>1, <2>2 DEF Fallback
<1>3. Goes(step) /\ op'.broken = op.broken
  <2>1. CASE Go(step)
    BY <1>1, <2>1, GoGoes, GoMoves DEF Moves
  <2>2. CASE \E warned : op' = [op EXCEPT !.step = step, !.warned = warned] /\ UNCHANGED endVars
    BY <1>1, <2>2 DEF IsOp, Goes, Same, endVars
  <2> QED BY <1>2, <2>1, <2>2
<1>4. /\ op'.step = step /\ op'.kind = op.kind /\ op'.running = op.running
      /\ op'.next = op.next /\ op'.prev = op.prev /\ op'.attempted = FALSE
      /\ op'.gen = op.gen /\ op'.id = op.id /\ op'.prior = op.prior /\ op'.cand = op.cand
  BY <1>1, <1>3 DEF Goes, Same
<1>5. LockInv' /\ faults' >= faults /\ (Intact' => Intact) /\ Closed(document')
  <2>1. CASE UNCHANGED <<document, locked, faults>>
    BY <1>1, <2>1, Unblamed DEF FaultInv, LockInv, Closed
  <2>2. CASE \E id \in document.tested : Persist([document EXCEPT !.active = id], c)
    <3>1. PICK id \in document.tested : Persist([document EXCEPT !.active = id], c)
      BY <2>2
    <3> QED BY <1>1, <3>1, DocumentIs, Persisted DEF FaultInv, Persist, Document, Closed
  <2> QED BY <1>2, <2>1, <2>2
<1>6. ASSUME Intact'
      PROVE  recovery = "none" /\ Resting /\ StepGood' /\ GenGood' /\ PhaseGood' /\ DocGood'
  <2>1. Intact /\ Good /\ recovery = "none" /\ Resting /\ confirmed.gen <= confirmedGeneration
        /\ (faults = 0 /\ phase = "running" => confirmedSnapshot # NoConfig)
    BY <1>1, <1>5, <1>6, RestFacts
  <2>2. document.tested = {} /\ op.kind = "delete" /\ step = "undo"
    BY <1>1, <1>2, <2>1 DEF Good, StepGood
  <2>3. DocGood'
    BY <1>1, <1>4, <2>1, <2>2, <1>5, SlotFixed DEF DocGood, Served, FaultInv, LockInv, Good,
       Starting
  <2> QED
    BY <2>1, <1>1, <1>4, <2>2, <2>3, SlotFixed DEF StepGood, PhaseGood, Good, GenGood,
       WithFresh, Gated
<1> QED BY <1>4, <1>1, <1>3, <1>5, <1>6, Moved, GoesOn DEF Sound, Sent, Hot

LEMMA ConfigIs ==
  ASSUME NEW doc \in Document, NEW id, NEW pool \in SUBSET Providers, secret \in BOOLEAN
  PROVE  Config(doc, id, pool) \in Configurations
<1> QED BY DEF Config, Configurations, Document

LEMMA BuildSound ==
  ASSUME NoConfig \notin Configurations, FaultInv, TransactionInv, Build
  PROVE  Sound
<1> DEFINE doc == IF op.persisted THEN document ELSE op.next
           step == IF op.kind \in {"activate", "mode"} THEN "commit" ELSE "call"
           gen == IF op.kind \in Hot \union {"weight"} THEN op.gen + 1 ELSE op.gen
<1>1. PICK pool \in SUBSET Servable :
        /\ Blame(pool # Servable)
        /\ op' = [op EXCEPT !.cand = Config(doc, Preferred, pool), !.gen = gen, !.step = step]
  BY DEF Build
<1>2. /\ op.step = "build" /\ op.attempted = FALSE /\ op.running \in BOOLEAN
      /\ op.kind = "weight" => op.prior # NoConfig
      /\ UNCHANGED <<document, locked, confirmedGeneration, confirmedSnapshot, slotVars>>
      /\ IsOp(op) /\ op.gen \in Nat /\ confirmedGeneration \in Nat
      /\ op.kind \in Changing => op.running
      /\ op.kind \in Hot \union {"activate", "weight", "mode", "capture", "start", "restart"}
  BY DEF Build, MayBuild, TransactionInv, ShapeInv, KindsInv, FaultInv, BackInv, NumberInv,
         storeVars, factVars, Hot
<1>3. Config(doc, Preferred, pool) \in Configurations
  <2>1. doc \in Document /\ secret \in BOOLEAN
    BY DocumentIs DEF TransactionInv, ShapeInv
  <2> HIDE DEF doc
  <2> QED BY <1>1, <2>1, DocumentIs, ConfigIs DEF Servable, Document
<1> HIDE DEF doc
<1>4. /\ op'.step = step /\ op'.gen = gen /\ op'.cand \in Configurations
      /\ op'.kind = op.kind /\ op'.running = op.running
      /\ op'.next = op.next /\ op'.prev = op.prev /\ op'.attempted = FALSE
      /\ op'.id = op.id /\ op'.prior = op.prior /\ op'.broken = op.broken
  <2> HIDE DEF step, gen
  <2> QED BY <1>1, <1>2, <1>3 DEF IsOp
<1>5. LockInv' /\ faults' >= faults /\ (Intact' => Intact)
  <2>1. PICK failed \in BOOLEAN : failed <=> pool # Servable
    OBVIOUS
  <2> QED BY <1>2, <1>1, <2>1, Blamed DEF FaultInv, Blame
<1>6. /\ step \in {"commit", "call"} /\ (step = "commit" <=> op.kind \in {"activate", "mode"})
      /\ gen \in Nat
      /\ gen = IF op.kind \in Hot \union {"weight"} THEN op.gen + 1 ELSE op.gen
  BY <1>2
<1> HIDE DEF step, gen
<1>7. UndoInv'
  BY <1>4, <1>6, <1>5 DEF UndoInv, FaultInv, LockInv
<1>8. ASSUME Intact'
       PROVE  Good'
  <2>1. /\ Intact /\ Good /\ recovery = "none" /\ Resting /\ confirmed.gen <= confirmedGeneration
        /\ faults = 0 /\ phase = "running" => confirmedSnapshot # NoConfig /\ Served(document)
    BY <1>2, <1>5, <1>8, RestFacts
  <2>2. GenGood'
    BY <1>2, <1>4, <1>6, <2>1, SlotFixed DEF GenGood, Hot, Good, WithFresh, Gated, StepGood,
       Changing
  <2>3. DocGood'
    BY <1>2, <1>4, <1>6, <2>1, <1>5, SlotFixed DEF DocGood, Hot, Good, Served, FaultInv, LockInv
  <2> QED
    BY <1>2, <1>4, <1>6, <2>1, <2>2, <2>3, SlotFixed DEF Good, StepGood, PhaseGood, SlotGood
<1>9. FaultInv'
  BY <1>5, <1>2, <1>4, <1>6, <1>7, <1>8, SlotFixed DEF FaultInv, FreeInv, Answered, NumberInv,
     BackInv
<1> QED BY <1>4, <1>6, <1>9, GoesOn DEF Sound

LEMMA BuildFailsSound ==
  ASSUME FaultInv, TransactionInv, BuildFails
  PROVE  Sound
<1>1. /\ op.step = "build" /\ op.attempted = FALSE /\ op.running \in BOOLEAN
      /\ UNCHANGED <<document, locked, confirmedGeneration, confirmedSnapshot, slotVars, factVars>>
      /\ IsOp(op) /\ Closed(document) /\ confirmedGeneration \in Nat
      /\ confirmedSnapshot \in Configurations \union {NoConfig}
      /\ op.kind \in Hot \union {"activate", "weight", "mode", "capture", "start", "restart"}
      /\ op.persisted => op.kind \notin Gated
  BY DEF BuildFails, TransactionInv, ShapeInv, KindsInv, FaultInv, BackInv, NumberInv,
         storeVars, factVars, Hot, Gated
<1>2. PICK failed \in BOOLEAN : failed <=> (MayBuild /\ Servable # {})
  OBVIOUS
<1>3. LockInv' /\ faults' >= faults /\ (Intact' => Intact /\ ~failed)
  BY <1>1, <1>2, Blamed DEF FaultInv, BuildFails, Blame
<1>4. CASE op.persisted
  <2>1. Go("undo") /\ Goes("undo")
    BY <1>1, <1>4, GoGoes DEF BuildFails
  <2>2. ~Intact'
    <3> SUFFICES ASSUME Intact' PROVE FALSE
      OBVIOUS
    <3>1. Served(document) /\ (op.kind = "weight" => op.prior # NoConfig)
      BY <1>1, <1>3, <1>4, RestFacts DEF Good, DocGood, StepGood, TransactionInv, KindsInv
    <3> QED
      BY <1>2, <1>3, <1>1, <1>4, <3>1 DEF MayBuild, Preferred, Servable, Served, Closed,
         TransactionInv, CredentialsInv
  <2> QED BY <1>1, <2>1, <1>3, <2>2, GoMoves, Moved, GoesOn DEF Sound, Sent, Moves
<1>5. CASE ~op.persisted
  BY <1>1, <1>3, <1>5, FinishesWell, EndsKept DEF Sound, BuildFails
<1> QED BY <1>4, <1>5

\* The manager has answered as it was asked, or there has been a fault.
LEMMA AnsweredFacts ==
  ASSUME FaultInv, Answered, op.step = "called"
  PROVE  /\ op.attempted = TRUE
         /\ (op.kind \in Changing => op.running)
         /\ job = Slot!NoJob
         /\ (op.kind # "stop" => op.cand # NoConfig)
         /\ Intact => /\ recovery = "none" /\ Resting /\ Good
                      /\ (op.kind = "stop" =>
                            phase = "stopped" /\ confirmed.gen <= confirmedGeneration)
                      /\ (op.kind # "stop" =>
                            IsConfirmed(op.gen) /\ confirmed.gen = op.gen /\ phase = "running")
<1>1. ASSUME Intact
      PROVE  recovery = "none" /\ Resting /\ Good /\ Landed
  BY <1>1, HasLanded DEF FaultInv
<1>2. ASSUME Intact
      PROVE  op.kind = "stop" => phase = "stopped" /\ confirmed.gen <= confirmedGeneration
  BY <1>1, <1>2 DEF Landed, Good, GenGood
<1>3. ASSUME Intact
      PROVE  op.kind # "stop" =>
               IsConfirmed(op.gen) /\ confirmed.gen = op.gen /\ phase = "running"
  BY <1>1, <1>3 DEF Landed, Candidate, Want
<1> QED BY <1>1, <1>2, <1>3 DEF FaultInv, BackInv, FreeInv

LEMMA WorkerConfirmsSound ==
  ASSUME FaultInv, TransactionInv, WorkerConfirms
  PROVE  Sound
<1> DEFINE step == IF op.kind = "delete" THEN "forget" ELSE "record"
<1>1. /\ Answered /\ op.step = "called" /\ op.kind \notin {"stop", "mode"}
      /\ confirmedGeneration' = op.gen /\ confirmedSnapshot' = op.cand
      /\ Proceed(op, step) /\ UNCHANGED <<document, locked, faults, slotVars>>
      /\ IsOp(op) /\ op.gen \in Nat /\ op.cand \in Configurations \union {NoConfig}
      /\ Closed(document) /\ op.kind # "none"
  BY DEF WorkerConfirms, Confirm, storeVars, FaultInv, NumberInv, BackInv, TransactionInv,
         ShapeInv, KindsInv
<1>2. /\ op.attempted = TRUE
      /\ (op.kind \in Changing => op.running)
      /\ op.cand # NoConfig
      /\ Intact => recovery = "none" /\ Resting /\ Good /\ confirmed.gen = op.gen
                   /\ phase = "running"
  BY <1>1, AnsweredFacts
<1>3. LockInv' /\ (Intact' <=> Intact) /\ faults' >= faults /\ faults \in Nat
  BY <1>1, Unblamed DEF FaultInv, LockInv
<1>4. step \in {"forget", "record"}
  OBVIOUS
<1> HIDE DEF step
<1>5. faults = 0 => Served(document)
  BY <1>1, <1>2 DEF Good, DocGood, Intact
<1>6. CASE Finish("committed")
  BY <1>1, <1>3, <1>6, <1>2, <1>5, FinishesWell, Ended DEF Sound
<1>7. CASE Goes(step) /\ ~Finish("committed")
  <2>1. op'.broken = op.broken
    BY <1>1, <1>4, <1>7, ProceedMoves, NoOpHas DEF Moves, Goes
  <2>2. /\ op'.step = step /\ op'.kind = op.kind /\ op'.running = op.running
        /\ op'.next = op.next /\ op'.prev = op.prev /\ op'.attempted = TRUE
        /\ op'.gen = op.gen /\ op'.id = op.id /\ op'.prior = op.prior /\ op'.cand = op.cand
    BY <1>2, <1>7 DEF Goes, Same
  <2>3. ASSUME Intact'
        PROVE  recovery = "none" /\ Resting /\ StepGood' /\ GenGood' /\ PhaseGood' /\ DocGood'
    <3>1. Intact
      BY <1>3, <2>3
    <3>2. DocGood'
      BY <1>1, <1>2, <1>4, <1>5, <2>2, <3>1 DEF DocGood, Served, Good
    <3> QED
      BY <1>2, <3>1, <1>1, <1>4, <2>2, <3>2, SlotFixed DEF StepGood, PhaseGood, GenGood,
         WithFresh
  <2> QED BY <2>2, <1>1, <1>4, <1>2, <1>3, <1>7, <2>1, <2>3, Moved, GoesOn DEF Sound, Sent
<1> QED BY <1>1, <1>6, <1>7, ProceedGoes

LEMMA ModeConfirmedSound ==
  ASSUME FaultInv, TransactionInv, ModeConfirmed
  PROVE  Sound
<1>1. /\ Answered /\ op.step = "called" /\ op.kind = "mode"
      /\ UNCHANGED <<confirmedGeneration, confirmedSnapshot, factVars>>
      /\ Proceed(op, "record") /\ UNCHANGED <<document, locked, faults, slotVars>>
      /\ IsOp(op) /\ op.gen \in Nat /\ op.cand \in Configurations \union {NoConfig}
      /\ Closed(document) /\ confirmedGeneration \in Nat
      /\ confirmedSnapshot \in Configurations \union {NoConfig}
  BY DEF ModeConfirmed, storeVars, factVars, FaultInv, NumberInv, BackInv, TransactionInv, ShapeInv
<1>2. /\ op.attempted = TRUE /\ op.running /\ op.cand # NoConfig
      /\ Intact => recovery = "none" /\ Resting /\ Good /\ confirmed.gen = op.gen
                   /\ phase = "running"
  BY <1>1, AnsweredFacts DEF Changing
<1>3. LockInv' /\ (Intact' <=> Intact) /\ faults' >= faults /\ faults \in Nat
  BY <1>1, Unblamed DEF FaultInv, LockInv
<1>4. Goes("record") /\ op'.broken = op.broken
  BY <1>1 DEF IsOp, Goes, Same, endVars, Proceed, EndsWarned
<1>5. /\ op'.step = "record" /\ op'.kind = op.kind /\ op'.running = op.running
      /\ op'.next = op.next /\ op'.prev = op.prev /\ op'.attempted = TRUE
      /\ op'.gen = op.gen /\ op'.id = op.id /\ op'.prior = op.prior /\ op'.cand = op.cand
  BY <1>2, <1>4 DEF Goes, Same
<1>6. ASSUME Intact'
      PROVE  recovery = "none" /\ Resting /\ StepGood' /\ GenGood' /\ PhaseGood' /\ DocGood'
  <2>1. Intact
    BY <1>3, <1>6
  <2>2. DocGood'
    BY <1>1, <1>5, <1>2, <2>1 DEF DocGood, Good, Served, Hot
  <2> QED BY <1>2, <2>1, <1>1, <1>5, <2>2, SlotFixed DEF StepGood, PhaseGood, GenGood, WithFresh
<1> QED BY <1>5, <1>1, <1>2, <1>3, <1>4, <1>6, Moved, GoesOn DEF Sound, Sent

LEMMA WorkerRefusesSound ==
  ASSUME FaultInv, TransactionInv, WorkerRefuses
  PROVE  Sound
<1> DEFINE step == IF op.kind \in {"start", "restart"} THEN "cleanup" ELSE "undo"
<1>1. /\ Answered /\ op.step = "called" /\ op.kind # "stop" /\ ~IsConfirmed(op.gen)
      /\ UNCHANGED <<confirmedGeneration, confirmedSnapshot>>
      /\ Go(step) /\ UNCHANGED <<document, locked, faults, slotVars>>
      /\ IsOp(op) /\ Closed(document) /\ confirmedGeneration \in Nat
      /\ confirmedSnapshot \in Configurations \union {NoConfig}
  BY DEF WorkerRefuses, storeVars, factVars, FaultInv, NumberInv, BackInv, TransactionInv, ShapeInv
<1>2. step \in {"cleanup", "undo"}
  OBVIOUS
<1> HIDE DEF step
<1>3. op.attempted = TRUE /\ ~Intact /\ job = Slot!NoJob
  BY <1>1, AnsweredFacts
<1>4. Goes(step) /\ op'.broken = op.broken /\ op'.step = step
  BY <1>1, GoGoes, GoMoves DEF Moves
<1> QED BY <1>4, <1>2, <1>1, <1>3, Unblamed, Moved, GoesOn DEF Sound, FaultInv, LockInv, Sent

LEMMA WorkerStoppedSound ==
  ASSUME FaultInv, TransactionInv, WorkerStopped
  PROVE  Sound
<1>1. /\ Answered /\ op.step = "called" /\ op.kind = "stop" /\ op.kind \notin Changing
      /\ UNCHANGED <<confirmedGeneration, confirmedSnapshot>>
      /\ (Go("record") \/ Finish("failed")) /\ UNCHANGED <<document, locked, faults, slotVars>>
      /\ IsOp(op) /\ Closed(document) /\ confirmedGeneration \in Nat
      /\ confirmedSnapshot \in Configurations \union {NoConfig}
  BY DEF WorkerStopped, storeVars, factVars, FaultInv, NumberInv, BackInv, TransactionInv,
         ShapeInv, Changing, Hot
<1>2. /\ op.attempted = TRUE
      /\ Intact => recovery = "none" /\ Resting /\ Good /\ phase = "stopped"
                   /\ confirmed.gen <= confirmedGeneration
  BY <1>1, AnsweredFacts
<1>3. LockInv' /\ (Intact' <=> Intact) /\ faults' >= faults /\ (faults = 0 => Intact)
  BY <1>1, Unblamed DEF FaultInv, LockInv, Intact
<1>4. CASE Finish("failed")
  BY <1>4, <1>1, <1>2, <1>3, FinishesWell, Ended DEF Sound
<1>5. CASE Go("record")
  <2>1. Goes("record") /\ op'.broken = op.broken
    BY <1>1, <1>5, GoGoes, GoMoves DEF Moves
  <2>2. /\ op'.step = "record" /\ op'.kind = op.kind /\ op'.attempted = TRUE
    BY <1>2, <2>1 DEF Goes, Same
  <2>3. ASSUME Intact'
        PROVE  recovery = "none" /\ Resting /\ StepGood' /\ GenGood' /\ PhaseGood' /\ DocGood'
    <3>1. Intact
      BY <1>3, <2>3
    <3>2. DocGood'
      BY <1>1, <1>2, <2>2, <3>1, SlotFixed DEF DocGood, Hot
    <3> QED
      BY <1>2, <3>1, <1>1, <2>2, <3>2, SlotFixed DEF StepGood, PhaseGood, GenGood, WithFresh
  <2> QED BY <2>2, <1>1, <1>2, <1>3, <2>1, <2>3, Moved, GoesOn DEF Sound, Sent
<1> QED BY <1>1, <1>4, <1>5

\* The entry of the log, or what leads to it, or what selects a provider after it.
LEMMA GoesOnWell ==
  ASSUME FaultInv, LockInv', Intact' => Intact, faults' >= faults,
         op.step \notin {"none", "called", "fallback", "undo"},
         NEW step \in {"record", "select", "selected"}, Goes(step), op'.broken = op.broken,
         UNCHANGED <<slotVars, factVars>>, Closed(document'), op.kind # "mode",
         step # "record" => op.kind = "test", step = "selected" => ~locked',
         faults' = 0 /\ phase = "running" /\ Served(document) => Served(document')
  PROVE  Sound
<1>1. /\ op'.step = step /\ op'.kind = op.kind /\ op'.running = op.running
      /\ op'.prev = op.prev /\ op'.attempted = op.attempted
      /\ confirmedGeneration' = confirmedGeneration /\ confirmedSnapshot' = confirmedSnapshot
      /\ confirmedGeneration \in Nat /\ confirmedSnapshot \in Configurations \union {NoConfig}
      /\ op.attempted => step = "record"
  BY DEF Goes, Same, factVars, FaultInv, NumberInv, BackInv
<1>2. ASSUME Intact'
      PROVE  recovery = "none" /\ Resting /\ StepGood' /\ GenGood' /\ PhaseGood' /\ DocGood'
  <2>1. Intact /\ Good /\ recovery = "none" /\ Resting /\ confirmed.gen <= confirmedGeneration
        /\ (faults = 0 /\ phase = "running" => confirmedSnapshot # NoConfig /\ Served(document))
    BY <1>2, RestFacts
  <2>2. DocGood'
    BY <1>1, <2>1, SlotFixed DEF DocGood, Served, FaultInv, LockInv, Good
  <2> QED BY <2>1, <1>1, <2>2, SlotFixed DEF StepGood, PhaseGood, Good, GenGood, WithFresh
<1> QED BY <1>1, <1>2, Moved, GoesOn DEF Sound, Sent

LEMMA ForgetCredentialSound ==
  ASSUME FaultInv, TransactionInv, NEW done \in BOOLEAN, ForgetCredential(done)
  PROVE  Sound
<1>1. /\ op.step = "forget" /\ op.kind = "delete" /\ IsOp(op) /\ Closed(document)
      /\ UNCHANGED <<document, locked, factVars, slotVars>>
  BY DEF ForgetCredential, TransactionInv, ShapeInv, KindsInv, FaultInv, BackInv
<1>2. LockInv' /\ faults' >= faults /\ (Intact' => Intact)
  <2>1. PICK failed \in BOOLEAN : failed <=> ~done
    OBVIOUS
  <2> QED BY <1>1, <2>1, Blamed DEF FaultInv, ForgetCredential, Blame
<1>3. Finish("committed") \/ (Goes("record") /\ op'.broken = op.broken)
  <2>1. PICK warned : Proceed([op EXCEPT !.warned = warned], "record")
    BY DEF ForgetCredential
  <2>2. PICK o : o = [op EXCEPT !.warned = warned]
    OBVIOUS
  <2>3. /\ IsOp(o) /\ o.kind = op.kind /\ o.id = op.id /\ o.prev = op.prev
        /\ o.next = op.next /\ o.running = op.running /\ o.prior = op.prior
        /\ o.attempted = op.attempted /\ o.gen = op.gen /\ o.cand = op.cand
        /\ o.broken = op.broken
    BY <1>1, <2>2 DEF IsOp
  <2> QED BY <2>3, <2>1, <2>2, ProceedGoes, ProceedMoves, NoOpHas DEF Goes, Moves
<1>4. CASE Finish("committed")
  BY <1>4, <1>1, <1>2, FinishesWell, EndsKept DEF Sound
<1>5. CASE Goes("record") /\ op'.broken = op.broken
  BY <1>1, <1>2, <1>5, GoesOnWell
<1> QED BY <1>3, <1>4, <1>5

LEMMA RecordedSound ==
  ASSUME FaultInv, TransactionInv, Recorded
  PROVE  Sound
<1>1. /\ op.step = "record" /\ op.kind # "mode" /\ IsOp(op) /\ Closed(document)
      /\ UNCHANGED <<document, locked, faults, factVars, slotVars>>
  BY DEF Recorded, storeVars, TransactionInv, ShapeInv, FaultInv, BackInv
<1>2. LockInv' /\ faults' >= faults /\ (Intact' => Intact)
  BY <1>1, Unblamed DEF FaultInv, LockInv
<1>3. CASE op.kind = "test" /\ Go("select")
  BY <1>1, <1>2, <1>3, GoGoes, GoMoves, GoesOnWell DEF Moves
<1>4. CASE Finish("committed") \/ Finish("ok")
  BY <1>4, <1>1, <1>2, FinishesWell, EndsKept DEF Sound
<1> QED BY <1>3, <1>4 DEF Recorded

LEMMA ModeRecordedSound ==
  ASSUME FaultInv, TransactionInv, ModeRecorded
  PROVE  Sound
<1>1. /\ op.step = "record" /\ op.kind = "mode" /\ Closed(document)
      /\ UNCHANGED <<document, locked, faults, slotVars>>
      /\ op.gen \in Nat /\ confirmedGeneration \in Nat
      /\ confirmedSnapshot \in Configurations \union {NoConfig}
      /\ op.cand \in Configurations \union {NoConfig}
      /\ op.attempted \in BOOLEAN /\ (op.attempted => op.cand # NoConfig)
      /\ Finish("committed") \/ Finish("ok")
  BY DEF ModeRecorded, storeVars, FaultInv, NumberInv, BackInv
<1>2. IF op.attempted THEN confirmedGeneration' = op.gen /\ confirmedSnapshot' = op.cand
      ELSE UNCHANGED <<confirmedGeneration, confirmedSnapshot>>
  BY DEF ModeRecorded, Confirm, factVars
<1>3. ASSUME Intact
      PROVE  /\ recovery = "none" /\ Resting /\ confirmed.gen <= confirmedGeneration'
             /\ (faults = 0 /\ phase = "running" =>
                  Served(document) /\ confirmedSnapshot' # NoConfig)
  BY <1>1, <1>2, <1>3, RestFacts
<1> QED BY <1>1, <1>2, <1>3, FinishesWell, Unblamed, Ended DEF Sound, FaultInv, LockInv, Intact

LEMMA RecordFailsSound ==
  ASSUME FaultInv, TransactionInv, RecordFails
  PROVE  Sound
<1>1. /\ op.step = "record" /\ Blame(TRUE) /\ IsOp(op) /\ Closed(document)
      /\ UNCHANGED <<document, locked, confirmedGeneration, confirmedSnapshot, slotVars>>
      /\ confirmedGeneration \in Nat /\ confirmedSnapshot \in Configurations \union {NoConfig}
  BY DEF RecordFails, storeVars, factVars, TransactionInv, ShapeInv, FaultInv, NumberInv, BackInv
<1>2. LockInv' /\ faults' = faults + 1 /\ faults \in Nat /\ ~Intact'
  BY <1>1, Blamed DEF FaultInv, LockInv
<1>3. faults' <= 1 => job = Slot!NoJob
  BY <1>1, <1>2, RestFacts DEF Resting, Intact
<1>4. CASE \/ Go("undo")
           \/ Go("cleanup") /\ op.attempted
  <2>1. PICK step \in {"undo", "cleanup"} : Go(step) /\ (step = "cleanup" => op.attempted)
    BY <1>4
  <2> QED BY <1>1, <2>1, <1>2, <1>3, GoGoes, GoMoves, Moved, GoesOn DEF Sound, Moves, Sent
<1>5. CASE \E result : result # "degraded" /\ Finish(result)
  BY <1>5, <1>1, <1>2, FinishesWell, Ended DEF Sound
<1> QED BY <1>4, <1>5 DEF RecordFails

LEMMA ProbedSound ==
  ASSUME FaultInv, TransactionInv, NEW c \in Commits, NEW passed \in BOOLEAN,
         Probed(passed, c)
  PROVE  Sound
<1> DEFINE tested == IF passed THEN document.tested \union {op.id}
                     ELSE document.tested \ {op.id}
           new == [document EXCEPT !.tested = tested]
<1>1. /\ op.step = "probe" /\ op.kind = "test" /\ IsOp(op) /\ Closed(document)
      /\ UNCHANGED <<factVars, slotVars>> /\ op.id \in document.providers
      /\ document \in Document
  BY DEF Probed, TransactionInv, ShapeInv, KindsInv, FaultInv, BackInv
<1>2. \/ UNCHANGED <<document, locked, faults>>
      \/ Persist(new, c) /\ ~(op.running /\ ~passed)
  BY DEF Probed
<1>3. /\ new.tested = tested /\ new.providers = document.providers
      /\ new.active = document.active
  BY <1>1 DEF Document
<1>4. tested \subseteq document.providers
  BY <1>1 DEF Closed
<1>5. document' = document \/ (document' = new /\ ~(op.running /\ ~passed))
  BY <1>2 DEF Persist
<1>6. LockInv' /\ faults' >= faults /\ (Intact' => Intact)
  <2>1. CASE UNCHANGED <<document, locked, faults>>
    BY <2>1, Unblamed DEF FaultInv, LockInv
  <2>2. CASE Persist(new, c)
    <3> HIDE DEF new
    <3> QED BY <2>2, Persisted DEF FaultInv
  <2> QED BY <1>2, <2>1, <2>2
<1>7. Closed(document')
  BY <1>1, <1>3, <1>4, <1>5 DEF Closed
<1>8. faults' = 0 /\ phase = "running" /\ Served(document) => Served(document')
  <2> SUFFICES ASSUME faults' = 0, phase = "running", Served(document) PROVE Served(document')
    OBVIOUS
  <2>1. CASE document' = new /\ ~(op.running /\ ~passed)
    BY <1>3, <2>1, <1>1, <1>6, RestFacts DEF Served, Good, DocGood, FaultInv, LockInv, Intact
  <2> QED BY <1>5, <2>1
<1>9. (Goes("record") /\ op'.broken = op.broken) \/ Finish("committed") \/ Finish("failed")
  BY <1>1 DEF Goes, Same, IsOp, endVars, Probed, Commits
<1> HIDE DEF tested, new
<1>10. CASE Finish("committed") \/ Finish("failed")
  BY <1>10, <1>1, <1>6, <1>7, <1>8, FinishesWell, EndsKept DEF Sound
<1>11. CASE Goes("record") /\ op'.broken = op.broken
  BY <1>1, <1>6, <1>7, <1>8, <1>11, GoesOnWell
<1> QED BY <1>9, <1>10, <1>11

LEMMA SelectInitialSound ==
  ASSUME FaultInv, TransactionInv, NEW c \in Commits, SelectInitial(c)
  PROVE  Sound
<1> DEFINE new == [document EXCEPT !.active = op.id]
<1>1. /\ op.step = "select" /\ op.kind = "test" /\ IsOp(op) /\ Closed(document)
      /\ UNCHANGED <<factVars, slotVars>> /\ document \in Document
  BY DEF SelectInitial, TransactionInv, ShapeInv, KindsInv, FaultInv, BackInv
<1>2. Closed(new)
  BY <1>1 DEF Document, Closed
<1>3. \/ Finish("ok") /\ UNCHANGED <<document, locked, faults>>
      \/ /\ document.active = NoProvider /\ Persist(new, c)
         /\ (c = "done" /\ Go("selected")) \/ Finish("committed") \/ Finish("failed")
  BY DEF SelectInitial, Commits
<1> HIDE DEF new
<1>4. CASE UNCHANGED <<document, locked, faults>> /\ Finish("ok")
  BY <1>4, <1>1, FinishesWell, Unblamed, EndsKept DEF Sound, FaultInv, LockInv
<1>5. CASE document.active = NoProvider /\ Persist(new, c)
  <2>1. LockInv' /\ faults' >= faults /\ (Intact' => Intact) /\ (c = "done" => ~locked')
    BY <1>5, Persisted DEF FaultInv
  <2>2. Closed(document')
    BY <1>1, <1>2, <1>5 DEF Persist
  <2>3. ~Served(document)
    BY <1>1, <1>5, ProvidersAssumption DEF Served, Document
  <2>4. CASE c = "done" /\ Go("selected")
    BY <1>1, <2>1, <2>2, <2>3, <2>4, GoGoes, GoMoves, GoesOnWell DEF Moves
  <2>5. CASE Finish("committed") \/ Finish("failed")
    BY <2>5, <1>1, <2>1, <2>2, <2>3, FinishesWell, EndsKept DEF Sound
  <2>6. CASE Finish("ok") /\ UNCHANGED <<document, locked, faults>>
    BY <1>4, <2>6
  <2> QED BY <1>3, <2>4, <2>5, <2>6
<1> QED BY <1>3, <1>4, <1>5

LEMMA SelectionRecordedSound ==
  ASSUME FaultInv, TransactionInv, NEW done \in BOOLEAN, SelectionRecorded(done)
  PROVE  Sound
<1>1. /\ op.step = "selected" /\ op.kind = "test" /\ IsOp(op) /\ Closed(document)
      /\ UNCHANGED <<document, locked, confirmedGeneration, confirmedSnapshot, factVars, slotVars>>
      /\ ~locked /\ op.attempted = FALSE /\ confirmedGeneration \in Nat
      /\ confirmedSnapshot \in Configurations \union {NoConfig}
  BY DEF SelectionRecorded, storeVars, factVars, TransactionInv, ShapeInv, KindsInv, FaultInv,
         BackInv, UndoInv, NumberInv
<1>2. PICK failed \in BOOLEAN : failed <=> ~done
  OBVIOUS
<1>3. LockInv' /\ faults' >= faults /\ (Intact' => Intact /\ ~failed)
      /\ (failed => faults' = faults + 1) /\ faults \in Nat
  BY <1>1, <1>2, Blamed DEF FaultInv, LockInv, SelectionRecorded, Blame
<1>4. CASE done
  BY <1>4, <1>1, <1>3, FinishesWell, EndsKept DEF Sound, SelectionRecorded
<1>5. CASE ~done
  <2>1. Goes("clear") /\ op'.broken = op.broken /\ op'.step = "clear"
    BY <1>1, <1>5, GoGoes, GoMoves DEF Moves, SelectionRecorded
  <2> QED BY <2>1, <1>1, <1>3, <1>2, <1>5, Moved, GoesOn DEF Sound, Sent, Changing, Hot
<1> QED BY <1>4, <1>5

LEMMA ClearSelectionSound ==
  ASSUME FaultInv, TransactionInv, NEW c \in Commits, ClearSelection(c)
  PROVE  Sound
<1> DEFINE new == [document EXCEPT !.active = NoProvider]
<1>1. /\ op.step = "clear" /\ IsOp(op) /\ Closed(document) /\ document \in Document
      /\ UNCHANGED <<factVars, slotVars>> /\ Persist(new, c)
      /\ ~locked /\ faults >= 1 /\ ~Intact /\ faults \in Nat
      /\ Finish(IF c = "done" THEN "failed" ELSE "degraded")
  BY RestFacts DEF ClearSelection, TransactionInv, ShapeInv, FaultInv, BackInv, UndoInv, LockInv,
                   Good, StepGood
<1>2. Closed(new)
  BY <1>1 DEF Document, Closed
<1> HIDE DEF new
<1>3. LockInv' /\ faults' >= faults /\ (Intact' => Intact) /\ (c # "done" => faults' = faults + 1)
  BY <1>1, Persisted DEF FaultInv, Commits
<1>4. ~Degraded
  <2>1. CASE c = "done"
    BY <1>1, <2>1, FinishesWell
  <2>2. CASE c # "done"
    BY <1>1, <1>3, <2>2 DEF Degraded
  <2> QED BY <2>1, <2>2
<1> QED BY <1>4, <1>1, <1>3, <1>2, EndsKept DEF Sound, FaultInv, LockInv, Persist, Finish

\* What follows the rollback of the registry, or of the secret, or of the credential.
LEMMA UndoGoes ==
  ASSUME IsOp(op), NEW broken \in BOOLEAN, NEW step, UndoProceeds(broken, step)
  PROVE  \/ step = "none" /\ Undone(broken) /\ op' = NoOp
         \/ step # "none" /\ Goes(step) /\ op'.broken = broken
  BY UndoProceedsIs, UndoMoves DEF Undone, Finish

LEMMA UndoneEnds ==
  ASSUME NEW broken \in BOOLEAN, Undone(broken), faults' \in Nat,
         broken => faults' > 1 \/ op.kind \in Special \/ Lost
  PROVE  op' = NoOp /\ (Degraded => Lost)
<1>1. CASE broken
  BY <1>1 DEF Undone, Finish, Degraded
<1>2. CASE ~broken
  BY <1>2, FinishesWell DEF Undone
<1> QED BY <1>1, <1>2

LEMMA UndoneIsClosed ==
  ASSUME FaultInv, document \in Document
  PROVE  Closed(UndoneDocument)
<1> QED
  BY DEF Closed, UndoneDocument, UndoActivation, UndoWeight, UndoMode, UndoCapture, UndoDetails,
     UndoHot, Document, FaultInv, BackInv

LEMMA UndoSound ==
  ASSUME FaultInv, TransactionInv, NEW c \in Commits, Undo(c)
  PROVE  Sound
<1>1. /\ op.step = "undo" /\ op.persisted /\ IsOp(op) /\ Closed(document)
      /\ document \in Document /\ Persist(UndoneDocument, c)
      /\ UNCHANGED <<confirmedGeneration, confirmedSnapshot, slotVars>>
      /\ confirmedGeneration \in Nat /\ confirmedSnapshot \in Configurations \union {NoConfig}
      /\ faults \in Nat /\ op.attempted \in BOOLEAN
      /\ op.kind \in Hot \union {"activate", "weight", "mode", "capture"}
  BY DEF Undo, TransactionInv, ShapeInv, KindsInv, FaultInv, BackInv, NumberInv, LockInv, factVars
<1>2. PICK broken \in BOOLEAN : broken <=> c # "done"
  OBVIOUS
<1>3. UndoProceeds(broken, AfterUndo)
  BY <1>2 DEF Undo
<1>4. /\ LockInv' /\ faults' >= faults /\ faults' \in Nat /\ (Intact' => Intact)
      /\ (c = "done" => document' = UndoneDocument)
      /\ (c # "done" => faults' >= 1 /\ (~locked => faults' = faults + 1))
  BY <1>1, Persisted DEF FaultInv, LockInv, Commits
<1>5. Closed(document')
  BY <1>1, UndoneIsClosed DEF Persist
<1>6. ~Intact /\ broken => faults' > 1
  <2> SUFFICES ASSUME ~Intact, broken PROVE faults' > 1
    OBVIOUS
  <2>1. CASE locked
    BY <1>1, <1>4, <2>1 DEF Intact
  <2>2. CASE ~locked
    BY <1>1, <1>2, <1>4, <2>2 DEF Intact
  <2> QED BY <2>1, <2>2
<1>7. Intact => op.kind = "delete" /\ op.attempted = FALSE /\ Good /\ recovery = "none" /\ Resting
                /\ confirmed.gen <= confirmedGeneration
                /\ (faults = 0 /\ phase = "running" => confirmedSnapshot # NoConfig)
  BY <1>1, RestFacts DEF Good, StepGood
<1>8. /\ AfterUndo \in {"none", "restore", "rebuild", "undocall"}
      /\ (AfterUndo \in {"rebuild", "undocall"} => op.attempted)
      /\ (op.kind = "delete" /\ ~op.attempted => AfterUndo = "none")
  BY DEF AfterUndo
<1>9. CASE AfterUndo = "none"
  <2>1. op' = NoOp /\ (Degraded => Lost)
    BY <1>4, <1>6, <1>7, <1>1, <1>3, <1>9, UndoGoes, UndoneEnds DEF Special
  <2>2. faults' = 0 /\ phase = "running" => Served(document') /\ confirmedSnapshot' # NoConfig
    <3> SUFFICES ASSUME faults' = 0, phase = "running"
                 PROVE  Served(document') /\ confirmedSnapshot # NoConfig
      BY <1>1
    <3> QED
      BY <1>7, <1>1, <1>4 DEF Served, UndoneDocument, UndoHot, Good, DocGood, PhaseGood,
         Changing, Hot, Intact
  <2> QED BY <2>1, <1>1, <1>4, <1>5, <1>7, <2>2, Ended DEF Sound
<1>10. CASE AfterUndo # "none"
  <2>1. PICK step \in {"restore", "rebuild", "undocall"} : step = AfterUndo
    BY <1>8, <1>10
  <2>2. Goes(step) /\ op'.broken = broken /\ op'.step = step
        /\ (step \in {"rebuild", "undocall"} => op.attempted)
    BY <1>1, <1>3, <1>8, <2>1, UndoGoes DEF Goes
  <2>3. ~Intact /\ ~Intact'
    BY <1>4, <1>7, <1>8, <1>10
  <2>4. step \notin Sent \union {"none", "probe"}
    BY <2>1 DEF Sent
  <2>5. FaultInv'
    BY <1>1, <1>4, <1>5, <2>1, <2>2, <2>3, <1>6, <2>4, Moved DEF FaultInv, UndoInv
  <2> QED BY <2>2, <2>4, <2>5, GoesOn DEF Sound
<1> QED BY <1>9, <1>10

LEMMA RestoreSecretSound ==
  ASSUME FaultInv, TransactionInv, NEW c \in Commits, RestoreSecret(c)
  PROVE  Sound
<1> DEFINE step == IF op.attempted THEN "undocall" ELSE "none"
<1>1. /\ op.step = "restore" /\ op.kind = "secret" /\ IsOp(op) /\ Closed(document)
      /\ UNCHANGED <<document, locked, confirmedGeneration, confirmedSnapshot, slotVars>>
      /\ confirmedGeneration \in Nat /\ confirmedSnapshot \in Configurations \union {NoConfig}
      /\ ~Intact /\ op.kind \in Special /\ op.broken \in BOOLEAN
  BY RestFacts DEF RestoreSecret, TransactionInv, ShapeInv, KindsInv, FaultInv, BackInv,
                   NumberInv, factVars, Good, StepGood, Special
<1>2. PICK broken \in BOOLEAN : broken = (op.broken \/ c # "done")
  BY <1>1
<1>3. UndoProceeds(broken, step)
  BY <1>2 DEF RestoreSecret
<1>4. LockInv' /\ faults' >= faults /\ ~Intact' /\ faults' \in Nat
  <2>1. PICK failed \in BOOLEAN : failed <=> c # "done"
    OBVIOUS
  <2> QED BY <1>1, <2>1, Blamed DEF FaultInv, LockInv, RestoreSecret, Blame
<1>5. step \in {"none", "undocall"} /\ (step = "undocall" => op.attempted)
  OBVIOUS
<1> HIDE DEF step
<1>6. CASE step = "none"
  BY <1>1, <1>4, <1>3, <1>6, UndoGoes, UndoneEnds, Ended DEF Sound, Intact
<1>7. CASE step # "none"
  BY <1>1, <1>3, <1>5, <1>7, <1>4, UndoGoes, Moved, GoesOn DEF Sound, Sent, Goes
<1> QED BY <1>6, <1>7

LEMMA RebuildSound ==
  ASSUME NoConfig \notin Configurations, FaultInv, TransactionInv, Rebuild
  PROVE  Sound
<1>1. PICK pool \in SUBSET Servable :
        /\ Blame(pool # Servable)
        /\ op' = [op EXCEPT !.prior = Config(document, document.active, pool),
                            !.step = "undocall"]
  BY DEF Rebuild
<1>2. /\ op.step = "rebuild" /\ op.kind = "details" /\ IsOp(op) /\ op.attempted = TRUE
      /\ UNCHANGED <<document, locked, confirmedGeneration, confirmedSnapshot, slotVars>>
      /\ ~Intact /\ document \in Document /\ secret \in BOOLEAN
  BY RestFacts DEF Rebuild, TransactionInv, ShapeInv, KindsInv, FaultInv, BackInv,
                   storeVars, factVars, Good, StepGood
<1>3. PICK cfg : cfg = Config(document, document.active, pool)
  OBVIOUS
<1>4. cfg \in Configurations
  BY <1>2, <1>3, <1>1, ConfigIs DEF Servable, Document
<1>5. /\ op'.step = "undocall" /\ op'.kind = "details" /\ op'.prior = cfg
      /\ op'.attempted = TRUE /\ op'.running = op.running /\ op'.prev = op.prev
      /\ op'.next = op.next /\ op'.cand = op.cand /\ op'.gen = op.gen
  BY <1>2, <1>1, <1>3 DEF IsOp
<1>6. LockInv' /\ faults' >= faults /\ ~Intact'
  <2>1. PICK failed \in BOOLEAN : failed <=> pool # Servable
    OBVIOUS
  <2> QED BY <1>2, <1>1, <2>1, Blamed DEF FaultInv, Blame
<1>7. BackInv'
  BY <1>2, <1>4, <1>5 DEF FaultInv, BackInv
<1>8. FaultInv'
  BY <1>6, <1>2, <1>5, <1>7, SlotFixed DEF FaultInv, FreeInv, Answered, NumberInv, UndoInv,
     Special
<1> QED BY <1>5, <1>8, GoesOn DEF Sound

LEMMA RebuildFailsSound ==
  ASSUME FaultInv, TransactionInv, RebuildFails
  PROVE  Sound
<1>1. /\ op.step = "rebuild" /\ op.kind = "details" /\ Closed(document)
      /\ UNCHANGED <<document, locked, confirmedGeneration, confirmedSnapshot, slotVars>>
      /\ confirmedGeneration \in Nat /\ confirmedSnapshot \in Configurations \union {NoConfig}
      /\ ~Intact /\ op.kind \in Special /\ Undone(TRUE)
  BY RestFacts DEF RebuildFails, TransactionInv, KindsInv, FaultInv, BackInv, NumberInv,
                   storeVars, factVars, Good, StepGood, Special
<1>2. LockInv' /\ faults' >= faults /\ ~Intact' /\ faults' \in Nat
  <2>1. PICK failed \in BOOLEAN : failed <=> document.active \in Servable
    OBVIOUS
  <2> QED BY <1>1, <2>1, Blamed DEF FaultInv, LockInv, RebuildFails, Blame
<1> QED BY <1>1, <1>2, UndoneEnds, Ended DEF Sound, Intact

LEMMA UndoAnsweredSound ==
  ASSUME FaultInv, TransactionInv, UndoAnswered
  PROVE  Sound
<1>1. /\ op.step = "undone" /\ call.kind = "none" /\ op.broken \in BOOLEAN /\ Closed(document)
      /\ UNCHANGED <<document, locked, faults, slotVars>> /\ faults \in Nat
      /\ ~Intact /\ op.gen \in Nat /\ op.cand \in Configurations \union {NoConfig}
      /\ confirmedGeneration \in Nat /\ confirmedSnapshot \in Configurations \union {NoConfig}
  BY RestFacts DEF UndoAnswered, Answered, TransactionInv, ShapeInv, FaultInv, BackInv,
     NumberInv, storeVars, LockInv, Good, StepGood
<1>2. LockInv' /\ ~Intact' /\ faults' # 0 /\ faults' = faults
  BY <1>1, Unblamed DEF FaultInv, Intact
<1>3. PICK broken \in BOOLEAN :
        /\ Undone(broken)
        /\ IsConfirmed(op.gen) /\ op.cand # NoConfig => broken = op.broken
  <2>1. CASE op.cand = NoConfig
    <3>1. PICK broken \in BOOLEAN : broken <=> (op.broken \/ ~reply.ok \/ reply.phase # "stopped")
      OBVIOUS
    <3> QED BY <2>1, <3>1 DEF UndoAnswered, Undone
  <2>2. CASE op.cand # NoConfig /\ IsConfirmed(op.gen)
    BY <1>1, <2>2 DEF UndoAnswered
  <2>3. CASE op.cand # NoConfig /\ ~IsConfirmed(op.gen)
    BY <2>3 DEF UndoAnswered
  <2> QED BY <2>1, <2>2, <2>3
<1>4. broken => faults' > 1 \/ op.kind \in Special \/ Lost
  <2> SUFFICES ASSUME broken, ~(faults' > 1), op.kind \notin Special, ~Lost PROVE FALSE
    OBVIOUS
  <2>1. IsConfirmed(op.gen) /\ op.cand # NoConfig /\ ~op.broken
    BY <1>1, <1>2 DEF FaultInv, UndoInv
  <2> QED BY <1>3, <2>1
<1> QED BY <1>1, <1>2, <1>3, <1>4, UndoneEnds, Ended DEF Sound, UndoAnswered, Confirm, factVars

LEMMA CleanedUpSound ==
  ASSUME FaultInv, TransactionInv, CleanedUp
  PROVE  Sound
<1>1. /\ op.step = "cleaned" /\ call.kind = "none" /\ Closed(document)
      /\ UNCHANGED <<document, locked, faults, slotVars>> /\ faults \in Nat
      /\ UNCHANGED <<confirmedGeneration, confirmedSnapshot>>
      /\ confirmedGeneration \in Nat /\ confirmedSnapshot \in Configurations \union {NoConfig}
  BY DEF CleanedUp, Answered, FaultInv, BackInv, NumberInv, storeVars, factVars, LockInv
<1>2. LockInv' /\ ~Intact' /\ faults' # 0 /\ faults' = faults
  BY <1>1, RestFacts, Unblamed DEF FaultInv, Intact, CleanedUp, Good, StepGood
<1>3. PICK broken \in BOOLEAN : broken <=> ~reply.ok
  OBVIOUS
<1> QED BY <1>1, <1>2, <1>3, UndoneEnds, Ended DEF Sound, FaultInv, UndoInv, CleanedUp, Undone

LEMMA UndoCredentialSound ==
  ASSUME FaultInv, TransactionInv, NEW c \in Commits, UndoCredential(c)
  PROVE  Sound
<1>1. /\ op.step = "unset" /\ op.kind = "secret" /\ op.kind \in Special /\ IsOp(op)
      /\ UNCHANGED <<document, locked, confirmedGeneration, confirmedSnapshot>>
      /\ UNCHANGED <<factVars, slotVars>> /\ Closed(document)
      /\ confirmedGeneration \in Nat /\ confirmedSnapshot \in Configurations \union {NoConfig}
      /\ op.attempted = FALSE
  BY DEF UndoCredential, TransactionInv, ShapeInv, FaultInv, BackInv, NumberInv, factVars, Special
<1>2. PICK failed \in BOOLEAN : failed <=> c # "done"
  OBVIOUS
<1>3. LockInv' /\ faults' >= faults /\ faults' \in Nat /\ (Intact' => Intact)
      /\ (faults' = 0 => faults = 0)
  BY <1>1, <1>2, Blamed DEF FaultInv, LockInv, UndoCredential, Blame
<1>4. CASE Undone(c # "done")
  BY <1>1, <1>3, <1>2, <1>4, UndoneEnds, EndsKept DEF Sound, Undone
<1>5. CASE Go("unmark")
  <2>1. Goes("unmark") /\ op'.broken = op.broken
    BY <1>1, <1>5, GoGoes, GoMoves DEF Moves
  <2>2. /\ op'.step = "unmark" /\ op'.kind = op.kind /\ op'.running = op.running
        /\ op'.prev = op.prev /\ op'.attempted = FALSE
    BY <1>1, <2>1 DEF Goes, Same
  <2>3. ASSUME Intact'
        PROVE  recovery = "none" /\ Resting /\ StepGood' /\ GenGood' /\ PhaseGood' /\ DocGood'
    <3>1. /\ Intact /\ Good /\ recovery = "none" /\ Resting
          /\ confirmed.gen <= confirmedGeneration
          /\ (faults = 0 /\ phase = "running" => confirmedSnapshot # NoConfig /\ Served(document))
      BY <1>1, <1>3, <2>3, RestFacts
    <3>2. DocGood'
      BY <1>1, <1>3, <2>2, <3>1, SlotFixed DEF DocGood, Served, Good
    <3> QED
      BY <3>1, <1>1, <2>2, <3>2, SlotFixed DEF StepGood, PhaseGood, Good, GenGood, WithFresh
  <2> QED BY <2>2, <1>1, <1>3, <2>1, <2>3, Moved, GoesOn DEF Sound, Sent
<1> QED BY <1>4, <1>5 DEF UndoCredential

LEMMA UndoCreateSound ==
  ASSUME FaultInv, TransactionInv, NEW c \in Commits, UndoCreate(c)
  PROVE  Sound
<1>1. /\ op.step = "unset" /\ faults >= 1 /\ faults \in Nat
      /\ UNCHANGED <<document, locked, factVars, slotVars>> /\ Closed(document)
  BY DEF UndoCreate, FaultInv, BackInv, UndoInv, LockInv
<1>2. PICK failed \in BOOLEAN : failed <=> c # "done"
  OBVIOUS
<1> QED
  BY <1>1, <1>2, Blamed, UndoneEnds, EndsKept DEF Sound, UndoCreate, Undone, FaultInv, LockInv,
     Blame

LEMMA RestoreTestSound ==
  ASSUME FaultInv, TransactionInv, NEW c \in Commits, RestoreTest(c)
  PROVE  Sound
<1>1. /\ op.step = "unmark" /\ op.kind = "secret" /\ op.kind \in Special /\ op.kind \in Hot
      /\ UNCHANGED <<factVars, slotVars>> /\ Closed(document) /\ Closed(op.prev)
      /\ Persist(op.prev, c)
  BY DEF RestoreTest, TransactionInv, KindsInv, FaultInv, BackInv, Special, Hot
<1>2. LockInv' /\ faults' >= faults /\ faults' \in Nat /\ (Intact' => Intact)
  BY <1>1, Persisted DEF FaultInv, LockInv
<1>3. PICK broken \in BOOLEAN : broken <=> c # "done"
  OBVIOUS
<1>4. document' \in {document, op.prev}
  BY <1>1 DEF Persist
<1>5. faults' = 0 /\ phase = "running" /\ Served(document) => Served(document')
  <2> SUFFICES ASSUME faults' = 0, phase = "running", Served(document) PROVE Served(document')
    OBVIOUS
  <2> QED
    BY <1>4, <1>1, <1>2, RestFacts DEF Good, DocGood, PhaseGood, Changing, FaultInv, LockInv,
       Intact
<1> QED BY <1>1, <1>2, <1>3, <1>4, <1>5, UndoneEnds, EndsKept DEF Sound, RestoreTest, Undone

------------------------
(* Always *)

LEMMA FaultInit == Init => FaultInv
<1> SUFFICES ASSUME Init PROVE FaultInv
  OBVIOUS
<1>1. /\ op.step = "none" /\ op.kind = "none" /\ op.attempted = FALSE
      /\ op.running = FALSE /\ op.gen = 0 /\ op.prev = NoDocument /\ op.next = NoDocument
      /\ op.broken = FALSE /\ op.prior = NoConfig /\ op.cand = NoConfig
  BY DEF Init, NoOp
<1>2. /\ phase = "stopped" /\ confirmed = Slot!NoSnap /\ worker = Slot!Gone /\ inbox = <<>>
      /\ job = Slot!NoJob /\ recovery = "none" /\ closed = FALSE /\ call = Slot!NoCall
      /\ confirmed.gen = 0 /\ ~worker.alive
      /\ worker = [alive |-> worker.alive, snap |-> worker.snap]
      /\ job.fn = "none" /\ job.restart = FALSE /\ call.kind = "none" /\ job.snap = Slot!NoSnap
      /\ job.snap.gen = 0
  BY DEF Init, Slot!SlotInit, Slot!NoSnap, Slot!Gone, Slot!NoJob, Slot!NoCall
<1>3. SlotShape
  BY <1>2 DEF SlotShape, IsWorker, OwnJob
<1>4. LockInv /\ FreeInv /\ NumberInv
  <2>1. faults = 0 /\ locked = FALSE /\ confirmedGeneration = 0
    BY DEF Init
  <2>2. LockInv
    BY <2>1 DEF LockInv
  <2> QED BY <2>2, <1>2, <1>1, <2>1 DEF NumberInv, FreeInv
<1>5. BackInv
  <2>1. Closed(document) /\ Closed(NoDocument)
    BY DEF Init, Closed, NoDocument
  <2> QED BY <1>1, <2>1 DEF BackInv, Init, Changing, Hot
<1>6. Good
  <2>1. GenGood
    BY <1>1, <1>2 DEF GenGood, WithFresh, Hot, Gated, Init
  <2> QED
    BY <1>1, <1>2, <2>1 DEF Good, StepGood, PhaseGood, Changing, Hot, DocGood, SlotGood, Resting
<1> QED BY <1>3, <1>4, <1>5, <1>1, <1>6 DEF FaultInv, UndoInv

\* The service asks the manager.
LEMMA CallsOn ==
  ASSUME IsOp(op), CallWorker \/ UndoCall \/ UndoActivationCall \/ Cleanup
  PROVE  ~Degraded
<1>1. op'.step \in {"called", "undone", "cleaned"}
  BY DEF CallWorker, UndoCall, UndoActivationCall, FallsBackTo, Cleanup, IsOp
<1> QED BY <1>1, NoOpHas DEF Degraded, Ends

LEMMA FaultStep ==
  ~AccountUpdates /\ NoConfig \notin Configurations /\ TransactionInv /\ FaultInv /\ [Next]_vars
    => FaultInv' /\ [Degraded => Lost]_vars
<1> SUFFICES ASSUME ~AccountUpdates, NoConfig \notin Configurations, TransactionInv, FaultInv,
                    [Next]_vars
             PROVE  FaultInv' /\ [Degraded => Lost]_vars
  OBVIOUS
<1>1. CASE UNCHANGED vars
  BY <1>1, RejectFaultless DEF vars
<1>2. CASE Calls
  <2>1. Idle
    BY <1>2 DEF Calls, Activate, UpdateSecret, DeleteProvider, CreateProvider, TestProvider,
                SetProviderWeight, SetRoutingMode, SetCaptureEnabled, SetCaptureDetailsEnabled,
                UpdateProvider, SetProviderSupportedModels, SetApiKeyAuthEnabled,
                UpdateRoutingRuleGroup, DeleteRoutingRuleGroup, SetActiveRoutingRuleGroup,
                CreateRoutingRuleGroup, CreateModelMappingGroup, UpdateModelMappingGroup,
                DeleteModelMappingGroup, HotEdit, GroupEdit, SetProxyHost, StartProxy, StopProxy,
                MayCall
  <2> QED BY <1>2, <2>1, CallsFaultless DEF Degraded, Ends
<1>3. CASE Forward
  <2>1. CASE \E c \in Commits : SetCredential(c) \/ ResetTest(c) \/ Commit(c) \/ Fallback(c)
    BY <2>1, SetCredentialSound, ResetTestSound, CommitSound, FallbackSound DEF Sound
  <2>2. CASE Build \/ BuildFails
    BY <2>2, BuildSound, BuildFailsSound DEF Sound
  <2>3. CASE CallWorker
    BY <2>3, CallWorkerFaultless, CallsOn DEF TransactionInv, ShapeInv
  <2>4. CASE WorkerConfirms \/ ModeConfirmed \/ WorkerRefuses \/ WorkerStopped
    BY <2>4, WorkerConfirmsSound, ModeConfirmedSound, WorkerRefusesSound, WorkerStoppedSound
       DEF Sound
  <2>5. CASE \E done \in BOOLEAN : ForgetCredential(done) \/ SelectionRecorded(done)
    BY <2>5, ForgetCredentialSound, SelectionRecordedSound DEF Sound
  <2>6. CASE Recorded \/ ModeRecorded \/ RecordFails
    BY <2>6, RecordedSound, ModeRecordedSound, RecordFailsSound DEF Sound
  <2>7. CASE \/ \E c \in Commits, passed \in BOOLEAN : Probed(passed, c)
             \/ \E c \in Commits : SelectInitial(c) \/ ClearSelection(c)
    BY <2>7, ProbedSound, SelectInitialSound, ClearSelectionSound DEF Sound
  <2> QED BY <1>3, <2>1, <2>2, <2>3, <2>4, <2>5, <2>6, <2>7 DEF Forward
<1>4. CASE Backward
  <2>1. CASE \E c \in Commits : Undo(c) \/ RestoreSecret(c)
    BY <2>1, UndoSound, RestoreSecretSound DEF Sound
  <2>2. CASE \E c \in Commits : UndoCredential(c) \/ UndoCreate(c) \/ RestoreTest(c)
    BY <2>2, UndoCredentialSound, UndoCreateSound, RestoreTestSound DEF Sound
  <2>3. CASE Rebuild \/ RebuildFails
    BY <2>3, RebuildSound, RebuildFailsSound DEF Sound
  <2>4. CASE UndoCall \/ UndoActivationCall \/ Cleanup
    BY <2>4, UndoCallFaultless, UndoActivationCallFaultless, CleanupFaultless, CallsOn
       DEF TransactionInv, ShapeInv
  <2>5. CASE UndoAnswered \/ CleanedUp
    BY <2>5, UndoAnsweredSound, CleanedUpSound DEF Sound
  <2> QED BY <1>4, <2>1, <2>2, <2>3, <2>4, <2>5 DEF Backward
<1>5. CASE Manager \/ ManagerFails
  BY <1>5, ManagerFaultless DEF Degraded, Ends, Idle, Manager, ManagerFails
<1> QED BY <1>1, <1>2, <1>3, <1>4, <1>5 DEF Next

\* One thing that goes wrong, at any await of any operation, is rolled back: the rollbacks of
\* provider-service.mjs report themselves degraded only after a second fault, or when the
\* Worker is gone that the rollback would need.  Up to the first fault the registry, the
\* manager and what the service takes for confirmed fit each other (Good), which is why a
\* rollback has a snapshot to go back to, a document it may write, and the slot for itself.
THEOREM OneFaultUndone ==
  ASSUME ~AccountUpdates, NoConfig \notin Configurations
  PROVE  Spec => OneFaultIsUndone
<1>1. TransactionInv /\ FaultInv /\ [Next]_vars => FaultInv' /\ [Degraded => Lost]_vars
  BY FaultStep
<1>2. [Degraded => Lost]_vars =>
        [Ends({"degraded"}) /\ faults' <= 1 /\ op.kind \notin {"delete", "secret", "details"} =>
           phase # "running" \/ ~worker.alive]_vars
  BY DEF Degraded, Lost, Special
<1> QED
  BY <1>1, <1>2, TransactionAlways, FaultInit, PTL DEF Spec, OneFaultIsUndone
=============================================================================
