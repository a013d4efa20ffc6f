------------------------------ MODULE AccessKeys ------------------------------
(***************************************************************************)
(* The client API keys: the table access_keys of access-key-store.mjs,     *)
(* which the Supervisor edits and the Worker counts requests in, each with *)
(* a connection of its own, and what server.mjs makes of a request         *)
(* (requestAccessAuthorization).  Each SQL statement is one step; an edit  *)
(* reads the row and then writes it, a refusal counts nothing and then     *)
(* reads why.                                                              *)
(***************************************************************************)
EXTENDS Naturals, FiniteSets

CONSTANTS
  KeyIds,        \* the keys that can be created
  MaxRequests,   \* bound: requests of a behaviour
  MaxEdits,      \* bound: edits of a behaviour
  MaxTime,       \* bound: the clock
  MaxLimit       \* bound: request limits tried

VARIABLES
  access,        \* settings.access.enabled of the Worker
  rows,          \* the table: rows of a subset of KeyIds
  edit,          \* the edit the Supervisor is at
  request,       \* the request the Worker is at
  granted,       \* history: requests let through by each key
  time, requests, edits

keyVars == <<access, rows, edit, request, granted, time, requests, edits>>

Null == 0
Limits == {Null} \cup 1..MaxLimit
Expiries == {Null} \cup (time + 1)..(MaxTime + 1)

NoEdit == [kind |-> "none", id |-> "none"]
NoRequest == [pc |-> "none", id |-> "none", answer |-> "none"]

\* The rest of the table when the row of a key is written or removed.
WithRow(id, row) == [k \in DOMAIN rows \cup {id} |-> IF k = id THEN row ELSE rows[k]]
WithoutRow(id) == [k \in DOMAIN rows \ {id} |-> rows[k]]

\* The condition of the one UPDATE that counts a request.
Usable(id) ==
  /\ id \in DOMAIN rows
  /\ rows[id].enabled
  /\ rows[id].expires = Null \/ rows[id].expires > time
  /\ rows[id].limit = Null \/ rows[id].count < rows[id].limit

\* The SELECT that follows when nothing was counted.
Reason(id) ==
  CASE id \notin DOMAIN rows -> "API_KEY_INVALID"
    [] ~rows[id].enabled -> "API_KEY_DISABLED"
    [] rows[id].expires # Null /\ rows[id].expires <= time -> "API_KEY_EXPIRED"
    [] OTHER -> "API_KEY_LIMIT_EXCEEDED"

------------------------
(* The Supervisor. *)

Editing == edits < MaxEdits /\ edits' = edits + 1 /\ edit = NoEdit

Create(id) ==
  \E expires \in Expiries, limit \in Limits :
    /\ Editing /\ id \notin DOMAIN rows
    /\ rows' = WithRow(id, [enabled |-> TRUE, expires |-> expires, limit |-> limit, count |-> 0])
    /\ granted' = [granted EXCEPT ![id] = 0]
    /\ UNCHANGED <<access, edit, request, time, requests>>

\* update: the row as it is, with what the patch gives in place of it.
BeginUpdate(id) ==
  \E enabled \in BOOLEAN, expires \in Expiries, limit \in Limits :
    /\ Editing /\ id \in DOMAIN rows
    /\ edit' = [kind |-> "update", id |-> id,
                row |-> [rows[id] EXCEPT !.enabled = enabled, !.expires = expires,
                                         !.limit = limit]]
    /\ UNCHANGED <<access, rows, request, granted, time, requests>>

\* Mutant of WriteUpdate: the whole row is written back, the count that was read with it included.
MutantWriteUpdate ==
  /\ edit.kind = "update"
  /\ rows' = WithRow(edit.id, edit.row)
  /\ edit' = NoEdit
  /\ UNCHANGED <<access, request, granted, time, requests, edits>>

\* The UPDATE names every column but the count and the last use.
WriteUpdate ==
  /\ edit.kind = "update"
  /\ rows' = WithRow(edit.id, [edit.row EXCEPT !.count = rows[edit.id].count])
  /\ edit' = NoEdit
  /\ UNCHANGED <<access, request, granted, time, requests, edits>>

BeginDelete(id) ==
  /\ Editing /\ id \in DOMAIN rows
  /\ edit' = [kind |-> "delete", id |-> id]
  /\ UNCHANGED <<access, rows, request, granted, time, requests>>

Delete ==
  /\ edit.kind = "delete"
  /\ rows' = WithoutRow(edit.id)
  /\ edit' = NoEdit
  /\ UNCHANGED <<access, request, granted, time, requests, edits>>

\* Authentication is switched in the running Worker.
ApplyAccess ==
  /\ Editing /\ access' = ~access
  /\ UNCHANGED <<rows, edit, request, granted, time, requests>>

------------------------
(* The Worker. *)

Arrive == requests < MaxRequests /\ request.pc # "reason" /\ requests' = requests + 1

Answer(id, answer) == request' = [pc |-> "answered", id |-> id, answer |-> answer]

\* No authentication, a health probe or Codex's own token from this machine: no key is used.
Exempt ==
  /\ Arrive
  /\ \E source \in {"disabled", "health", "local"} :
       /\ source = "disabled" <=> ~access
       /\ Answer("none", source)
  /\ UNCHANGED <<access, rows, edit, granted, time, edits>>

\* No key, two dedicated headers, a malformed key, or a store that fails.
RefuseUnread ==
  /\ Arrive /\ access
  /\ \E code \in {"API_KEY_REQUIRED", "API_KEY_INVALID", "API_KEY_STORE_UNAVAILABLE"} :
       Answer("none", code)
  /\ UNCHANGED <<access, rows, edit, granted, time, edits>>

\* authorize: the statement that checks and counts.
Count(id) ==
  /\ Arrive /\ access
  /\ IF Usable(id)
       THEN /\ rows' = [rows EXCEPT ![id].count = @ + 1]
            /\ granted' = [granted EXCEPT ![id] = @ + 1]
            /\ Answer(id, "ok")
       ELSE /\ request' = [pc |-> "reason", id |-> id, answer |-> "none"]
            /\ UNCHANGED <<rows, granted>>
  /\ UNCHANGED <<access, edit, time, edits>>

ReadReason ==
  /\ request.pc = "reason"
  /\ Answer(request.id, Reason(request.id))
  /\ UNCHANGED <<access, rows, edit, granted, time, requests, edits>>

Tick ==
  /\ time < MaxTime /\ time' = time + 1
  /\ UNCHANGED <<access, rows, edit, request, granted, requests, edits>>

Init ==
  /\ access = TRUE /\ rows = [k \in {} |-> Null] /\ edit = NoEdit /\ request = NoRequest
  /\ granted = [k \in KeyIds |-> 0]
  /\ time = 0 /\ requests = 0 /\ edits = 0

Next ==
  \/ \E id \in KeyIds : Create(id) \/ BeginUpdate(id) \/ BeginDelete(id) \/ Count(id)
  \/ WriteUpdate \/ Delete \/ ApplyAccess
  \/ Exempt \/ RefuseUnread \/ ReadReason \/ Tick

Spec == Init /\ [][Next]_keyVars

------------------------
(* Property. *)

\* The count of a key is the number of requests it let through, whatever edits of it were
\* read before and written after some of them: a limit that is put back to what it was
\* allows nothing twice.
GrantsCounted == \A id \in DOMAIN rows : rows[id].count = granted[id]
=============================================================================
