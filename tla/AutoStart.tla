------------------------------ MODULE AutoStart ------------------------------
(***************************************************************************)
(* The login startup item of supervisor/autostart-service.mjs: one file,   *)
(* on Linux with a link that makes it effective, which setEnabled writes in*)
(* place.  Each call of the file system is a step; between two of them     *)
(* another program may replace or remove the file and the link, a call may *)
(* fail, and the process may die.                                          *)
(***************************************************************************)
EXTENDS Naturals, Sequences

CONSTANTS
  MaxCalls,    \* bound: calls of setEnabled
  MaxOutside,  \* bound: changes by other programs
  MaxFaults    \* bound: calls of the file system that fail

VARIABLES
  disk,     \* the files there have been: what they hold
  path,     \* which of them has the name of the item; 0: none
  link,     \* "not-required" (no Linux), "missing", "valid", "foreign"
  op,       \* the last call of setEnabled
  calls, outside, failures

vars == <<disk, path, link, op, calls, outside, failures>>

\* Contents that start with the marker of CRP: those that enable or disable the item,
\* and those of another version or place of CRP.
Managed == {"enabled", "disabled", "stale"}

Text == IF path = 0 THEN "missing" ELSE disk[path]

\* getStatus: whether the item is enabled.
Effective == Text = "enabled" /\ link \in {"not-required", "valid"}

Idle == op.pc = "idle"

Init ==
  /\ \/ path = 0 /\ disk = <<>>
     \/ path = 1 /\ \E text \in Managed \union {"foreign", "empty"} : disk = <<text>>
  /\ link \in {"not-required", "missing", "valid", "foreign"}
  /\ op = [pc |-> "idle", want |-> FALSE, before |-> "missing", link |-> "missing",
           text |-> "disabled", id |-> 0, bytes |-> "missing", fd |-> 0, undo |-> "no",
           answer |-> "none", touched |-> FALSE, blind |-> FALSE, lost |-> FALSE]
  /\ calls = 0 /\ outside = 0 /\ failures = 0

------------------------
(* The steps of a call *)

Same == UNCHANGED <<disk, path, link>>
Goto(pc) == op' = [op EXCEPT !.pc = pc]

\* The call throws or, in its rollback, goes on to throw what it began the rollback for.
Ends(answer) ==
  op' = [op EXCEPT !.pc = "idle", !.answer = IF op.undo = "no" THEN answer ELSE op.undo]

Faulty(n) ==
  /\ failures + n <= MaxFaults /\ failures' = failures + n

\* setEnabled
Begin(enabled) ==
  /\ Idle /\ calls < MaxCalls
  /\ op' = [op EXCEPT !.pc = IF enabled THEN "link" ELSE "check", !.want = enabled,
                      !.before = Text, !.undo = "no", !.answer = "none",
                      !.touched = FALSE, !.blind = FALSE, !.lost = FALSE]
  /\ calls' = calls + 1 /\ Same /\ UNCHANGED <<outside, failures>>

\* To enable: what is at the place of the link.
InspectLink ==
  /\ op.pc = "link" /\ Same
  /\ IF link = "foreign" THEN Ends("conflict")
     ELSE op' = [op EXCEPT !.pc = "stat", !.text = "enabled", !.link = link]

\* To disable: nothing to do unless there is a file or a link of CRP.
Check ==
  /\ op.pc = "check" /\ Same
  /\ IF Text \notin Managed \union {"missing"} \/ link = "foreign" THEN Ends("conflict")
     ELSE op' = [op EXCEPT !.pc = IF path # 0 \/ link = "valid" THEN "stat" ELSE "status",
                           !.text = "disabled", !.link = link]

\* writeManaged and inspectRegular: which file it is, and then what is in it.
Stat ==
  /\ op.pc = "stat" /\ Same
  /\ IF path = 0 THEN Goto("create") ELSE op' = [op EXCEPT !.pc = "read", !.id = path]

Read ==
  /\ op.pc = "read" /\ Same
  /\ IF Text \notin Managed THEN Ends("conflict")
     ELSE op' = [op EXCEPT !.pc = "open", !.bytes = Text]

\* Mutant of OpensSame: the inspection is trusted.
MutantOpensSame == TRUE

\* The file that was opened is the one that was inspected, with what was in it.
OpensSame == path = op.id /\ disk[path] = op.bytes

\* writeExistingManaged
OpenExisting ==
  /\ op.pc = "open" /\ Same
  /\ CASE path = 0 -> Ends("failed")
       [] path # 0 /\ ~OpensSame -> Ends("conflict")
       [] OTHER -> op' = [op EXCEPT !.pc = "truncate", !.fd = path]

Truncate ==
  /\ op.pc = "truncate" /\ Goto("write")
  /\ disk' = [disk EXCEPT ![op.fd] = "empty"] /\ UNCHANGED <<path, link>>

Write ==
  /\ op.pc = "write" /\ Goto("verify")
  /\ disk' = [disk EXCEPT ![op.fd] = op.text] /\ UNCHANGED <<path, link>>

\* A failed write or fsync puts back what was there, unless that fails too.
WriteFails ==
  /\ op.pc \in {"write", "fill"} /\ UNCHANGED <<path, link>>
  /\ \/ /\ Faulty(1)
        /\ disk' = [disk EXCEPT ![op.fd] = IF op.pc = "write" THEN op.bytes ELSE "disabled"]
        /\ op' = [op EXCEPT !.pc = "idle", !.lost = @ \/ op.undo # "no",
                            !.answer = IF op.undo = "no" THEN "failed" ELSE op.undo]
     \/ /\ Faulty(2) /\ UNCHANGED disk
        /\ op' = [op EXCEPT !.pc = "idle", !.lost = @ \/ op.undo # "no",
                            !.answer = IF op.undo = "no" THEN "degraded" ELSE op.undo]

\* The file is as it should be: the link, or the end of the call or of its rollback.
Written ==
  IF op.undo # "no" THEN Ends(op.undo)
  ELSE Goto(IF op.want /\ op.link = "missing" THEN "symlink" ELSE "status")

\* After the file was closed: it is still at its place, with what was written.
Verify ==
  /\ op.pc = "verify" /\ Same
  /\ CASE path # op.fd -> Ends("conflict")
       [] path = op.fd /\ Text # op.text -> Ends("failed")
       [] OTHER -> Written

\* publishManaged
Create ==
  /\ op.pc = "create" /\ UNCHANGED link
  /\ IF path # 0 THEN Ends("conflict") /\ UNCHANGED <<disk, path>>
     ELSE /\ disk' = Append(disk, "empty") /\ path' = Len(disk) + 1
          /\ op' = [op EXCEPT !.pc = "fill", !.fd = Len(disk) + 1]

Fill ==
  /\ op.pc = "fill" /\ Goto("published")
  /\ disk' = [disk EXCEPT ![op.fd] = op.text] /\ UNCHANGED <<path, link>>

Published ==
  /\ op.pc = "published" /\ Same
  /\ IF path # op.fd \/ Text # op.text THEN Ends("conflict") ELSE Written

\* The file that was written cannot be read, or its directory not be synchronized.
VerifyFails ==
  /\ Faulty(1) /\ Same
  /\ \/ /\ op.pc \in {"verify", "published"}
        /\ op' = [op EXCEPT !.pc = "idle", !.blind = TRUE, !.lost = @ \/ op.undo # "no",
                            !.answer = IF op.undo = "no" THEN "conflict" ELSE op.undo]
     \/ /\ op.pc = "published" /\ path = op.fd /\ Text = op.text
        /\ op' = [op EXCEPT !.pc = "idle", !.lost = @ \/ op.undo # "no",
                            !.answer = IF op.undo = "no" THEN "degraded" ELSE op.undo]

\* Without its link the file is written once more, to disable the item.
Undo(answer) == op' = [op EXCEPT !.pc = "stat", !.text = "disabled", !.undo = answer]

Symlink ==
  /\ op.pc = "symlink" /\ UNCHANGED <<disk, path>>
  /\ IF link # "missing" THEN Undo("conflict") /\ UNCHANGED link
     ELSE link' = "valid" /\ Goto("status")

\* The link cannot be made, or it is made and its directory cannot be synchronized.
SymlinkFails ==
  /\ op.pc = "symlink" /\ link = "missing" /\ Faulty(1)
  /\ Undo("failed") /\ link' \in {"missing", "valid"} /\ UNCHANGED <<disk, path>>

Status ==
  /\ op.pc = "status" /\ Same
  /\ op' = [op EXCEPT !.pc = "idle", !.answer = "done"]

Step ==
  /\ UNCHANGED <<calls, outside>>
  /\ \/ /\ UNCHANGED failures
        /\ \/ InspectLink \/ Check \/ Stat \/ Read \/ OpenExisting \/ Truncate \/ Write
           \/ Verify \/ Create \/ Fill \/ Published \/ Symlink \/ Status
     \/ WriteFails \/ VerifyFails \/ SymlinkFails

\* The process dies in the middle of a call.
Crash ==
  /\ ~Idle /\ Same
  /\ op' = [op EXCEPT !.pc = "idle", !.answer = "none"]
  /\ UNCHANGED <<calls, outside, failures>>

\* Another program puts a file of its own in the place of the item, or a link.
Outside ==
  /\ outside < MaxOutside /\ outside' = outside + 1
  /\ \/ /\ path' = Len(disk) + 1 /\ disk' = Append(disk, "foreign") /\ UNCHANGED link
     \/ /\ path # 0 /\ path' = 0 /\ UNCHANGED <<disk, link>>
     \/ /\ link # "not-required" /\ link' \in {"missing", "valid", "foreign"} \ {link}
        /\ UNCHANGED <<disk, path>>
  /\ op' = [op EXCEPT !.touched = TRUE]
  /\ UNCHANGED <<calls, failures>>

Next == Step \/ Crash \/ Outside \/ \E enabled \in BOOLEAN : Begin(enabled)

Spec == Init /\ [][Next]_vars

------------------------
(* Properties *)

\* A file of somebody else that has come to the place of the item, even between the
\* inspection and the write, is never changed.
KeepsForeign ==
  \A i \in 1..Len(disk) : disk[i] = "foreign" => disk'[i] = "foreign"

\* What a call answers is what it did: without interference a call that answers leaves
\* the item as it was asked, and one that was to enable the item and failed has not
\* left contents that enable it, unless its rollback failed as well.  Only a file that
\* could not be read again after the write is called a conflict although it is enabled.
OutcomeIsTold ==
  Idle =>
    /\ op.answer = "done" /\ ~op.touched => Effective = op.want
    /\ /\ op.answer \in {"conflict", "failed"} /\ op.want /\ ~op.lost /\ ~op.blind
       => (Text = "enabled" => op.before = "enabled")
=============================================================================
