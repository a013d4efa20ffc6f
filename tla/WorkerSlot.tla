----------------------------- MODULE WorkerSlot -----------------------------
(***************************************************************************)
(* What the WorkerManager promises the ProviderService: one slot for one   *)
(* job at a time, which a call starts, joins or is refused; a Worker that  *)
(* takes the snapshots sent to it in order, or dies; and an answer that    *)
(* says what was confirmed.  The IPC requests, timeouts, drains, signals   *)
(* and probes that WorkerManager goes through are gone; WorkerManagerSlot  *)
(* maps it to this one, and WorkerManagerProofs proves that it implements  *)
(* it.                                                                     *)
(***************************************************************************)
EXTENDS Naturals, Sequences

CONSTANTS Configs, NoConfig

VARIABLES
  phase,      \* the phase of the manager's public state
  confirmed,  \* the snapshot the manager calls confirmed
  worker,     \* the Worker: does it still serve, and which snapshot
  inbox,      \* snapshots sent to the Worker that it has not taken yet
  job,        \* the operation in flight
  recovery,   \* is the job an attempt to recover, or has such an attempt failed
  closed,     \* close() was called
  call,       \* the call that waits for the job
  reply       \* what the last call was answered

slotVars == <<phase, confirmed, worker, inbox, job, recovery, closed, call, reply>>

NoSnap == [gen |-> 0, cfg |-> NoConfig]
Gone  == [alive |-> FALSE, snap |-> NoSnap]
Fresh == [alive |-> TRUE, snap |-> NoSnap]
NoJob == [fn |-> "none", snap |-> NoSnap, restart |-> FALSE]
NoCall  == [kind |-> "none", want |-> NoSnap]
NoReply == [kind |-> "none", want |-> NoSnap, ok |-> FALSE, phase |-> "none", gen |-> 0]

SlotInit ==
  /\ phase = "stopped" /\ confirmed = NoSnap
  /\ worker = Gone /\ inbox = <<>>
  /\ job = NoJob /\ recovery = "none" /\ closed = FALSE
  /\ call = NoCall /\ reply = NoReply

------------------------
(* A call is answered with the public state, or rejected. *)

Answer(c, ok) ==
  IF c.kind = "none" THEN UNCHANGED <<call, reply>>
  ELSE /\ call' = NoCall
       /\ reply' = [kind |-> c.kind, want |-> c.want, ok |-> ok,
                    phase |-> phase', gen |-> confirmed'.gen]

\* The job ends, and whoever waited for it is answered.
Settle(ok) ==
  /\ job' = NoJob
  /\ recovery' = IF recovery = "attempt" THEN IF ok THEN "none" ELSE "rejected"
                 ELSE recovery
  /\ Answer(call, ok)

\* A process is forked for "snap"; "c" waits for it.
Forks(c, snap) ==
  /\ ~worker.alive
  /\ phase' = "starting" /\ worker' = Fresh /\ inbox' = <<>>
  /\ job' = [NoJob EXCEPT !.fn = "start", !.snap = snap]
  /\ call' = c /\ reply' = IF c = NoCall THEN reply ELSE NoReply

ForkFails(c) ==
  /\ ~worker.alive
  /\ phase' = "stopped" /\ job' = NoJob
  /\ UNCHANGED <<worker, inbox>>
  /\ Answer(c, FALSE)

\* The Worker serves this snapshot, or is gone without the manager knowing.
ServesOrGone(snap) == worker.alive => worker.snap = snap /\ inbox = <<>>

------------------------
(* The Worker *)

\* A Worker refuses a generation that is not newer than its own, and dies of it.
WorkerTakes ==
  /\ worker.alive /\ inbox # <<>> /\ Head(inbox).gen > worker.snap.gen
  /\ worker' = [worker EXCEPT !.snap = Head(inbox)]
  /\ inbox' = Tail(inbox)
  /\ UNCHANGED <<phase, confirmed, job, recovery, closed, call, reply>>

WorkerDies ==
  /\ worker.alive
  /\ worker' = Gone /\ inbox' = <<>>
  /\ UNCHANGED <<phase, confirmed, job, recovery, closed, call, reply>>

\* Mutant of CrashNoticed: what waits for the Worker goes on waiting.
MutantCrashNoticed ==
  /\ phase = "running" /\ ~worker.alive /\ ~closed
  /\ phase' \in {"backoff", "failed"}
  /\ recovery' = "none"
  /\ UNCHANGED <<confirmed, worker, inbox, job, closed, call, reply>>

\* The exit of a Worker in service rejects the job and schedules a recovery.
CrashNoticed ==
  /\ phase = "running" /\ ~worker.alive /\ ~closed
  /\ phase' \in {"backoff", "failed"}
  /\ job' = NoJob /\ recovery' = "none"
  /\ UNCHANGED <<confirmed, worker, inbox, closed>>
  /\ Answer(call, FALSE)

------------------------
(* The job *)

StartSends ==
  /\ job.fn = "start" /\ worker = Fresh /\ inbox = <<>>
  /\ inbox' = <<job.snap>>
  /\ UNCHANGED <<phase, confirmed, worker, job, recovery, closed, call, reply>>

Started ==
  /\ job.fn = "start" /\ ServesOrGone(job.snap)
  /\ phase' = "running" /\ confirmed' = job.snap
  /\ UNCHANGED <<worker, inbox, closed>>
  /\ Settle(TRUE)

ApplyConfirmed ==
  /\ job.fn = "apply" /\ phase = "running" /\ ServesOrGone(job.snap)
  /\ confirmed' = job.snap
  /\ UNCHANGED <<phase, worker, inbox, closed>>
  /\ Settle(TRUE)

\* An update of the account state takes the slot, too.
AccountBegins ==
  /\ job = NoJob /\ phase = "running" /\ ~closed
  /\ job' = [NoJob EXCEPT !.fn = "account"]
  /\ UNCHANGED <<phase, confirmed, worker, inbox, recovery, closed, call, reply>>

AccountApplied ==
  /\ job.fn = "account"
  /\ UNCHANGED <<phase, confirmed, worker, inbox, closed>>
  /\ Settle(TRUE)

\* No acknowledgement in time, or a fatal instead of one.
MessageFails ==
  /\ job.fn \in {"apply", "account"}
  /\ UNCHANGED <<phase, confirmed, worker, inbox, closed>>
  /\ Settle(FALSE)

\* The Worker of a stop, of a failed start or of a close has exited.
StopEnds(ok) ==
  /\ job.fn \in {"start", "stop"} /\ ~worker.alive
  /\ ok => job.fn = "stop" /\ ~job.restart
  /\ phase' = "stopped"
  /\ UNCHANGED <<confirmed, worker, inbox, closed>>
  /\ Settle(ok)

\* It would not exit, or its port is still taken.
StopFails ==
  /\ job.fn \in {"start", "stop"}
  /\ phase' = "failed"
  /\ UNCHANGED <<confirmed, worker, inbox, closed>>
  /\ Settle(FALSE)

RestartForks ==
  /\ job.fn = "stop" /\ job.restart
  /\ UNCHANGED <<confirmed, recovery, closed>>
  /\ Forks(call, job.snap) \/ ForkFails(call)

------------------------
(* Recovery *)

RecoveryStarts ==
  /\ phase = "backoff" /\ job = NoJob /\ ~closed
  /\ UNCHANGED <<confirmed, closed>>
  /\ \/ Forks(NoCall, confirmed) /\ recovery' = "attempt"
     \/ ForkFails(NoCall) /\ recovery' = "rejected"

RecoveryGivesUp ==
  /\ phase = "backoff"
  /\ phase' = "failed"
  /\ UNCHANGED <<confirmed, worker, inbox, job, recovery, closed, call, reply>>

\* A failed attempt is retried, unless a Worker is there or the crashes are many.
RecoveryRetries ==
  /\ recovery = "rejected"
  /\ recovery' = "none"
  /\ \/ UNCHANGED phase
     \/ /\ job = NoJob /\ ~closed /\ ~worker.alive
        /\ phase' \in {"backoff", "failed"}
  /\ UNCHANGED <<confirmed, worker, inbox, job, closed, call, reply>>

------------------------
(* Calls *)

Refused(kind, want) ==
  /\ closed
  /\ reply' = [NoReply EXCEPT !.kind = kind, !.want = want]
  /\ UNCHANGED <<phase, confirmed, worker, inbox, job, recovery, closed, call>>

\* The call gets the answer of the job in flight, whatever that does.
Joined(kind, want) ==
  /\ ~closed /\ job # NoJob
  /\ call' = [kind |-> kind, want |-> want] /\ reply' = NoReply
  /\ UNCHANGED <<phase, confirmed, worker, inbox, job, recovery, closed>>

Free == ~closed /\ job = NoJob

AnsweredNow(kind, want, ok) ==
  /\ UNCHANGED <<confirmed, worker, inbox, job, closed>>
  /\ Answer([kind |-> kind, want |-> want], ok)

BeginStop(kind, want) ==
  /\ phase' = "draining"
  /\ job' = [fn |-> "stop", snap |-> want, restart |-> kind = "restart"]
  /\ call' = [kind |-> kind, want |-> want] /\ reply' = NoReply
  /\ UNCHANGED <<confirmed, worker, inbox, closed>>

Start(want) ==
  /\ call = NoCall
  /\ \/ Refused("start", want)
     \/ Joined("start", want)
     \/ /\ Free /\ phase \in {"running", "failed"}
        /\ UNCHANGED <<phase, recovery>>
        /\ AnsweredNow("start", want, phase = "running")
     \/ /\ Free /\ phase # "running"
        /\ UNCHANGED <<confirmed, recovery, closed>>
        /\ \/ Forks([kind |-> "start", want |-> want], want)
           \/ ForkFails([kind |-> "start", want |-> want])

Apply(want) ==
  /\ call = NoCall
  /\ \/ Refused("apply", want)
     \/ Joined("apply", want)
     \/ /\ Free
        /\ phase # "running" \/ want.gen <= confirmed.gen \/ ~worker.alive
        /\ UNCHANGED <<phase, recovery>>
        /\ AnsweredNow("apply", want, FALSE)
     \/ /\ Free /\ phase = "running" /\ want.gen > confirmed.gen
        /\ inbox' = IF worker.alive THEN Append(inbox, want) ELSE inbox
        /\ job' = [NoJob EXCEPT !.fn = "apply", !.snap = want]
        /\ call' = [kind |-> "apply", want |-> want] /\ reply' = NoReply
        /\ UNCHANGED <<phase, confirmed, worker, recovery, closed>>

Stop ==
  /\ call = NoCall
  /\ \/ Refused("stop", NoSnap)
     \/ Joined("stop", NoSnap)
     \/ /\ Free /\ phase # "running" /\ ~worker.alive
        /\ phase' = "stopped" /\ recovery' = "none"
        /\ AnsweredNow("stop", NoSnap, TRUE)
     \/ /\ Free /\ phase \in {"running", "failed"}
        /\ BeginStop("stop", NoSnap)
        /\ UNCHANGED recovery

Restart(want) ==
  /\ call = NoCall
  /\ \/ Refused("restart", want)
     \/ Joined("restart", want)
     \/ /\ Free /\ recovery' = "none" /\ UNCHANGED <<confirmed, closed>>
        /\ \/ phase \in {"running", "failed"} /\ BeginStop("restart", want)
           \/ /\ phase # "running"
              /\ \/ Forks([kind |-> "restart", want |-> want], want)
                 \/ ForkFails([kind |-> "restart", want |-> want])

------------------------
(* Shutdown *)

Close ==
  /\ closed' = TRUE /\ recovery' = "none"
  /\ UNCHANGED <<phase, confirmed, worker, inbox, job, call, reply>>

CloseEndsWorker ==
  /\ closed /\ job = NoJob
  /\ \/ job' = [NoJob EXCEPT !.fn = "stop"] /\ UNCHANGED phase
     \/ ~worker.alive /\ phase' = "stopped" /\ UNCHANGED job
  /\ UNCHANGED <<confirmed, worker, inbox, recovery, closed, call, reply>>

------------------------

WorkerStep == WorkerTakes \/ WorkerDies

JobStep ==
  \/ StartSends \/ Started \/ ApplyConfirmed \/ AccountBegins \/ AccountApplied
  \/ MessageFails \/ (\E ok \in BOOLEAN : StopEnds(ok)) \/ StopFails \/ RestartForks

RecoveryStep == CrashNoticed \/ RecoveryStarts \/ RecoveryGivesUp \/ RecoveryRetries

\* What a call asks for is in its answer, or waits with it.
CallStep ==
  \/ \E want \in {call'.want, reply'.want} : Start(want) \/ Apply(want) \/ Restart(want)
  \/ Stop

SlotNext == WorkerStep \/ JobStep \/ RecoveryStep \/ CallStep \/ Close \/ CloseEndsWorker

SlotSpec == SlotInit /\ [][SlotNext]_slotVars
=============================================================================
