-------------------------- MODULE WorkerManagerSlot --------------------------
(***************************************************************************)
(* WorkerManager implements WorkerSlot: the mapping of its state.          *)
(***************************************************************************)
EXTENDS WorkerManager, FiniteSets

WithoutRevision(snap) == [gen |-> snap.gen, cfg |-> snap.cfg]

\* A Worker that is stopping takes no snapshot any more.
Serves == epoch # 0 /\ Worker.alive /\ ~Worker.stopping

\* The n-th of a set of positions is the one that has n of them up to itself.
UpTo(S, i) == Cardinality({j \in S : j <= i})
Nth(S, n) == CHOOSE i \in S : UpTo(S, i) = n

\* The snapshots of the configures in a queue, in their order.
Configures(q) == {i \in DOMAIN q : q[i].type = "configure"}
Snaps(q) ==
  [n \in 1..Cardinality(Configures(q)) |-> WithoutRevision(q[Nth(Configures(q), n)].snap)]

\* What the ProviderService knows of the manager.
SlotConfirmed == [gen |-> generation, cfg |-> lastSnapshot.cfg]
SlotWorker ==
  [alive |-> Serves,
   snap |-> IF Serves THEN [gen |-> Worker.gen, cfg |-> Worker.cfg]
            ELSE [gen |-> 0, cfg |-> NoConfig]]
SlotInbox == IF Serves THEN Snaps(toWorker[epoch]) ELSE <<>>
JobOf(o) ==
  [fn |-> IF o.fn = "close" THEN "stop" ELSE o.fn, snap |-> WithoutRevision(o.snap),
   restart |-> o.restart]
StageOf(r) == IF r.stage \in {"attempt", "rejected"} THEN r.stage ELSE "none"
CallOf(c)  == [kind |-> c.kind, want |-> WithoutRevision(c.want)]
ReplyOf(r) ==
  [kind |-> r.kind, want |-> WithoutRevision(r.want), ok |-> r.ok, phase |-> r.phase,
   gen |-> r.gen]

Slot == INSTANCE WorkerSlot WITH
  confirmed <- SlotConfirmed, worker <- SlotWorker, inbox <- SlotInbox,
  job <- JobOf(operation), recovery <- StageOf(recovery), closed <- Closed,
  call <- CallOf(call), reply <- ReplyOf(reply)

\* The WorkerManager, with its requests, timeouts, signals and probes, keeps what
\* WorkerSlot promises the ProviderService: whatever was timed out, joined, crashed
\* or recovered, an answer says what was confirmed, and a Worker serves only
\* snapshots that were sent to it.
ImplementsSlot == Slot!SlotSpec
=============================================================================
