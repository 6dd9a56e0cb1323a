------------------------- MODULE CompletionArtifacts -------------------------
(***************************************************************************)
(* Completion evidence of one completed envelope: the publication job, the *)
(* PDF repair job beside it, the immutable objects written before either   *)
(* row, and the operator's requeue of an exhausted job.                    *)
(*                                                                         *)
(* The manifest is rebuilt from immutable evidence, so every worker writes *)
(* the same bytes under the same content-addressed keys: an object is its  *)
(* kind.  A lease is numbered; the number stands for the claim token, for  *)
(* the attempt's event id and for its clock reading.                       *)
(***************************************************************************)
EXTENDS Naturals, Sequences, SequencesExt, FiniteSets

CONSTANTS
  Operators,      \* concurrent requests to requeue
  Keys,           \* their idempotency keys
  MaxAttempts,    \* MAX_COMPLETION_ARTIFACT_ATTEMPTS
  MaxCrashes,     \* bound: workers that die or lose the store
  MaxOverruns,    \* bound: leases outlived by a running worker
  MaxEvents       \* bound: audit events appended after publication

ArtifactConstants ==
  /\ MaxAttempts \in Nat \ {0}
  /\ {MaxCrashes, MaxOverruns, MaxEvents} \subseteq Nat

VARIABLES
  queue,      \* completion_artifact_job and completion_artifact_pdf_repair
  artifact,   \* completion_artifact: the lease that published it and its event
  pdf,        \* completion_artifact_pdf
  objects,    \* kinds of objects in the object store
  audit,      \* event types of the audit chain, from envelope.completed on
  receipts,   \* retry receipts: queue, key and failure generation
  tasks,      \* workers
  ops,        \* requests to requeue
  worked,     \* leases that went on to the expensive work, since the last requeue
  crashes, overruns

rows == <<queue, artifact, pdf, audit, receipts>>
bounds == <<crashes, overruns>>
vars == <<rows, objects, tasks, ops, worked, bounds>>

Queues == {"artifact", "repair"}

None == 0

NoArtifact == [by |-> None, head |-> None]

\* A row that has never existed.  at is the attempt whose failure it records.
NoRow == [status |-> "absent", token |-> None, attempts |-> 0, error |-> "none", at |-> None,
          stale |-> FALSE, leases |-> 0]

retryable(r) == r.status = "pending" \/ (r.status = "failed" /\ r.error = "transient")

\* What a worker has to write, in the order of #publishClaim and
\* #composePdfMetadata.  The repair never rewrites the published objects.
toPersist(q, withPdf) ==
  (IF q = "artifact" THEN <<"json", "markdown">> ELSE <<>>) \o
  (IF withPdf THEN <<"pdf", "pdf-manifest">> ELSE <<>>)

-----------------------------------------------------------------------------
(***************************************************************************)
(* Claiming.                                                               *)
(***************************************************************************)

\* Slip: a lease past its time is not taken over.
claimable_idleOnly(r) == r.status = "absent" \/ retryable(r)

\* Discovery inserts the row in the claim's own transaction.  The backoff
\* (available_at) is a matter of when: the claim may come at any time.
claimable(r) ==
  r.status = "absent" \/ retryable(r) \/ (r.status = "processing" /\ r.stale)

repairable == artifact # NoArtifact /\ pdf = None

claim(q, withPdf) ==
  LET r == queue[q]
      n == r.leases + 1
  IN  /\ claimable(r)
      /\ queue' = [queue EXCEPT ![q] = [r EXCEPT !.status = "processing", !.token = n,
                     !.attempts = r.attempts + 1, !.stale = FALSE, !.leases = n]]
      /\ tasks' = tasks \cup {[q |-> q, token |-> n, pdf |-> withPdf, pc |-> "claimed",
                               attempts |-> 0, anchor |-> 0, todo |-> toPersist(q, withPdf),
                               code |-> "none"]}
      /\ UNCHANGED <<artifact, pdf, audit, receipts, objects, ops, worked, bounds>>

claimPendingCompletionArtifacts == \E withPdf \in BOOLEAN : claim("artifact", withPdf)

\* Only a deployment with a PDF store repairs.
claimPendingPdfRepairs == repairable /\ claim("repair", TRUE)

holds(t) == queue[t.q].status = "processing" /\ queue[t.q].token = t.token

become(t, u) == tasks' = (tasks \ {t}) \cup {u}
finished(t) == tasks' = tasks \ {t}
failing(t, code) == [t EXCEPT !.pc = "failing", !.code = code]

-----------------------------------------------------------------------------
(***************************************************************************)
(* The worker.                                                             *)
(***************************************************************************)

attemptsSpent(r) == r.attempts > MaxAttempts

\* The re-read under the claim token, and the cap on claims that ended
\* without a recorded outcome, before any expensive work.
readClaimed(t) ==
  LET r == queue[t.q]
      u == [t EXCEPT !.attempts = r.attempts]
  IN  /\ t.pc = "claimed"
      /\ \/ ~holds(t) /\ finished(t) /\ UNCHANGED worked
         \/ holds(t) /\ attemptsSpent(r) /\ become(t, failing(u, "interrupted")) /\ UNCHANGED worked
         \/ /\ holds(t) /\ ~attemptsSpent(r)
            /\ become(t, [u EXCEPT !.pc = "evidence"])
            /\ worked' = [worked EXCEPT ![t.q] = @ + 1]
      /\ UNCHANGED <<rows, objects, ops, bounds>>

\* The chain a worker verifies: all of it for the publication; for the repair
\* the prefix the publication was built on.
evidenceChain(t) ==
  IF t.q = "artifact" THEN audit ELSE SubSeq(audit, 1, artifact.head - 1)

\* The evidence is sound when the chain ends in envelope.completed and, for a
\* repair, the published objects are there.
evidenceSound(t) ==
  /\ Last(evidenceChain(t)) = "envelope.completed"
  /\ t.q = "repair" => {"json", "markdown"} \subseteq objects

\* Everything a worker reads before it writes; any of the reads may fail.
readCompletionEvidence(t) ==
  /\ t.pc = "evidence"
  /\ \/ /\ evidenceSound(t)
        /\ become(t, [t EXCEPT !.pc = "persist", !.anchor = Len(evidenceChain(t))])
     \/ ~evidenceSound(t) /\ become(t, failing(t, "integrity"))
     \/ become(t, failing(t, "transient"))
  /\ UNCHANGED <<rows, objects, ops, worked, bounds>>

\* Slip: a write whose answer is lost is taken to have landed.
persistImmutable_unverified(t) ==
  /\ t.pc = "persist" /\ t.todo # <<>>
  /\ objects' \in {objects, objects \cup {Head(t.todo)}}
  /\ become(t, [t EXCEPT !.todo = Tail(t.todo)])
  /\ UNCHANGED <<rows, ops, worked, bounds>>

\* One content-addressed write.  A lost answer is settled by reading the
\* object back: it landed, or it is missing and the attempt fails.
persistImmutable(t) ==
  /\ t.pc = "persist" /\ t.todo # <<>>
  /\ \/ /\ objects' = objects \cup {Head(t.todo)}
        /\ become(t, [t EXCEPT !.todo = Tail(t.todo)])
     \/ /\ objects' \in {objects, objects \cup {Head(t.todo)}}
        /\ become(t, failing(t, "transient"))
  /\ UNCHANGED <<rows, ops, worked, bounds>>

done(q, status) ==
  [queue EXCEPT ![q] = [@ EXCEPT !.status = status, !.token = None, !.stale = FALSE]]

\* After a commit the worker learns of it, from the answer or from the
\* receipt; or it does not, and goes on to record a failure.
answered(t) == finished(t) \/ become(t, failing(t, "transient"))

\* Slip: the publication does not look at the lease.
leaseHeld_unchecked(t) == queue[t.q].status # "absent"

leaseHeld(t) == holds(t)

anchored(t) == t.anchor = Len(audit)

\* The publication transaction: receipt, envelope and anchor, lease; then the
\* pointer, the job, the audit event and, with a PDF, its pointer.
publishCompletionArtifact(t) ==
  /\ t.q = "artifact" /\ t.pc = "persist" /\ t.todo = <<>>
  /\ \/ /\ artifact # NoArtifact \/ ~anchored(t)
        /\ become(t, failing(t, "integrity"))
        /\ UNCHANGED rows
     \/ /\ artifact = NoArtifact /\ anchored(t) /\ ~leaseHeld(t)
        /\ finished(t)
        /\ UNCHANGED rows
     \/ /\ artifact = NoArtifact /\ anchored(t) /\ leaseHeld(t)
        /\ artifact' = [by |-> t.token, head |-> t.anchor + 1]
        /\ audit' = Append(audit, "envelope.completion_artifact_published")
        /\ queue' = done("artifact", "published")
        /\ pdf' = IF t.pdf THEN t.token ELSE None
        /\ answered(t)
        /\ UNCHANGED receipts
  /\ UNCHANGED <<objects, ops, worked, bounds>>

\* The repair's transaction.  The bytes are the same for every worker, so a
\* receipt always matches: the command is replayed.
completePdfRepair(t) ==
  /\ t.q = "repair" /\ t.pc = "persist" /\ t.todo = <<>>
  /\ \/ /\ queue["repair"].status = "repaired" \/ ~leaseHeld(t)
        /\ finished(t)
        /\ UNCHANGED rows
     \/ /\ queue["repair"].status # "repaired" /\ leaseHeld(t)
        /\ pdf' = t.token
        /\ queue' = done("repair", "repaired")
        /\ answered(t)
        /\ UNCHANGED <<artifact, audit, receipts>>
  /\ UNCHANGED <<objects, ops, worked, bounds>>

\* The code recorded, which also says whether the job may be claimed again.
errorOf(t) ==
  IF t.code = "transient" /\ t.attempts >= MaxAttempts THEN "exhausted" ELSE t.code

\* #finishFailure and #finishPdfRepairFailure, conditional on the lease.
finishFailure(t) ==
  /\ t.pc = "failing"
  /\ finished(t)
  /\ queue' = IF ~holds(t) THEN queue
              ELSE [queue EXCEPT ![t.q] = [@ EXCEPT !.status = "failed", !.token = None,
                      !.stale = FALSE, !.error = errorOf(t), !.at = t.token]]
  /\ UNCHANGED <<artifact, pdf, audit, receipts, objects, ops, worked, bounds>>

worker(t) ==
  \/ readClaimed(t) \/ readCompletionEvidence(t) \/ persistImmutable(t)
  \/ publishCompletionArtifact(t) \/ completePdfRepair(t) \/ finishFailure(t)

-----------------------------------------------------------------------------
(***************************************************************************)
(* The operator's requeue.                                                 *)
(***************************************************************************)

NoOp == [pc |-> "idle", key |-> None, attempts |-> 0, gen |-> <<>>, q |-> "none"]

\* The command echoes the attempts and the failure generation of some failed
\* row its sender has seen.
request(o) ==
  /\ ops[o].pc = "idle"
  /\ \E key \in Keys, q \in Queues :
       /\ queue[q].status = "failed" /\ ~retryable(queue[q])
       /\ ops' = [ops EXCEPT ![o] = [pc |-> "receipt", key |-> key, q |-> "none",
                    attempts |-> queue[q].attempts, gen |-> <<q, queue[q].at>>]]
  /\ UNCHANGED <<rows, objects, tasks, worked, bounds>>

receiptOf(q, key) == {c \in receipts : c.q = q /\ c.key = key}

\* retry: first the receipt of the publication queue, then the status, which
\* selects the queue.
retry(o) ==
  /\ \/ /\ ops[o].pc = "receipt"
        /\ ops' = [ops EXCEPT ![o] = IF receiptOf("artifact", ops[o].key) # {} THEN NoOp
                                     ELSE [@ EXCEPT !.pc = "status"]]
     \/ /\ ops[o].pc = "status"
        /\ ops' = [ops EXCEPT ![o].pc = "requeue",
                              ![o].q = IF artifact = NoArtifact THEN "artifact" ELSE "repair"]
  /\ UNCHANGED <<rows, objects, tasks, worked, bounds>>

\* Slip: the requeue compares the attempts only.
eligible_attemptsOnly(r, c) ==
  /\ r.status = "failed" /\ r.error = "exhausted"
  /\ r.attempts = c.attempts

\* Slip: any permanent failure may be requeued.
eligible_anyError(r, c) ==
  /\ r.status = "failed" /\ ~retryable(r)
  /\ r.attempts = c.attempts
  /\ c.gen = <<c.q, r.at>>

eligible(r, c) ==
  /\ r.status = "failed" /\ r.error = "exhausted"
  /\ r.attempts = c.attempts
  /\ c.gen = <<c.q, r.at>>

\* requeueExhaustedCompletionArtifact and requeueExhaustedPdfRepair.
requeueExhausted(o) ==
  LET c == ops[o]
      r == queue[c.q]
  IN  /\ c.pc = "requeue"
      /\ ops' = [ops EXCEPT ![o] = NoOp]
      /\ \/ /\ receiptOf(c.q, c.key) # {} \/ ~eligible(r, c)
            /\ UNCHANGED <<queue, receipts, worked>>
         \/ /\ receiptOf(c.q, c.key) = {} /\ eligible(r, c)
            /\ queue' = [queue EXCEPT ![c.q] =
                           [r EXCEPT !.status = "pending", !.attempts = 0, !.error = "none"]]
            /\ receipts' = receipts \cup {[q |-> c.q, key |-> c.key, gen |-> c.gen]}
            /\ worked' = [worked EXCEPT ![c.q] = 0]
      /\ UNCHANGED <<artifact, pdf, audit, objects, tasks, bounds>>

-----------------------------------------------------------------------------
(***************************************************************************)
(* The environment.                                                        *)
(***************************************************************************)

\* A worker dies, or cannot reach the store: its row stays leased.
crash(t) ==
  /\ crashes < MaxCrashes
  /\ crashes' = crashes + 1
  /\ finished(t)
  /\ UNCHANGED <<rows, objects, ops, worked, overruns>>

\* Five minutes pass on a lease, with its worker gone or still running.
leaseExpires(q) ==
  LET orphaned == ~\E t \in tasks : t.q = q /\ holds(t)
  IN  /\ queue[q].status = "processing" /\ ~queue[q].stale
      /\ queue' = [queue EXCEPT ![q].stale = TRUE]
      /\ \/ orphaned /\ UNCHANGED overruns
         \/ ~orphaned /\ overruns < MaxOverruns /\ overruns' = overruns + 1
      /\ UNCHANGED <<artifact, pdf, audit, receipts, objects, tasks, ops, worked, crashes>>

\* Sealing and access reissue append to the chain of a published envelope.
laterEvent ==
  /\ artifact # NoArtifact /\ Len(audit) < 2 + MaxEvents
  /\ audit' = Append(audit, "later")
  /\ UNCHANGED <<queue, artifact, pdf, receipts, objects, tasks, ops, worked, bounds>>

-----------------------------------------------------------------------------
Init ==
  /\ queue = [q \in Queues |-> NoRow]
  /\ artifact = NoArtifact /\ pdf = None
  /\ objects = {}
  /\ audit = <<"envelope.completed">>
  /\ receipts = {}
  /\ tasks = {}
  /\ ops = [o \in Operators |-> NoOp]
  /\ worked = [q \in Queues |-> 0]
  /\ crashes = 0 /\ overruns = 0

Next ==
  \/ claimPendingCompletionArtifacts \/ claimPendingPdfRepairs
  \/ \E t \in tasks : worker(t) \/ crash(t)
  \/ \E o \in Operators : request(o) \/ retry(o) \/ requeueExhausted(o)
  \/ \E q \in Queues : leaseExpires(q)
  \/ laterEvent

Spec == Init /\ [][Next]_vars

\* The scheduled drains keep coming, workers run, and time passes.
FairStep(i) ==
  \/ i = 1 /\ claimPendingCompletionArtifacts
  \/ i = 2 /\ claimPendingPdfRepairs
  \/ i = 3 /\ \E t \in tasks : worker(t)
  \/ i = 4 /\ leaseExpires("artifact")
  \/ i = 5 /\ leaseExpires("repair")

Fairness == \A i \in 1..5 : WF_vars(FairStep(i))

FairSpec == Spec /\ Fairness

-----------------------------------------------------------------------------
(***************************************************************************)
(* Properties.                                                             *)
(***************************************************************************)

\* The publication is all or nothing, and never ahead of its objects: the
\* pointer, the job and the event that follows envelope.completed come
\* together, and every object a pointer names has been written, whatever
\* crashed or lost its lease in between.  About publishCompletionArtifact,
\* completePdfRepair and the writes before them.
PublicationIntact ==
  /\ artifact # NoArtifact <=> queue["artifact"].status = "published"
  /\ artifact # NoArtifact =>
       /\ artifact.head = 2
       /\ SelectSeq(audit, LAMBDA e : e = "envelope.completion_artifact_published")
            = <<audit[artifact.head]>>
       /\ {"json", "markdown"} \subseteq objects
  /\ pdf # None => artifact # NoArtifact /\ {"pdf", "pdf-manifest"} \subseteq objects

\* Crash loops are bounded: between two requeues the expensive work of a job
\* is started at most MAX_COMPLETION_ARTIFACT_ATTEMPTS times, although a
\* worker that is killed records no failure.  About the guard at the start of
\* #publishClaim and #repairClaim.
WorkBounded == \A q \in Queues : worked[q] <= MaxAttempts

\* A requeue is for the failure its sender saw: a key is used once over both
\* queues, and no failure is requeued twice.  About the compare-and-set of
\* the requeue transactions and the order of the reads of retry.
RequeuedOnce ==
  \A c, d \in receipts : c.key = d.key \/ c.gen = d.gen => c = d

\* A permanent verdict is not undone: a job that failed on its evidence or
\* was interrupted too often is never claimed again.
VerdictFinal ==
  [][\A q \in Queues : queue[q].error \in {"integrity", "interrupted"} /\ queue[q].status = "failed"
       => queue'[q] = queue[q]]_vars

phaseOf(r) ==
  CASE r.status = "absent" -> "absent"
    [] r.status = "processing" -> "held"
    [] r.status \in {"published", "repaired"} -> "done"
    [] retryable(r) -> "open"
    [] OTHER -> "dead"

PublicationJob == INSTANCE LeasedJob WITH
  phase <- phaseOf(queue["artifact"]), lease <- queue["artifact"].leases,
  winner <- artifact.by

RepairJob == INSTANCE LeasedJob WITH
  phase <- phaseOf(queue["repair"]), lease <- queue["repair"].leases,
  winner <- IF queue["repair"].status = "repaired" THEN pdf ELSE 0

\* Both queues are leased jobs: an outcome only under the newest lease, done
\* for good.
ImplementsLeases == PublicationJob!JobSpec /\ RepairJob!JobSpec

\* Every completed envelope reaches a verdict and keeps it, also when workers
\* crash and leases are outlived: it is published or its job failed for good.
\* One published without its PDF gets it later, or the repair fails for good.
PublicationSettled ==
  /\ phaseOf(queue["artifact"]) \in {"done", "dead"}
  /\ artifact # NoArtifact => pdf # None \/ phaseOf(queue["repair"]) = "dead"
=============================================================================
