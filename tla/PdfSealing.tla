----------------------------- MODULE PdfSealing ------------------------------
(***************************************************************************)
(* The instance seal of one completed envelope: the request that freezes   *)
(* its job, the leased worker that advances the job by one action at a     *)
(* time, the remote provider with its lost and late submissions, and the   *)
(* drain that publishes the validated result on the audit chain.           *)
(*                                                                         *)
(* The job carries one stable operation id, so the provider's operation    *)
(* and its result are one each.  A lease is numbered; the number stands    *)
(* for the claim token, and names the validation report made under it.     *)
(***************************************************************************)
EXTENDS Naturals, Sequences, FiniteSets

CONSTANTS
  Senders,       \* concurrent requests to seal
  Keys,          \* their idempotency keys
  MaxFailures,   \* PDF_SEAL_JOB_MAX_CONSECUTIVE_FAILURES
  MaxPublishers, \* bound: drains publishing at the same time
  MaxDefers,     \* bound: polls the provider answers with pending
  MaxCrashes,    \* bound: workers that die
  MaxOverruns,   \* bound: leases outlived by a running worker
  MaxEvents      \* bound: events others append to the audit chain

SealConstants ==
  /\ MaxFailures \in Nat \ {0}
  /\ {MaxPublishers, MaxDefers, MaxCrashes, MaxOverruns, MaxEvents} \subseteq Nat

VARIABLES
  job,         \* pdf_seal_job
  receipts,    \* pdf_seal_request_command
  senders,     \* what each sender was answered
  operation,   \* the provider's operation under the job's operation id
  late,        \* a submission given up by its sender is still on its way
  objects,     \* objects in the object store
  publication, \* pdf_seal_publication
  audit,       \* event types of the audit chain
  workers,     \* leases being worked on
  publishers,  \* drains that found the job ready to publish
  defers, crashes, overruns

bounds == <<defers, crashes, overruns>>
published == <<publication, audit, publishers>>
requested == <<receipts, senders>>
vars == <<job, requested, operation, late, objects, published, workers, bounds>>

None == 0

NoJob == [status |-> "absent", action |-> "none", token |-> None, leases |-> 0, failures |-> 0,
          retryable |-> FALSE, cause |-> "none", receipt |-> FALSE, sealed |-> FALSE,
          report |-> None, stale |-> FALSE]

\* Objects of the store, under content-addressed keys.
sealedPdf == <<"sealed", None>>
report(n) == <<"report", n>>

-----------------------------------------------------------------------------
(***************************************************************************)
(* The request.                                                            *)
(***************************************************************************)

existingEnvelope == receipts # {}

\* One transaction: a receipt under the key answers, then one for the
\* envelope; otherwise the job and the receipt are written.
request(s) ==
  /\ senders[s] = "idle"
  /\ \E key \in Keys :
       \/ /\ \E c \in receipts : c.key = key
          /\ senders' = [senders EXCEPT ![s] = "replayed"]
          /\ UNCHANGED <<job, receipts>>
       \/ /\ ~\E c \in receipts : c.key = key
          /\ existingEnvelope
          /\ senders' = [senders EXCEPT ![s] = "existing_envelope"]
          /\ UNCHANGED <<job, receipts>>
       \/ /\ ~\E c \in receipts : c.key = key
          /\ ~existingEnvelope
          /\ job' = [NoJob EXCEPT !.status = "pending", !.action = "submit"]
          /\ receipts' = receipts \cup {[key |-> key, by |-> s]}
          /\ senders' = [senders EXCEPT ![s] = "requested"]
  /\ UNCHANGED <<operation, late, objects, published, workers, bounds>>

-----------------------------------------------------------------------------
(***************************************************************************)
(* Leases and the conditional transition every outcome goes through.       *)
(***************************************************************************)

\* Slip: a lease past its time is not taken over.
claimable_idleOnly ==
  /\ job.action # "publish"
  /\ job.status = "pending" \/ (job.status = "failed" /\ job.retryable)

\* The backoff and the poll delay (available_at) are a matter of when.
claimable ==
  /\ job.action # "publish"
  /\ \/ job.status = "pending"
     \/ job.status = "failed" /\ job.retryable /\ job.failures < MaxFailures
     \/ job.status = "processing" /\ job.stale

claim ==
  LET n == job.leases + 1
  IN  /\ claimable
      /\ job' = [job EXCEPT !.status = "processing", !.token = n, !.leases = n,
                            !.retryable = FALSE, !.stale = FALSE]
      /\ workers' = workers \cup {[token |-> n, action |-> job.action, pc |-> "act",
                                   outcome |-> "none"]}
      /\ UNCHANGED <<requested, operation, late, objects, published, bounds>>

\* Slip: any worker may write the outcome of the action.
leaseHeld_unchecked(w) == job.status = "processing"

leaseHeld(w) == job.status = "processing" /\ job.token = w.token

become(w, u) == workers' = (workers \ {w}) \cup {u}
finished(w) == workers' = workers \ {w}
ended(w, outcome) == [w EXCEPT !.pc = "record", !.outcome = outcome]

\* What a recorded outcome leaves in the row: the next action, with the
\* evidence it rests on, and no failures in a row.
checkpointed(action) ==
  [job EXCEPT !.status = "pending", !.action = action, !.token = None, !.failures = 0]

budgetLeft(failures) == failures < MaxFailures

\* Slip: a retry starts over.
failed_startsOver(retryable, cause) ==
  LET n == IF retryable THEN job.failures + 1 ELSE job.failures
  IN  [job EXCEPT !.status = "failed", !.token = None, !.failures = n, !.cause = cause,
                  !.retryable = retryable /\ budgetLeft(n),
                  !.action = "submit", !.receipt = FALSE, !.sealed = FALSE]

\* The action and its evidence are kept for the next attempt.
failed(retryable, cause) ==
  LET n == IF retryable THEN job.failures + 1 ELSE job.failures
  IN  [job EXCEPT !.status = "failed", !.token = None, !.failures = n, !.cause = cause,
                  !.retryable = retryable /\ budgetLeft(n)]

Transient == {"transient"}

\* checkpoint, complete and fail, all conditional on the lease and on the
\* action it was taken for.
record(w) ==
  LET o == w.outcome
  IN  /\ w.pc = "record"
      /\ finished(w)
      /\ job' =
           IF ~leaseHeld(w) \/ job.action # w.action THEN job
           ELSE CASE o = "ambiguous" -> checkpointed("recover_submit")
                  [] o = "receipt" -> [checkpointed("poll_provider") EXCEPT !.receipt = TRUE]
                  [] o = "pending" -> checkpointed("poll_provider")
                  [] o = "sealed" -> [checkpointed("validate") EXCEPT !.sealed = TRUE]
                  [] o = "valid" -> [checkpointed("publish") EXCEPT
                                       !.status = "publication_ready", !.report = w.token]
                  [] OTHER -> failed(o \in Transient, o)
      /\ UNCHANGED <<requested, operation, late, objects, published, bounds>>

-----------------------------------------------------------------------------
(***************************************************************************)
(* The actions of a worker.                                                *)
(***************************************************************************)

accept(o) == IF o = "none" THEN "pending" ELSE o

\* The source is sent under the operation id: accepted and answered, or lost
\* on one of the ways, or refused.  A lost request may still arrive.
submit(w) ==
  /\ w.pc = "act" /\ w.action = "submit"
  /\ \/ /\ operation' = accept(operation)
        /\ become(w, ended(w, "receipt")) /\ UNCHANGED late
     \/ /\ operation' \in {operation, accept(operation)}
        /\ late' \in {late, TRUE}
        /\ become(w, ended(w, "ambiguous"))
     \/ /\ \E o \in {"transient", "refused"} : become(w, ended(w, o))
        /\ UNCHANGED <<operation, late>>
  /\ UNCHANGED <<job, requested, objects, published, bounds>>

\* Slip: recovery sends the source again and takes a missing operation for
\* one that is on its way.
recoverSubmit_assumed(w) ==
  /\ w.pc = "act" /\ w.action = "recover_submit"
  /\ become(w, ended(w, "receipt"))
  /\ UNCHANGED <<job, requested, operation, late, objects, published, bounds>>

\* The operation is looked up by its id; the source is not sent again.
recoverSubmit(w) ==
  /\ w.pc = "act" /\ w.action = "recover_submit"
  /\ \/ operation = "none" /\ become(w, ended(w, "operation_not_found"))
     \/ operation # "none" /\ become(w, ended(w, "receipt"))
     \/ become(w, ended(w, "transient"))
  /\ UNCHANGED <<job, requested, operation, late, objects, published, bounds>>

\* The status, then the result of a finished operation.
poll(w) ==
  /\ w.pc = "act" /\ w.action = "poll_provider"
  /\ \/ /\ operation = "pending" /\ defers < MaxDefers
        /\ defers' = defers + 1
        /\ become(w, ended(w, "pending"))
     \/ /\ operation = "succeeded"
        /\ become(w, [w EXCEPT !.pc = "persist", !.outcome = "sealed"])
        /\ UNCHANGED defers
     \/ operation = "failed" /\ become(w, ended(w, "refused")) /\ UNCHANGED defers
     \/ become(w, ended(w, "transient")) /\ UNCHANGED defers
  /\ UNCHANGED <<job, requested, operation, late, objects, published, crashes, overruns>>

\* Source and sealed PDF are read back, then the independent validator judges.
validate(w) ==
  /\ w.pc = "act" /\ w.action = "validate"
  /\ \/ become(w, IF sealedPdf \in objects THEN [w EXCEPT !.pc = "persist", !.outcome = "valid"]
                  ELSE ended(w, "integrity"))
     \/ \E o \in {"invalid", "transient"} : become(w, ended(w, o))
  /\ UNCHANGED <<job, requested, operation, late, objects, published, bounds>>

product(w) == IF w.outcome = "sealed" THEN sealedPdf ELSE report(w.token)

\* Whatever the store answered, the object is opened and hashed again.
persistImmutable(w) ==
  /\ w.pc = "persist"
  /\ \/ /\ objects' = objects \cup {product(w)}
        /\ become(w, [w EXCEPT !.pc = "record"])
     \/ /\ objects' \in {objects, objects \cup {product(w)}}
        /\ become(w, ended(w, "transient"))
  /\ UNCHANGED <<job, requested, operation, late, published, bounds>>

processClaim(w) ==
  submit(w) \/ recoverSubmit(w) \/ poll(w) \/ validate(w) \/ persistImmutable(w) \/ record(w)

-----------------------------------------------------------------------------
(***************************************************************************)
(* Publication.                                                            *)
(***************************************************************************)

\* A drain finds the job ready, and no publication.
discover ==
  /\ Cardinality(publishers) < MaxPublishers
  /\ job.status = "publication_ready" /\ publication = None
  /\ \E i \in 1..MaxPublishers :
       /\ \A p \in publishers : p.id # i
       /\ publishers' = publishers \cup {[id |-> i, pc |-> "verify", head |-> 0]}
  /\ UNCHANGED <<job, requested, operation, late, objects, publication, audit, workers, bounds>>

\* The three objects are read back, the job is read again, then the head.
verify(p) ==
  LET sound == {sealedPdf, report(job.report)} \subseteq objects
  IN  /\ p.pc = "verify"
      /\ publishers' = (publishers \ {p}) \cup
           (IF sound THEN {[p EXCEPT !.pc = "publish", !.head = Len(audit)]} ELSE {})
      /\ UNCHANGED <<job, requested, operation, late, objects, publication, audit, workers, bounds>>

\* Slip: a publication of this job is not looked for.
resolveCommand_ignored == FALSE

resolveCommand == publication # None

headCurrent(p) == p.head = Len(audit)

\* One transaction: the publication, its audit event and its receipt.  A
\* refusal leaves the job for the next drain.
publishPdfSeal(p) ==
  /\ p.pc = "publish"
  /\ publishers' = publishers \ {p}
  /\ IF ~resolveCommand /\ job.status = "publication_ready" /\ headCurrent(p)
     THEN /\ publication' = p.head + 1
          /\ audit' = Append(audit, "envelope.pdf_seal_published")
     ELSE UNCHANGED <<publication, audit>>
  /\ UNCHANGED <<job, requested, operation, late, objects, workers, bounds>>

-----------------------------------------------------------------------------
(***************************************************************************)
(* The environment.                                                        *)
(***************************************************************************)

providerRuns ==
  /\ operation = "pending"
  /\ operation' \in {"succeeded", "failed"}
  /\ UNCHANGED <<job, requested, late, objects, published, workers, bounds>>

arrivesLate ==
  /\ late
  /\ operation' = accept(operation)
  /\ late' = FALSE
  /\ UNCHANGED <<job, requested, objects, published, workers, bounds>>

\* Completion access reissues and the like go on extending the chain.
laterEvent ==
  /\ Len(audit) <= MaxEvents
  /\ audit' = Append(audit, "later")
  /\ UNCHANGED <<job, requested, operation, late, objects, publication, publishers, workers, bounds>>

\* A worker or its connection to the job store dies; the row stays leased.
crash(w) ==
  /\ crashes < MaxCrashes
  /\ crashes' = crashes + 1
  /\ finished(w)
  /\ UNCHANGED <<job, requested, operation, late, objects, published, defers, overruns>>

\* A publisher dies, or an object read of it fails.
drop(p) ==
  /\ crashes < MaxCrashes
  /\ crashes' = crashes + 1
  /\ publishers' = publishers \ {p}
  /\ UNCHANGED <<job, requested, operation, late, objects, publication, audit, workers, defers, overruns>>

\* Five minutes pass.
leaseExpires ==
  LET running == \E w \in workers : w.token = job.token
  IN  /\ job.status = "processing" /\ ~job.stale
      /\ running => overruns < MaxOverruns
      /\ overruns' = IF running THEN overruns + 1 ELSE overruns
      /\ job' = [job EXCEPT !.stale = TRUE]
      /\ UNCHANGED <<requested, operation, late, objects, published, workers, defers, crashes>>

-----------------------------------------------------------------------------
Init ==
  /\ job = NoJob
  /\ receipts = {} /\ senders = [s \in Senders |-> "idle"]
  /\ operation = "none" /\ late = FALSE
  /\ objects = {}
  /\ publication = None /\ audit = <<"envelope.completion_artifact_published">>
  /\ workers = {} /\ publishers = {}
  /\ defers = 0 /\ crashes = 0 /\ overruns = 0

Next ==
  \/ \E s \in Senders : request(s)
  \/ claim \/ discover
  \/ \E w \in workers : processClaim(w) \/ crash(w)
  \/ \E p \in publishers : verify(p) \/ publishPdfSeal(p) \/ drop(p)
  \/ providerRuns \/ arrivesLate \/ laterEvent \/ leaseExpires

Spec == Init /\ [][Next]_vars

\* The drain runs from a schedule and works through its claims and its
\* candidates one after the other, leases run out with the clock, and the
\* provider decides.
FairStep(i) ==
  \/ i = 1 /\ claim
  \/ i = 2 /\ discover
  \/ i = 3 /\ leaseExpires
  \/ i = 4 /\ providerRuns
  \/ i = 5 /\ \E w \in workers : processClaim(w)
  \/ i = 6 /\ \E p \in publishers : verify(p) \/ publishPdfSeal(p)

Fairness == \A i \in 1..6 : WF_vars(FairStep(i))

FairSpec == Spec /\ Fairness

-----------------------------------------------------------------------------
(***************************************************************************)
(* Properties.                                                             *)
(***************************************************************************)

\* One seal per envelope, on the chain: a publication names an event of its
\* own, there is no other seal event, and every object it points to is there,
\* however the drains and the other writers of the chain interleave.  About
\* publishPdfSeal and the read-back of persistImmutable.
SealPublicationIntact ==
  LET seals == {i \in DOMAIN audit : audit[i] = "envelope.pdf_seal_published"}
  IN  /\ seals = {publication} \ {None}
      /\ job.sealed => sealedPdf \in objects
      /\ publication # None => {sealedPdf, report(job.report)} \subseteq objects

\* What the job has of the provider is real: a receipt stands for an
\* operation the provider has, and a sealed PDF for one that succeeded, also
\* after lost and late submissions.  About the recovery of ambiguous submits.
ReceiptsReal ==
  /\ job.receipt => operation # "none"
  /\ job.sealed => operation = "succeeded"

\* A worker that outlived its lease changes nothing: evidence once recorded
\* stays, a job ready to publish or failed for good stays as it is.  About
\* the conditional transition of the job store.
EvidenceKept ==
  [][/\ job.receipt => job'.receipt
     /\ job.sealed => job'.sealed
     /\ job.status = "publication_ready" => job' = job
     /\ job.status = "failed" /\ ~job.retryable => job' = job]_vars

Leases == INSTANCE LeasedJob WITH
  phase <- CASE job.status = "absent" -> "absent"
             [] job.status = "pending" -> "open"
             [] job.status = "processing" -> "held"
             [] job.status = "publication_ready" -> "done"
             [] OTHER -> IF job.retryable THEN "open" ELSE "dead",
  lease <- job.leases, winner <- job.report

\* The job is a leased job: every action of it is taken by one lease at a
\* time and the validation that counts is the one of the newest.  About claim
\* and the transitions of the job store.
ImplementsSealLeases == Leases!JobSpec

\* A requested seal is published, or fails for good.  About the drain.
SealSettled ==
  receipts # {} => publication # None \/ (job.status = "failed" /\ ~job.retryable)
=============================================================================
