--------------------------- MODULE DocxConversion ----------------------------
(***************************************************************************)
(* DOCX import and export jobs of one envelope, and the draft history an   *)
(* import commits to.  The revision at generation g is history[g]; its     *)
(* receipt (draft_revision_command) is the key kept with it.  A job is     *)
(* named by its direction and request key; the number of its attempts      *)
(* stands for its claim token, which is new with every attempt.            *)
(***************************************************************************)
EXTENDS Naturals, Sequences, FiniteSets

CONSTANTS
  Keys,         \* idempotency keys of one author
  Sources,      \* uploaded DOCX files
  Invalid,      \* the uploads that do not convert
  MaxAttempts,  \* MAX_DOCX_CONVERSION_ATTEMPTS
  MaxRequests,  \* bound: import requests
  MaxExports,   \* bound: export jobs
  MaxEdits,     \* bound: other changes of the envelope
  MaxCrashes,   \* bound: workers that die
  MaxFaults,    \* bound: transient failures of database and object store
  MaxOverruns   \* bound: leases outlived by a running worker

ASSUME DocxConstants ==
  /\ Invalid \subseteq Sources
  /\ MaxAttempts \in Nat \ {0}
  /\ {MaxRequests, MaxExports, MaxEdits, MaxCrashes, MaxFaults, MaxOverruns} \subseteq Nat

VARIABLES
  history,   \* the revisions of the draft
  editable,  \* the envelope is a draft
  audit,     \* length of the envelope's audit chain
  objects,   \* uploads and results in the object store
  requests,  \* import requests whose upload is stored, before their insert
  jobs,      \* docx_conversion_job
  attempts,  \* docx_conversion_attempt
  workers,   \* attempts being worked on
  asked, edits, crashes, faults, overruns

draft == <<history, editable, audit>>
bounds == <<asked, edits, crashes, faults, overruns>>
vars == <<draft, objects, requests, jobs, attempts, workers, bounds>>

None == 0

generation == Len(history)

Import(k) == <<"import", k>>
Export(g) == <<"export", g>>
Generations == 1..(MaxRequests + MaxEdits)
JobIds == {Import(k) : k \in Keys} \cup {Export(g) : g \in Generations}

NoJob == [status |-> "absent", attempts |-> 0, retryable |-> TRUE, cause |-> "none",
          stale |-> FALSE, source |-> None, expected |-> None, result |-> None]

upload(s) == <<"upload", s>>
docx(g) == <<"docx", g>>

-----------------------------------------------------------------------------
(***************************************************************************)
(* Requests.                                                               *)
(***************************************************************************)

\* The upload is stored before its job exists.  A known request key answers
\* without storing anything, and a stale or frozen draft refuses.
enqueueImport(k, s, g) ==
  /\ asked < MaxRequests
  /\ jobs[Import(k)].status = "absent"
  /\ editable /\ generation = g
  /\ objects' = objects \cup {upload(s)}
  /\ requests' = requests \cup {[key |-> k, source |-> s, expected |-> g]}
  /\ asked' = asked + 1
  /\ UNCHANGED <<draft, jobs, attempts, workers, edits, crashes, faults, overruns>>

onConflict(id) == jobs[id].status = "absent"

pending(s, g) == [NoJob EXCEPT !.status = "pending", !.source = s, !.expected = g]

\* INSERT ... ON CONFLICT DO NOTHING: the second request of a key gets the
\* first one's job, or a conflict.
insertImport(r) ==
  LET id == Import(r.key)
  IN  /\ requests' = requests \ {r}
      /\ jobs' = IF onConflict(id) THEN [jobs EXCEPT ![id] = pending(r.source, r.expected)]
                 ELSE jobs
      /\ UNCHANGED <<draft, objects, attempts, workers, bounds>>

\* The export names the revision it was asked for.
enqueueExport ==
  LET id == Export(generation)
  IN  /\ generation > 0
      /\ jobs[id].status = "absent"
      /\ Cardinality({g \in Generations : jobs[Export(g)].status # "absent"}) < MaxExports
      /\ jobs' = [jobs EXCEPT ![id] = pending(None, generation)]
      /\ UNCHANGED <<draft, objects, requests, attempts, workers, bounds>>

-----------------------------------------------------------------------------
(***************************************************************************)
(* Leases.                                                                 *)
(***************************************************************************)

\* Slip: an abandoned lease is not taken over.
claimable_idleOnly(j) == j.status = "pending" \/ (j.status = "failed" /\ j.retryable)

\* Slip: a job that failed for good is tried again.
claimable_anyFailed(j) ==
  j.status \in {"pending", "failed"} \/ (j.status = "processing" /\ j.stale)

\* The backoff (available_at) is a matter of when.
claimable(j) ==
  \/ j.status = "pending"
  \/ j.status = "failed" /\ j.retryable
  \/ j.status = "processing" /\ j.stale

\* Inline, by the request that made the job, or by the drain.
claim(id) ==
  LET j == jobs[id]
      n == j.attempts + 1
  IN  /\ claimable(j)
      /\ jobs' = [jobs EXCEPT ![id] = [j EXCEPT !.status = "processing", !.attempts = n,
                                                !.stale = FALSE]]
      /\ workers' = workers \cup {[id |-> id, attempt |-> n, pc |-> "read", head |-> None,
                                   result |-> None, error |-> "none"]}
      /\ UNCHANGED <<draft, objects, requests, attempts, bounds>>

leaseHeld(w) == jobs[w.id].status = "processing" /\ jobs[w.id].attempts = w.attempt

become(w, u) == workers' = (workers \ {w}) \cup {u}
goto(w, pc) == become(w, [w EXCEPT !.pc = pc])
raise(w, error) == become(w, [w EXCEPT !.pc = "fail", !.error = error])

\* Slip: the record is written whether or not the row still is this lease's.
settle_logAnyway(w, j, outcome) ==
  /\ workers' = workers \ {w}
  /\ jobs' = IF leaseHeld(w) THEN [jobs EXCEPT ![w.id] = j] ELSE jobs
  /\ attempts' = attempts \cup {[id |-> w.id, attempt |-> w.attempt, outcome |-> outcome]}
  /\ UNCHANGED <<draft, objects, requests, bounds>>

\* One transaction: the row and the attempt's record, both under the lease.
settle(w, j, outcome) ==
  /\ workers' = workers \ {w}
  /\ IF leaseHeld(w)
     THEN /\ jobs' = [jobs EXCEPT ![w.id] = j]
          /\ attempts' = attempts \cup {[id |-> w.id, attempt |-> w.attempt, outcome |-> outcome]}
     ELSE UNCHANGED <<jobs, attempts>>
  /\ UNCHANGED <<draft, objects, requests, bounds>>

complete(w) ==
  /\ w.pc = "complete"
  /\ settle(w, [jobs[w.id] EXCEPT !.status = "succeeded", !.retryable = FALSE,
                                  !.result = w.result], "succeeded")

\* Only a transient failure is retried, and not at the last attempt.
classifyFailure(error, n) == error = "transient" /\ n < MaxAttempts

failJob(w) ==
  LET retry == classifyFailure(w.error, w.attempt)
  IN  /\ w.pc = "fail"
      /\ settle(w, [jobs[w.id] EXCEPT !.status = "failed", !.retryable = retry, !.cause = w.error],
                IF retry THEN "retryable_failed" ELSE "permanently_failed")

-----------------------------------------------------------------------------
(***************************************************************************)
(* Import: read, convert and commit through the ordinary draft commit.     *)
(***************************************************************************)

read(w) ==
  LET j == jobs[w.id]
  IN  /\ w.pc = "read" /\ w.id[1] = "import"
      /\ IF upload(j.source) \notin objects THEN raise(w, "integrity")
         ELSE IF j.source \in Invalid THEN raise(w, "invalid")
         ELSE goto(w, "lookup")
      /\ UNCHANGED <<draft, objects, requests, jobs, attempts, bounds>>

committed(k) == {g \in 1..generation : history[g].key = k}

\* The fingerprint of a commit: what is written, and onto which generation.
sameRequest(j, g) == history[g].source = j.source /\ g = j.expected + 1

\* The commit under the job's key answers it: replayed, or a conflict.
resolve(w) ==
  LET g == CHOOSE c \in committed(w.id[2]) : TRUE
  IN  IF sameRequest(jobs[w.id], g)
      THEN become(w, [w EXCEPT !.pc = "complete", !.result = g])
      ELSE raise(w, "idempotency_conflict")

\* prepareDraftRevision, first read: the receipt.
lookup(w) ==
  /\ w.pc = "lookup"
  /\ IF committed(w.id[2]) # {} THEN resolve(w) ELSE goto(w, "check")
  /\ UNCHANGED <<draft, objects, requests, jobs, attempts, bounds>>

\* prepareDraftRevision, second read: the envelope and its audit head.
check(w) ==
  /\ w.pc = "check"
  /\ IF ~editable \/ generation # jobs[w.id].expected
     THEN raise(w, "concurrency_conflict")
     ELSE become(w, [w EXCEPT !.pc = "publish", !.head = audit])
  /\ UNCHANGED <<draft, objects, requests, jobs, attempts, bounds>>

\* Slip: the generation is not compared again under the lock.
publishable_anyGeneration(w) == editable

publishable(w) == editable /\ generation = jobs[w.id].expected /\ audit = w.head

\* publishDraftRevision: one transaction under the envelope's lock, in which
\* the receipt is looked up again.  Its answer may be lost.
publish(w) ==
  /\ w.pc = "publish"
  /\ IF committed(w.id[2]) # {}
     THEN resolve(w) /\ UNCHANGED <<draft, faults>>
     ELSE IF ~publishable(w)
     THEN raise(w, "concurrency_conflict") /\ UNCHANGED <<draft, faults>>
     ELSE /\ history' = Append(history, [key |-> w.id[2], source |-> jobs[w.id].source])
          /\ audit' = audit + 1
          /\ \/ /\ become(w, [w EXCEPT !.pc = "complete", !.result = generation + 1])
                /\ UNCHANGED faults
             \/ /\ faults < MaxFaults /\ faults' = faults + 1
                /\ raise(w, "transient")
          /\ UNCHANGED editable
  /\ UNCHANGED <<objects, requests, jobs, attempts, asked, edits, crashes, overruns>>

-----------------------------------------------------------------------------
(***************************************************************************)
(* Export.                                                                 *)
(***************************************************************************)

\* Slip: the revision the envelope points to now is exported.
pinned_current(j) == generation

pinned(j) == j.expected

\* The pinned revision is rendered and stored; the result names the object.
export(w) ==
  LET g == pinned(jobs[w.id])
  IN  /\ w.pc = "read" /\ w.id[1] = "export"
      /\ objects' = objects \cup {docx(g)}
      /\ become(w, [w EXCEPT !.pc = "complete", !.result = g])
      /\ UNCHANGED <<draft, requests, jobs, attempts, bounds>>

executeClaimedJob(w) ==
  read(w) \/ lookup(w) \/ check(w) \/ publish(w) \/ export(w) \/ complete(w) \/ failJob(w)

-----------------------------------------------------------------------------
(***************************************************************************)
(* The environment.                                                        *)
(***************************************************************************)

\* A read or a write of the attempt fails.
transientFault(w) ==
  /\ w.pc \notin {"fail", "complete"}
  /\ faults < MaxFaults /\ faults' = faults + 1
  /\ raise(w, "transient")
  /\ UNCHANGED <<draft, objects, requests, jobs, attempts, asked, edits, crashes, overruns>>

\* The worker dies, or its row's update fails or is answered too late.
crash(w) ==
  /\ crashes < MaxCrashes /\ crashes' = crashes + 1
  /\ workers' = workers \ {w}
  /\ UNCHANGED <<draft, objects, requests, jobs, attempts, asked, edits, faults, overruns>>

\* Five minutes pass.
leaseExpires(id) ==
  LET j == jobs[id]
      running == \E w \in workers : w.id = id /\ w.attempt = j.attempts
  IN  /\ j.status = "processing" /\ ~j.stale
      /\ running => overruns < MaxOverruns
      /\ overruns' = IF running THEN overruns + 1 ELSE overruns
      /\ jobs' = [jobs EXCEPT ![id].stale = TRUE]
      /\ UNCHANGED <<draft, objects, requests, attempts, workers, asked, edits, crashes, faults>>

\* The author types a revision, under a key of the same author.
edit(k) ==
  /\ edits < MaxEdits /\ edits' = edits + 1
  /\ editable /\ committed(k) = {}
  /\ history' = Append(history, [key |-> k, source |-> None])
  /\ audit' = audit + 1
  /\ UNCHANGED <<editable, objects, requests, jobs, attempts, workers, asked, crashes, faults, overruns>>

\* Fields are placed, or the draft is frozen for sending.
otherChange ==
  /\ edits < MaxEdits /\ edits' = edits + 1
  /\ editable
  /\ editable' \in BOOLEAN
  /\ audit' = audit + 1
  /\ UNCHANGED <<history, objects, requests, jobs, attempts, workers, asked, crashes, faults, overruns>>

-----------------------------------------------------------------------------
Init ==
  /\ history = <<>> /\ editable = TRUE /\ audit = 1
  /\ objects = {} /\ requests = {}
  /\ jobs = [id \in JobIds |-> NoJob]
  /\ attempts = {} /\ workers = {}
  /\ asked = 0 /\ edits = 0 /\ crashes = 0 /\ faults = 0 /\ overruns = 0

Next ==
  \/ \E k \in Keys, s \in Sources : enqueueImport(k, s, generation)
  \/ \E r \in requests : insertImport(r)
  \/ enqueueExport
  \/ \E id \in JobIds : claim(id) \/ leaseExpires(id)
  \/ \E w \in workers : executeClaimedJob(w) \/ transientFault(w) \/ crash(w)
  \/ \E k \in Keys : edit(k)
  \/ otherChange

Spec == Init /\ [][Next]_vars

\* The drain runs from a schedule and works through what it claimed; leases
\* run out with the clock.
FairStep(i) ==
  \/ i = 1 /\ \E id \in JobIds : claim(id)
  \/ i = 2 /\ \E id \in JobIds : leaseExpires(id)
  \/ i = 3 /\ \E w \in workers : executeClaimedJob(w)

Fairness == \A i \in 1..3 : WF_vars(FairStep(i))

FairSpec == Spec /\ Fairness

-----------------------------------------------------------------------------
(***************************************************************************)
(* Properties.                                                             *)
(***************************************************************************)

terminal(j) == j.status = "succeeded" \/ (j.status = "failed" /\ ~j.retryable)

\* An upload enters the draft at most once, onto the generation its author
\* saw, and a job that succeeded names the revision made of its own upload,
\* also when several attempts of it commit at the same time and some of them
\* die after the commit.  About the receipts of prepareDraftRevision and
\* publishDraftRevision and the replay of a committed attempt.
ImportedOnce ==
  /\ \A g, h \in 1..generation : history[g].key = history[h].key => g = h
  /\ \A k \in Keys :
       LET j == jobs[Import(k)]
       IN  /\ j.status = "succeeded" =>
                j.result \in committed(k) /\ sameRequest(j, j.result)
           /\ \A g \in committed(k) : history[g].source = None \/ sameRequest(j, g)

\* An export that succeeded holds the revision it was asked for, and its
\* bytes are in the object store.  About enqueueExport and executeExport.
ExportPinned ==
  \A g \in Generations :
    jobs[Export(g)].status = "succeeded" =>
      jobs[Export(g)].result = g /\ docx(g) \in objects

\* The attempts' log agrees with the jobs: one record per attempt, none for
\* the attempt under way, nothing after a final record, and a job that rests
\* shows what its last record says; retryable failures end with the budget.
\* About settle, which writes both in one transaction.
AttemptsRecorded ==
  /\ \A a, b \in attempts :
       a.id = b.id => \/ a = b
                      \/ a.attempt < b.attempt /\ a.outcome = "retryable_failed"
                      \/ b.attempt < a.attempt /\ b.outcome = "retryable_failed"
  /\ \A a \in attempts : a.outcome = "retryable_failed" => a.attempt < MaxAttempts
  /\ \A id \in JobIds :
       LET j == jobs[id]
           last == {a \in attempts : a.id = id /\ a.attempt = j.attempts}
       IN  CASE j.status = "processing" -> last = {}
             [] j.status = "succeeded" -> \E a \in last : a.outcome = "succeeded"
             [] j.status = "failed" ->
                  \E a \in last : a.outcome = IF j.retryable THEN "retryable_failed"
                                              ELSE "permanently_failed"
             [] OTHER -> TRUE

\* What the conversions leave behind is true, and once: the draft's history,
\* the exported bytes and the log of attempts, whatever dies, is answered too
\* late or is tried again.
ConversionsSound == ImportedOnce /\ ExportPinned /\ AttemptsRecorded

Job(id) == INSTANCE LeasedJob WITH
  phase <- CASE jobs[id].status = "absent" -> "absent"
             [] jobs[id].status = "pending" -> "open"
             [] jobs[id].status = "processing" -> "held"
             [] jobs[id].status = "succeeded" -> "done"
             [] OTHER -> IF jobs[id].retryable THEN "open" ELSE "dead",
  lease <- jobs[id].attempts,
  winner <- IF jobs[id].status = "succeeded" THEN jobs[id].attempts ELSE None

\* Every conversion is a leased job: an attempt taken over writes nothing,
\* and a job that ended stays as it ended.  About claim and settle.
ImplementsDocxLeases ==
  /\ \A id \in JobIds : Job(id)!Absent
  /\ [][\A id \in JobIds :
          /\ [Job(id)!JobNext]_(Job(id)!job)
          /\ terminal(jobs[id]) => jobs'[id] = jobs[id]]_vars

\* Every job that was accepted succeeds or fails for good, whatever crashed.
\* About the takeover of abandoned leases in claim.
ConversionsSettle ==
  \A id \in JobIds : []<>(jobs[id].status = "absent" \/ terminal(jobs[id]))
=============================================================================
