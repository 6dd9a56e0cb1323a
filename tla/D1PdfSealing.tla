----------------------------- MODULE D1PdfSealing -----------------------------
(***************************************************************************)
(* The seal of a completed envelope in the D1 stores.  A request is an     *)
(* insert whose trigger freezes the job, followed by the reads that say    *)
(* what came of it; a failure reads the count it continues from before it  *)
(* writes; a publication is the insert of a command whose trigger checks   *)
(* everything and appends to the audit chain.                              *)
(***************************************************************************)
EXTENDS PdfSealing, TLC

VARIABLE asked   \* what a sender's insert said: key and whether it inserted

d1vars == <<vars, asked>>

unasked == UNCHANGED asked

-----------------------------------------------------------------------------
(***************************************************************************)
(* The request.                                                            *)
(***************************************************************************)

NotAsked == [key |-> "none", inserted |-> FALSE]

\* Slip: a second request of the envelope is not a conflict.
conflicting_keyOnly(key) == \E c \in receipts : c.key = key
\* ON CONFLICT DO NOTHING: the actor's key, or the envelope, is taken.
conflicting(key) == \E c \in receipts : c.key = key \/ existingEnvelope

\* The insert, whose answer may be lost.
insertRequest(s) ==
  /\ senders[s] = "idle" /\ asked[s] = NotAsked
  /\ \E key \in Keys, answered \in BOOLEAN :
       /\ asked' = [asked EXCEPT ![s] =
            [key |-> key, inserted |-> ~conflicting(key) /\ answered]]
       /\ IF conflicting(key) THEN UNCHANGED <<job, receipts>>
          ELSE /\ receipts' = receipts \cup {[key |-> key, by |-> s]}
               /\ job' = [NoJob EXCEPT !.status = "pending", !.action = "submit"]
  /\ UNCHANGED <<senders, operation, late, objects, published, workers, bounds>>

\* What came of it is read back: by the key, then by the envelope.
classifyRequest(s) ==
  LET byKey == \E c \in receipts : c.key = asked[s].key
  IN  /\ senders[s] = "idle" /\ asked[s] # NotAsked
      /\ senders' = [senders EXCEPT ![s] =
           IF ~byKey THEN "existing_envelope"
           ELSE IF asked[s].inserted THEN "requested" ELSE "replayed"]
      /\ unasked
      /\ UNCHANGED <<job, receipts, operation, late, objects, published, workers, bounds>>

-----------------------------------------------------------------------------
(***************************************************************************)
(* The job.                                                                *)
(***************************************************************************)

\* One update of the rows a subquery selects, returning them.
updateReturning == claim

\* Slip: a transition looks at the status of the row only.
leaseMatches_status(w) == job.status = "processing"
\* status, next action, claim token, attempt sequence and start of the lease.
leaseMatches(w) == leaseHeld(w) /\ job.action = w.action

\* The attempt's row and the job's row in one batch, or neither.
transition(w, row) ==
  /\ finished(w)
  /\ job' = IF leaseMatches(w) THEN row ELSE job
  /\ UNCHANGED <<requested, operation, late, objects, published, bounds>>

checkpoint(w) ==
  /\ w.pc = "record"
  /\ \/ w.outcome = "ambiguous" /\ transition(w, checkpointed("recover_submit"))
     \/ w.outcome = "receipt"
        /\ transition(w, [checkpointed("poll_provider") EXCEPT !.receipt = TRUE])
     \/ w.outcome = "pending" /\ transition(w, checkpointed("poll_provider"))
     \/ w.outcome = "sealed" /\ transition(w, [checkpointed("validate") EXCEPT !.sealed = TRUE])

complete(w) ==
  /\ w.pc = "record" /\ w.outcome = "valid"
  /\ transition(w, [checkpointed("publish") EXCEPT
                      !.status = "publication_ready", !.report = w.token])

\* fail reads the job first, and goes on from the failures it finds.
readFailures(w) ==
  /\ w.pc = "record"
  /\ w.outcome \notin {"ambiguous", "receipt", "pending", "sealed", "valid"}
  /\ IF w.outcome \in Transient /\ ~budgetLeft(job.failures) THEN finished(w)
     ELSE become(w, ("failures" :> job.failures) @@ [w EXCEPT !.pc = "fail"])
  /\ UNCHANGED <<job, requested, operation, late, objects, published, bounds>>

\* Slip: the failure starts the job over.
fail_startsOver(w) ==
  LET n == w.failures + 1
      again == w.outcome \in Transient /\ budgetLeft(n)
  IN  /\ w.pc = "fail"
      /\ transition(w, IF job.failures # w.failures THEN job
           ELSE [job EXCEPT !.status = "failed", !.token = None, !.failures = n, !.action = "submit",
                   !.receipt = FALSE, !.retryable = again, !.cause = w.outcome])

fail(w) ==
  LET transient == w.outcome \in Transient
      n == IF transient THEN w.failures + 1 ELSE w.failures
  IN  /\ w.pc = "fail"
      /\ transition(w, IF job.failures # w.failures THEN job
           ELSE [job EXCEPT !.status = "failed", !.token = None, !.failures = n,
                   !.retryable = transient /\ budgetLeft(n), !.cause = w.outcome])

d1worker(w) ==
  \/ submit(w) \/ recoverSubmit(w) \/ poll(w) \/ validate(w) \/ persistImmutable(w)
  \/ checkpoint(w) \/ complete(w) \/ readFailures(w) \/ fail(w)

-----------------------------------------------------------------------------
(***************************************************************************)
(* The publication.                                                        *)
(***************************************************************************)

\* Slip: the command has no key on the job.
commandRow_none == FALSE
commandRow == publication # None

\* An earlier command answers.
resolvePublish(p) ==
  /\ p.pc = "publish"
  /\ publishers' = IF commandRow THEN publishers \ {p}
                   ELSE (publishers \ {p}) \cup {[p EXCEPT !.pc = "insert"]}
  /\ UNCHANGED <<job, requested, operation, late, objects, publication, audit, workers, bounds>>

\* The trigger: the job is ready and the anchor is the newest event.  Refused
\* or failed, the job is left to the next drain, whatever the answer was.
insertPublish(p) ==
  /\ p.pc = "insert"
  /\ publishers' = publishers \ {p}
  /\ \/ /\ ~commandRow /\ job.status = "publication_ready" /\ headCurrent(p)
        /\ publication' = p.head + 1
        /\ audit' = Append(audit, "envelope.pdf_seal_published")
     \/ UNCHANGED <<publication, audit>>
  /\ UNCHANGED <<job, requested, operation, late, objects, workers, bounds>>

-----------------------------------------------------------------------------
D1Init == Init /\ asked = [s \in Senders |-> NotAsked]

D1Next ==
  \/ \E s \in Senders : insertRequest(s) \/ classifyRequest(s)
  \/ /\ unasked
     /\ \/ updateReturning \/ discover
        \/ \E w \in workers : d1worker(w) \/ crash(w)
        \/ \E p \in publishers : verify(p) \/ resolvePublish(p) \/ insertPublish(p) \/ drop(p)
        \/ providerRuns \/ arrivesLate \/ laterEvent \/ leaseExpires

D1Spec == D1Init /\ [][D1Next]_d1vars

-----------------------------------------------------------------------------
(***************************************************************************)
(* Properties, besides those of PdfSealing.                                *)
(***************************************************************************)

\* An envelope's seal is ordered once: one receipt, at most one sender told
\* that it placed the order, and everybody told of the order that is there,
\* although the insert and the reads that explain it are apart and the
\* insert's answer may be lost.  About request.
OrderedOnce ==
  /\ Cardinality(receipts) <= 1
  /\ \A s \in Senders :
       /\ senders[s] = "requested" => \E c \in receipts : c.by = s
       /\ senders[s] # "idle" => job.status # "absent"
=============================================================================
