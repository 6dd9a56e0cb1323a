------------------------ MODULE D1CompletionArtifacts -------------------------
(***************************************************************************)
(* The completion artifact queues in the D1 stores.  A claim is one batch; *)
(* a publication, a repair and a requeue are the insert of a command whose *)
(* trigger does the rest or aborts.  When the batch throws, the store does *)
(* not know why, and finds out with reads that others run between: only a  *)
(* proven conflict is a verdict, anything else is thrown on and retried.   *)
(***************************************************************************)
EXTENDS CompletionArtifacts

d1rest == <<receipts, objects, ops, worked, bounds>>

discoverAndClaimArtifacts == \E withPdf \in BOOLEAN : claim("artifact", withPdf)
discoverAndClaimRepairs == repairable /\ claim("repair", TRUE)

-----------------------------------------------------------------------------
(***************************************************************************)
(* Publication and repair.                                                 *)
(***************************************************************************)

\* The row of the command table, whose key is the envelope.
commandRow(t) ==
  IF t.q = "artifact" THEN artifact # NoArtifact ELSE queue["repair"].status = "repaired"

\* Every attempt at the publication has an event of its own; a repair has
\* nothing that differs between attempts.
sameEvidence(t) == t.q = "repair" \/ artifact.by = t.token

\* One read of the store; it may fail, which the service takes as transient.
read(t, from, answer) ==
  /\ t.pc = from
  /\ answer \/ become(t, failing(t, "transient"))
  /\ UNCHANGED <<queue, artifact, pdf, audit, d1rest>>

resolveCommand(t, from, next) ==
  read(t, from,
    \/ commandRow(t) /\ sameEvidence(t) /\ finished(t)
    \/ commandRow(t) /\ ~sameEvidence(t) /\ become(t, failing(t, "integrity"))
    \/ ~commandRow(t) /\ become(t, [t EXCEPT !.pc = next]))

\* Before the command; the objects are in place.
resolveBefore(t) == t.todo = <<>> /\ resolveCommand(t, "persist", "batch")

\* Slip: the trigger does not look at the lease.
leaseGuard_none(t) == queue[t.q].status # "absent"
leaseGuard(t) == holds(t)

\* The anchor is the newest event of the chain; a repair does not extend it.
headGuard(t) == t.q = "repair" \/ anchored(t)

publish(t) ==
  /\ artifact' = [by |-> t.token, head |-> t.anchor + 1]
  /\ audit' = Append(audit, "envelope.completion_artifact_published")
  /\ queue' = done("artifact", "published")
  /\ pdf' = IF t.pdf THEN t.token ELSE None

\* INSERT OR IGNORE of the pointer, then the row of the repair.
repair(t) ==
  /\ pdf' = IF pdf = None THEN t.token ELSE pdf
  /\ queue' = done("repair", "repaired")
  /\ UNCHANGED <<artifact, audit>>

\* The insert and its trigger.  It throws when a guard aborts it, when D1 fails
\* before the commit, and when the answer is lost after it.
commandBatch(t) ==
  /\ t.pc = "batch"
  /\ \/ /\ ~commandRow(t) /\ leaseGuard(t) /\ headGuard(t)
        /\ IF t.q = "artifact" THEN publish(t) ELSE repair(t)
        /\ finished(t) \/ become(t, [t EXCEPT !.pc = "thrown"])
     \/ /\ become(t, [t EXCEPT !.pc = "thrown"])
        /\ UNCHANGED <<queue, artifact, pdf, audit>>
  /\ UNCHANGED d1rest

\* Slip: a thrown batch is an integrity error.
resolveAfter_condemns(t) ==
  read(t, "thrown", become(t, failing(t, "integrity")))

resolveAfter(t) == resolveCommand(t, "thrown", "lease")

leaseStillValid(t) ==
  read(t, "lease", IF holds(t) THEN become(t, [t EXCEPT !.pc = "predicates"]) ELSE finished(t))

predicatesSatisfied(t) ==
  read(t, "predicates",
    become(t, failing(t, IF headGuard(t) THEN "transient" ELSE "integrity")))

d1worker(t) ==
  \/ readClaimed(t) \/ readCompletionEvidence(t) \/ persistImmutable(t)
  \/ resolveBefore(t) \/ commandBatch(t) \/ resolveAfter(t)
  \/ leaseStillValid(t) \/ predicatesSatisfied(t) \/ finishFailure(t)

-----------------------------------------------------------------------------
(***************************************************************************)
(* The requeue.                                                            *)
(***************************************************************************)

\* Slip: the trigger compares the attempts only.
requeueGuard_attempts(c) ==
  LET r == queue[c.q] IN r.status = "failed" /\ r.error = "exhausted" /\ r.attempts = c.attempts
requeueGuard(c) ==
  LET r == queue[c.q]
  IN  /\ r.status = "failed" /\ r.error = "exhausted" /\ r.token = None
      /\ r.attempts = c.attempts /\ c.gen = <<c.q, r.at>>

\* The receipt and the reset are one insert; whatever made it throw, the
\* command is over.
requeueBatch(o) ==
  LET c == ops[o]
      admitted == receiptOf(c.q, c.key) = {} /\ requeueGuard(c)
  IN  /\ c.pc = "requeue"
      /\ ops' = [ops EXCEPT ![o] = NoOp]
      /\ \/ /\ admitted
            /\ queue' = [queue EXCEPT ![c.q] =
                           [@ EXCEPT !.status = "pending", !.attempts = 0, !.error = "none"]]
            /\ receipts' = receipts \cup {[q |-> c.q, key |-> c.key, gen |-> c.gen]}
            /\ worked' = [worked EXCEPT ![c.q] = 0]
         \/ UNCHANGED <<queue, receipts, worked>>
      /\ UNCHANGED <<artifact, pdf, audit, objects, tasks, bounds>>

-----------------------------------------------------------------------------
D1Next ==
  \/ discoverAndClaimArtifacts \/ discoverAndClaimRepairs
  \/ \E t \in tasks : d1worker(t) \/ crash(t)
  \/ \E o \in Operators : request(o) \/ retry(o) \/ requeueBatch(o)
  \/ \E q \in Queues : leaseExpires(q)
  \/ laterEvent

D1Spec == Init /\ [][D1Next]_vars

-----------------------------------------------------------------------------
(***************************************************************************)
(* Properties, besides those of CompletionArtifacts.                       *)
(***************************************************************************)

\* Nothing is condemned that is sound: with sound evidence no job ends on an
\* integrity verdict, whatever made its batch throw and whoever published or
\* took the lease over between the reads that look for the cause.  About the
\* classification in publishCompletionArtifact and completePdfRepair.
SoundNotCondemned ==
  \A q \in Queues : queue[q].status = "failed" => queue[q].error # "integrity"
=============================================================================
