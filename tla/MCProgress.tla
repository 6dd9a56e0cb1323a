------------------------------ MODULE MCProgress ------------------------------
(***************************************************************************)
(* Progress of the background work under the fairness of its schedules,    *)
(* and its refinement of the leased job.  The components share no row, so  *)
(* each is explored on its own: `part' names the one that moves.           *)
(***************************************************************************)
EXTENDS DocxConversion, TLC

CONSTANTS o1, k1, k2, k3, r1, d1, d2, e1, e2, v1

VARIABLES
  part,                   \* the component that moves
  \* CompletionArtifacts, D1CompletionArtifacts
  queue, artifact, pdf, artObjects, artAudit, receipts, tasks, ops, worked,
  artCrashes, artOverruns,
  \* PdfSealing, D1PdfSealing
  job, sealReceipts, senders, operation, late, sealObjects, publication, sealAudit,
  sealWorkers, publishers, defers, sealCrashes, sealOverruns, sealAsked,
  \* CompletionDelivery
  rows, grantPdf, grantReceipts, grantAudit, mails, keyring, seeds, grantTasks,
  sweeps, grantOps, grantCrashes, grantOverruns,
  \* Webhooks, D1Webhooks
  endpoint, commands, lock, sessions, outbox, order, log, drains, posts, activeKey,
  hookCrashes, hookOverruns, candidates,
  \* InvitationMail
  invitation, row, mailWorkers, mailMails, mailCrashes, mailOverruns,
  \* CapabilityReseal
  capRows, running, previous, capSweeps, capTasks,
  \* ObjectRetention
  day, retObjects, ledger, references, clients, retSweeps, checkpoint, begun,
  retFaults,
  \* CloudflareReconciler
  depD1, depLedger, r2, versions, active, triggers, secrets, recovery, binding,
  file, backups, proc, report, budget

-----------------------------------------------------------------------------
\* Publication and repair, with a crash and an outlived lease.
Artifacts == INSTANCE CompletionArtifacts WITH
  Operators <- {}, Keys <- {k1}, MaxAttempts <- 2, MaxCrashes <- 1,
  MaxOverruns <- 1, MaxEvents <- 0, objects <- artObjects, audit <- artAudit,
  crashes <- artCrashes, overruns <- artOverruns
D1Artifacts == INSTANCE D1CompletionArtifacts WITH
  Operators <- {}, Keys <- {k1}, MaxAttempts <- 2, MaxCrashes <- 1,
  MaxOverruns <- 1, MaxEvents <- 0, objects <- artObjects, audit <- artAudit,
  crashes <- artCrashes, overruns <- artOverruns

\* One request, every fault once.
Seals == INSTANCE PdfSealing WITH
  Senders <- {o1}, Keys <- {k1}, MaxFailures <- 1, MaxPublishers <- 1,
  MaxDefers <- 1, MaxCrashes <- 1, MaxOverruns <- 1, MaxEvents <- 0,
  receipts <- sealReceipts, objects <- sealObjects, audit <- sealAudit,
  workers <- sealWorkers, crashes <- sealCrashes, overruns <- sealOverruns
D1Seals == INSTANCE D1PdfSealing WITH
  Senders <- {o1}, Keys <- {k1}, MaxFailures <- 1, MaxPublishers <- 1,
  MaxDefers <- 0, MaxCrashes <- 1, MaxOverruns <- 1, MaxEvents <- 0,
  receipts <- sealReceipts, objects <- sealObjects, audit <- sealAudit,
  workers <- sealWorkers, crashes <- sealCrashes, overruns <- sealOverruns,
  asked <- sealAsked

\* Completion access: one recipient under a crash and an outlived lease;
\* and two rotations while a grant is claimed, retried or waits for its PDF.
Grants == INSTANCE CompletionDelivery WITH
  Recipients <- {r1}, Drains <- {d1}, Operators <- {}, Keys <- {}, MaxAttempts <- 2,
  MaxTries <- 2, MaxGenerations <- 1, MaxRotations <- 0, MaxCrashes <- 1,
  MaxOverruns <- 1, MaxEvents <- 0, pdf <- grantPdf, receipts <- grantReceipts,
  audit <- grantAudit, tasks <- grantTasks, ops <- grantOps,
  crashes <- grantCrashes, overruns <- grantOverruns
Rotations == INSTANCE CompletionDelivery WITH
  Recipients <- {r1}, Drains <- {d1}, Operators <- {}, Keys <- {}, MaxAttempts <- 2,
  MaxTries <- 1, MaxGenerations <- 1, MaxRotations <- 2, MaxCrashes <- 1,
  MaxOverruns <- 1, MaxEvents <- 0, pdf <- grantPdf, receipts <- grantReceipts,
  audit <- grantAudit, tasks <- grantTasks, ops <- grantOps,
  crashes <- grantCrashes, overruns <- grantOverruns

\* Webhooks: an endpoint revoked while its event waits, under the claim order
\* of D1, with a drain that crashes; and two drains and an outlived lease in
\* each store.
Hooks == INSTANCE Webhooks WITH
  Endpoints <- {e1, e2}, Events <- {v1}, Drains <- {d1}, Sessions <- {o1},
  Keys <- {k1, k2, k3}, Limit <- 1, MaxAttempts <- 1, MaxEndpoints <- 2,
  MaxRotations <- 0, MaxCrashes <- 1, MaxOverruns <- 0, ActiveFirst <- TRUE,
  crashes <- hookCrashes, overruns <- hookOverruns
Races == INSTANCE Webhooks WITH
  Endpoints <- {e1, e2}, Events <- {v1}, Drains <- {d1, d2}, Sessions <- {o1},
  Keys <- {k1}, Limit <- 1, MaxAttempts <- 2, MaxEndpoints <- 1, MaxRotations <- 0,
  MaxCrashes <- 0, MaxOverruns <- 1, ActiveFirst <- FALSE, crashes <- hookCrashes,
  overruns <- hookOverruns
D1Races == INSTANCE D1Webhooks WITH
  Endpoints <- {e1, e2}, Events <- {v1}, Drains <- {d1, d2}, Sessions <- {o1},
  Keys <- {k1}, Limit <- 1, MaxAttempts <- 2, MaxEndpoints <- 1, MaxRotations <- 0,
  MaxCrashes <- 0, MaxOverruns <- 1, ActiveFirst <- TRUE, crashes <- hookCrashes,
  overruns <- hookOverruns

\* Invitation mails: three attempts, two crashes, two outlived leases.
Mail == INSTANCE InvitationMail WITH
  MaxAttempts <- 3, MaxCrashes <- 2, MaxOverruns <- 2, workers <- mailWorkers,
  mails <- mailMails, crashes <- mailCrashes, overruns <- mailOverruns

\* The reseal sweep: two rows, a batch of one, two rotations.
Reseal == INSTANCE CapabilityReseal WITH
  Deliveries <- {d1, d2}, BatchLimit <- 1, MaxAttempts <- 2, MaxRotations <- 2,
  MaxOverruns <- 1, rows <- capRows, sweeps <- capSweeps, tasks <- capTasks

\* The orphan sweep: a signature and a document listed one at a time.
Retention == INSTANCE ObjectRetention WITH
  SigKeys <- {2}, DocKeys <- {1}, Sweepers <- {d1, d2}, PageSize <- 1, MaxDays <- 2,
  MaxClients <- 1, MaxFaults <- 0, objects <- retObjects, sweeps <- retSweeps,
  faults <- retFaults

\* A deploy that is run again after one failed call.
Deploy == INSTANCE CloudflareReconciler WITH
  Procs <- {o1}, Releases <- {r1}, MigrationsOf <- (r1 :> {1, 2}),
  EpochOf <- (r1 :> 1), Migrations <- {1, 2}, Secrets <- {k1, k2},
  Commands <- {"deploy"}, MaxRuns <- 3, MaxFaults <- 1, MaxKills <- 0,
  MaxDatabases <- 1, MaxLosses <- 1, d1 <- depD1, ledger <- depLedger

-----------------------------------------------------------------------------
ASSUME Artifacts!ArtifactConstants
ASSUME Seals!SealConstants
ASSUME D1Seals!SealConstants
ASSUME Grants!DeliveryConstants
ASSUME Rotations!DeliveryConstants
ASSUME Hooks!WebhookConstants
ASSUME Races!WebhookConstants
ASSUME D1Races!D1Store
ASSUME Mail!MailConstants
ASSUME Reseal!ResealConstants

artVars ==
  <<queue, artifact, pdf, artObjects, artAudit, receipts, tasks, ops, worked,
    artCrashes, artOverruns>>
sealVars ==
  <<job, sealReceipts, senders, operation, late, sealObjects, publication,
    sealAudit, sealWorkers, publishers, defers, sealCrashes, sealOverruns, sealAsked>>
grantVars ==
  <<rows, grantPdf, grantReceipts, grantAudit, mails, keyring, seeds, grantTasks,
    sweeps, grantOps, grantCrashes, grantOverruns>>
hookVars ==
  <<endpoint, commands, lock, sessions, outbox, order, log, drains, posts,
    activeKey, hookCrashes, hookOverruns, candidates>>
mailVars ==
  <<invitation, row, mailWorkers, mailMails, mailCrashes, mailOverruns>>
capVars ==
  <<capRows, running, previous, capSweeps, capTasks>>
retVars ==
  <<day, retObjects, ledger, references, clients, retSweeps, checkpoint, begun,
    retFaults>>
depVars ==
  <<depD1, depLedger, r2, versions, active, triggers, secrets, recovery, binding,
    file, backups, proc, report, budget>>

Parts ==
  {"conversions", "artifacts", "D1 artifacts", "seals", "D1 seals", "grants",
   "rotations", "webhooks", "webhook races", "D1 webhooks", "mail", "reseal",
   "retention", "deploy"}

PartInit ==
  /\ part \in Parts
  /\ Init
  /\ Artifacts!Init
  /\ D1Seals!D1Init
  /\ IF part = "rotations" THEN Rotations!Init ELSE Grants!Init
  /\ IF part = "webhooks" THEN Hooks!Init /\ candidates = [d \in {d1} |-> {}] ELSE D1Races!D1Init
  /\ Mail!Init
  /\ Reseal!Init /\ (part = "reseal" \/ \A d \in {d1, d2} : capRows[d].status = "pending")
  /\ Retention!Init /\ (part = "retention" \/ \A k \in DOMAIN retObjects : retObjects[k] = 0)
  /\ Deploy!Init

PartNext ==
  /\ UNCHANGED part
  /\ \/ /\ part = "conversions"
        /\ Next
        /\ UNCHANGED <<artVars, sealVars, grantVars, hookVars, mailVars, capVars,
                       retVars, depVars>>
     \/ /\ part = "artifacts"
        /\ Artifacts!Next
        /\ UNCHANGED <<vars, sealVars, grantVars, hookVars, mailVars, capVars,
                       retVars, depVars>>
     \/ /\ part = "D1 artifacts"
        /\ D1Artifacts!D1Next
        /\ UNCHANGED <<vars, sealVars, grantVars, hookVars, mailVars, capVars,
                       retVars, depVars>>
     \/ /\ part = "seals"
        /\ Seals!Next /\ UNCHANGED sealAsked
        /\ UNCHANGED <<vars, artVars, grantVars, hookVars, mailVars, capVars,
                       retVars, depVars>>
     \/ /\ part = "D1 seals"
        /\ D1Seals!D1Next
        /\ UNCHANGED <<vars, artVars, grantVars, hookVars, mailVars, capVars,
                       retVars, depVars>>
     \/ /\ part = "grants"
        /\ Grants!Next
        /\ UNCHANGED <<vars, artVars, sealVars, hookVars, mailVars, capVars,
                       retVars, depVars>>
     \/ /\ part = "rotations"
        /\ Rotations!Next
        /\ UNCHANGED <<vars, artVars, sealVars, hookVars, mailVars, capVars,
                       retVars, depVars>>
     \/ /\ part = "webhooks"
        /\ Hooks!Next /\ UNCHANGED candidates
        /\ UNCHANGED <<vars, artVars, sealVars, grantVars, mailVars, capVars,
                       retVars, depVars>>
     \/ /\ part = "webhook races"
        /\ Races!Next /\ UNCHANGED candidates
        /\ UNCHANGED <<vars, artVars, sealVars, grantVars, mailVars, capVars,
                       retVars, depVars>>
     \/ /\ part = "D1 webhooks"
        /\ D1Races!D1Next
        /\ UNCHANGED <<vars, artVars, sealVars, grantVars, mailVars, capVars,
                       retVars, depVars>>
     \/ /\ part = "mail"
        /\ Mail!Next
        /\ UNCHANGED <<vars, artVars, sealVars, grantVars, hookVars, capVars,
                       retVars, depVars>>
     \/ /\ part = "reseal"
        /\ Reseal!Next
        /\ UNCHANGED <<vars, artVars, sealVars, grantVars, hookVars, mailVars,
                       retVars, depVars>>
     \/ /\ part = "retention"
        /\ Retention!Next
        /\ UNCHANGED <<vars, artVars, sealVars, grantVars, hookVars, mailVars,
                       capVars, depVars>>
     \/ /\ part = "deploy"
        /\ Deploy!Next
        /\ UNCHANGED <<vars, artVars, sealVars, grantVars, hookVars, mailVars,
                       capVars, retVars>>

partVars ==
  <<part, vars, artVars, sealVars, grantVars, hookVars, mailVars, capVars, retVars,
    depVars>>

\* What the scheduler of the moving component owes it, step by step.
FairMove(i) ==
  /\ UNCHANGED part
  /\ \/ /\ part = "conversions" /\ FairStep(i)
        /\ UNCHANGED <<artVars, sealVars, grantVars, hookVars, mailVars, capVars,
                       retVars, depVars>>
     \/ /\ part = "artifacts" /\ Artifacts!FairStep(i)
        /\ UNCHANGED <<vars, sealVars, grantVars, hookVars, mailVars, capVars,
                       retVars, depVars>>
     \/ /\ part = "seals" /\ Seals!FairStep(i) /\ UNCHANGED sealAsked
        /\ UNCHANGED <<vars, artVars, grantVars, hookVars, mailVars, capVars,
                       retVars, depVars>>
     \/ /\ part = "grants" /\ Grants!FairStep(i)
        /\ UNCHANGED <<vars, artVars, sealVars, hookVars, mailVars, capVars,
                       retVars, depVars>>
     \/ /\ part = "rotations" /\ Rotations!SweepStep(i)
        /\ UNCHANGED <<vars, artVars, sealVars, hookVars, mailVars, capVars,
                       retVars, depVars>>
     \/ /\ part = "webhooks" /\ Hooks!FairStep(i) /\ UNCHANGED candidates
        /\ UNCHANGED <<vars, artVars, sealVars, grantVars, mailVars, capVars,
                       retVars, depVars>>
     \/ /\ part = "mail" /\ Mail!FairStep(i)
        /\ UNCHANGED <<vars, artVars, sealVars, grantVars, hookVars, capVars,
                       retVars, depVars>>
     \/ /\ part = "reseal" /\ Reseal!FairStep(i)
        /\ UNCHANGED <<vars, artVars, sealVars, grantVars, hookVars, mailVars,
                       retVars, depVars>>
     \/ /\ part = "retention" /\ Retention!FairStep(i)
        /\ UNCHANGED <<vars, artVars, sealVars, grantVars, hookVars, mailVars,
                       capVars, depVars>>
     \/ /\ part = "deploy" /\ Deploy!FairStep(i)
        /\ UNCHANGED <<vars, artVars, sealVars, grantVars, hookVars, mailVars,
                       capVars, retVars>>

PartFairness == \A i \in 1..6 : WF_partVars(FairMove(i))

PartSpec == PartInit /\ [][PartNext]_partVars /\ PartFairness

-----------------------------------------------------------------------------
\* Publication and repair of artifacts, seals, completion grants, webhook
\* deliveries and invitation mails are leased jobs, in both stores: whatever
\* crashes or outlives its lease, only the newest lease writes an outcome; and
\* an invitation is mailed no more often than it has attempts.
ImplementsLeases ==
  /\ Artifacts!ImplementsLeases
  /\ Seals!ImplementsSealLeases
  /\ Grants!ImplementsDeliveryLeases
  /\ Races!ImplementsWebhookLeases
  /\ Mail!ImplementsMailLeases
  /\ [](part = "mail" => Mail!MailsBounded)

\* Every job of every queue comes to its end: conversions, publication and
\* repair, seals, completion grants also without a PDF, webhook deliveries
\* whatever is left for revoked endpoints, invitation mails; and the sweep
\* deletes every object nothing points to.
WorkSettles ==
  /\ ConversionsSettle
  /\ <>[](part = "artifacts" => Artifacts!PublicationSettled)
  /\ []<>(part = "seals" => Seals!SealSettled)
  /\ <>[](part = "grants" => Grants!DeliverySettled)
  /\ []<>(part = "webhooks" => Hooks!DueWorkSettled)
  /\ <>[](part = "mail" => Mail!MailSettled)
  /\ Retention!OrphansCollected

\* A key rotation moves every outstanding token and capability to the active
\* key, also those of blocked and claimed rows; it brings no destroyed one
\* back, and a worker without a row's key does not give the row up.
RotationsSound ==
  /\ Reseal!DestroyedStays
  /\ Reseal!MismatchRetried
  /\ Reseal!RotationFinishes
  /\ []<>(part = "rotations" => Rotations!TokensMoved)

\* A deploy run again after a failed call reaches a consistent success.
RerunConverges == <>(part = "deploy" => Deploy!Converged)
=============================================================================
