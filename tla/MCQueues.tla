------------------------------- MODULE MCQueues -------------------------------
(***************************************************************************)
(* The background queues under crashes, outlived leases and racing drains, *)
(* in both stores.  They share no row that another of them changes, so     *)
(* each is explored on its own: `part' names the one that moves, with the  *)
(* constants of its scenario, and the others stay as they start.           *)
(***************************************************************************)
EXTENDS DocxConversion, TLC

CONSTANTS o1, o2, k1, k2, k3, r1, d1, d2, e1, e2, v1, v2

VARIABLES
  part,                   \* the component that moves
  \* CompletionArtifacts, D1CompletionArtifacts
  queue, artifact, pdf, artObjects, artAudit, receipts, tasks, ops, worked,
  artCrashes, artOverruns,
  \* PdfSealing, D1PdfSealing
  job, sealReceipts, senders, operation, late, sealObjects, publication, sealAudit,
  sealWorkers, publishers, defers, sealCrashes, sealOverruns, sealAsked,
  \* CompletionDelivery
  rows, grantPdf, grantReceipts, grantAudit, mails, keyring, seeds, grantTasks,
  sweeps, grantOps, grantCrashes, grantOverruns,
  \* Webhooks, D1Webhooks
  endpoint, commands, lock, sessions, outbox, order, log, drains, posts, activeKey,
  hookCrashes, hookOverruns, candidates

-----------------------------------------------------------------------------
\* Conversions: what the constants of this module say, two requests for two
\* exports; and one request under a crash and a fault.
Faults == INSTANCE DocxConversion WITH
  MaxRequests <- 1, MaxCrashes <- 1, MaxFaults <- 1

\* Publication and repair of completion artifacts: two attempts with a crash
\* and an outlived lease; and two operators who requeue an exhausted job.
Artifacts == INSTANCE CompletionArtifacts WITH
  Operators <- {o1}, Keys <- {k1}, MaxAttempts <- 2, MaxCrashes <- 1,
  MaxOverruns <- 1, MaxEvents <- 1, objects <- artObjects, audit <- artAudit,
  crashes <- artCrashes, overruns <- artOverruns
D1Artifacts == INSTANCE D1CompletionArtifacts WITH
  Operators <- {o1}, Keys <- {k1}, MaxAttempts <- 2, MaxCrashes <- 1,
  MaxOverruns <- 1, MaxEvents <- 0, objects <- artObjects, audit <- artAudit,
  crashes <- artCrashes, overruns <- artOverruns
Requeues == INSTANCE CompletionArtifacts WITH
  Operators <- {o1, o2}, Keys <- {k1, k2}, MaxAttempts <- 1, MaxCrashes <- 0,
  MaxOverruns <- 0, MaxEvents <- 0, objects <- artObjects, audit <- artAudit,
  crashes <- artCrashes, overruns <- artOverruns
D1Requeues == INSTANCE D1CompletionArtifacts WITH
  Operators <- {o1, o2}, Keys <- {k1, k2}, MaxAttempts <- 1, MaxCrashes <- 0,
  MaxOverruns <- 0, MaxEvents <- 0, objects <- artObjects, audit <- artAudit,
  crashes <- artCrashes, overruns <- artOverruns

\* The PDF seal: two requests, two publishers, a failure, a crash and an
\* outlived lease.
Seals == INSTANCE PdfSealing WITH
  Senders <- {o1, o2}, Keys <- {k1, k2}, MaxFailures <- 1, MaxPublishers <- 2,
  MaxDefers <- 0, MaxCrashes <- 1, MaxOverruns <- 1, MaxEvents <- 1,
  receipts <- sealReceipts, objects <- sealObjects, audit <- sealAudit,
  workers <- sealWorkers, crashes <- sealCrashes, overruns <- sealOverruns
D1Seals == INSTANCE D1PdfSealing WITH
  Senders <- {o1, o2}, Keys <- {k1, k2}, MaxFailures <- 1, MaxPublishers <- 2,
  MaxDefers <- 0, MaxCrashes <- 1, MaxOverruns <- 0, MaxEvents <- 0,
  receipts <- sealReceipts, objects <- sealObjects, audit <- sealAudit,
  workers <- sealWorkers, crashes <- sealCrashes, overruns <- sealOverruns,
  asked <- sealAsked

\* Completion access: two drains and two operators on one recipient; and a
\* rotation with its sweep during retries and a reissue.
Grants == INSTANCE CompletionDelivery WITH
  Recipients <- {r1}, Drains <- {d1, d2}, Operators <- {o1, o2}, Keys <- {k1, k2},
  MaxAttempts <- 1, MaxTries <- 2, MaxGenerations <- 2, MaxRotations <- 0,
  MaxCrashes <- 0, MaxOverruns <- 0, MaxEvents <- 1, pdf <- grantPdf,
  receipts <- grantReceipts, audit <- grantAudit, tasks <- grantTasks,
  ops <- grantOps, crashes <- grantCrashes, overruns <- grantOverruns
Tokens == INSTANCE CompletionDelivery WITH
  Recipients <- {r1}, Drains <- {d1}, Operators <- {o1}, Keys <- {k1},
  MaxAttempts <- 2, MaxTries <- 1, MaxGenerations <- 2, MaxRotations <- 1,
  MaxCrashes <- 0, MaxOverruns <- 1, MaxEvents <- 0, pdf <- grantPdf,
  receipts <- grantReceipts, audit <- grantAudit, tasks <- grantTasks,
  ops <- grantOps, crashes <- grantCrashes, overruns <- grantOverruns

\* Webhooks: two drains over two events with an outlived lease; and two
\* administrators who create and revoke endpoints.
Hooks == INSTANCE Webhooks WITH
  Endpoints <- {e1}, Events <- {v1, v2}, Drains <- {d1, d2}, Sessions <- {o1},
  Keys <- {k1, k2}, ActiveFirst <- FALSE, Limit <- 2, MaxAttempts <- 2,
  MaxEndpoints <- 1, MaxRotations <- 0, MaxCrashes <- 0, MaxOverruns <- 1,
  crashes <- hookCrashes, overruns <- hookOverruns
D1Hooks == INSTANCE D1Webhooks WITH
  Endpoints <- {e1}, Events <- {v1, v2}, Drains <- {d1, d2}, Sessions <- {o1},
  Keys <- {k1, k2}, ActiveFirst <- TRUE, Limit <- 2, MaxAttempts <- 1,
  MaxEndpoints <- 1, MaxRotations <- 0, MaxCrashes <- 0, MaxOverruns <- 1,
  crashes <- hookCrashes, overruns <- hookOverruns
Admin == INSTANCE Webhooks WITH
  Endpoints <- {e1, e2}, Events <- {}, Drains <- {}, Sessions <- {o1, o2},
  Keys <- {k1, k2, k3}, ActiveFirst <- FALSE, Limit <- 1, MaxAttempts <- 1,
  MaxEndpoints <- 1, MaxRotations <- 1, MaxCrashes <- 0, MaxOverruns <- 0,
  crashes <- hookCrashes, overruns <- hookOverruns
D1Admin == INSTANCE D1Webhooks WITH
  Endpoints <- {e1, e2}, Events <- {}, Drains <- {}, Sessions <- {o1, o2},
  Keys <- {k1, k2, k3}, ActiveFirst <- TRUE, Limit <- 1, MaxAttempts <- 1,
  MaxEndpoints <- 1, MaxRotations <- 1, MaxCrashes <- 0, MaxOverruns <- 0,
  crashes <- hookCrashes, overruns <- hookOverruns

-----------------------------------------------------------------------------
ASSUME Artifacts!ArtifactConstants
ASSUME Requeues!ArtifactConstants
ASSUME Seals!SealConstants
ASSUME D1Seals!SealConstants
ASSUME Grants!DeliveryConstants
ASSUME Tokens!DeliveryConstants
ASSUME Hooks!WebhookConstants
ASSUME Admin!WebhookConstants
ASSUME D1Hooks!D1Store
ASSUME D1Admin!D1Store

artVars ==
  <<queue, artifact, pdf, artObjects, artAudit, receipts, tasks, ops, worked,
    artCrashes, artOverruns>>
sealVars ==
  <<job, sealReceipts, senders, operation, late, sealObjects, publication,
    sealAudit, sealWorkers, publishers, defers, sealCrashes, sealOverruns, sealAsked>>
grantVars ==
  <<rows, grantPdf, grantReceipts, grantAudit, mails, keyring, seeds, grantTasks,
    sweeps, grantOps, grantCrashes, grantOverruns>>
hookVars ==
  <<endpoint, commands, lock, sessions, outbox, order, log, drains, posts,
    activeKey, hookCrashes, hookOverruns, candidates>>

Parts ==
  {"conversions", "conversion faults", "artifacts", "D1 artifacts", "requeues",
   "D1 requeues", "seals", "D1 seals", "grants", "tokens", "webhooks",
   "D1 webhooks", "endpoints", "D1 endpoints"}

PartInit ==
  /\ part \in Parts
  /\ Init
  /\ IF part \in {"requeues", "D1 requeues"} THEN Requeues!Init ELSE Artifacts!Init
  /\ D1Seals!D1Init
  /\ IF part = "grants" THEN Grants!Init ELSE Tokens!Init
  /\ IF part \in {"endpoints", "D1 endpoints"} THEN D1Admin!D1Init ELSE D1Hooks!D1Init

PartNext ==
  /\ UNCHANGED part
  /\ \/ /\ part = "conversions"
        /\ Next
        /\ UNCHANGED <<artVars, sealVars, grantVars, hookVars>>
     \/ /\ part = "conversion faults"
        /\ Faults!Next
        /\ UNCHANGED <<artVars, sealVars, grantVars, hookVars>>
     \/ /\ part = "artifacts"
        /\ Artifacts!Next
        /\ UNCHANGED <<vars, sealVars, grantVars, hookVars>>
     \/ /\ part = "D1 artifacts"
        /\ D1Artifacts!D1Next
        /\ UNCHANGED <<vars, sealVars, grantVars, hookVars>>
     \/ /\ part = "requeues"
        /\ Requeues!Next
        /\ UNCHANGED <<vars, sealVars, grantVars, hookVars>>
     \/ /\ part = "D1 requeues"
        /\ D1Requeues!D1Next
        /\ UNCHANGED <<vars, sealVars, grantVars, hookVars>>
     \/ /\ part = "seals"
        /\ Seals!Next /\ UNCHANGED sealAsked
        /\ UNCHANGED <<vars, artVars, grantVars, hookVars>>
     \/ /\ part = "D1 seals"
        /\ D1Seals!D1Next
        /\ UNCHANGED <<vars, artVars, grantVars, hookVars>>
     \/ /\ part = "grants"
        /\ Grants!Next
        /\ UNCHANGED <<vars, artVars, sealVars, hookVars>>
     \/ /\ part = "tokens"
        /\ Tokens!Next
        /\ UNCHANGED <<vars, artVars, sealVars, hookVars>>
     \/ /\ part = "webhooks"
        /\ Hooks!Next /\ UNCHANGED candidates
        /\ UNCHANGED <<vars, artVars, sealVars, grantVars>>
     \/ /\ part = "D1 webhooks"
        /\ D1Hooks!D1Next
        /\ UNCHANGED <<vars, artVars, sealVars, grantVars>>
     \/ /\ part = "endpoints"
        /\ Admin!Next /\ UNCHANGED candidates
        /\ UNCHANGED <<vars, artVars, sealVars, grantVars>>
     \/ /\ part = "D1 endpoints"
        /\ D1Admin!D1Next
        /\ UNCHANGED <<vars, artVars, sealVars, grantVars>>

partVars ==
  <<part, vars, artVars, sealVars, grantVars, hookVars>>

PartSpec == PartInit /\ [][PartNext]_partVars

-----------------------------------------------------------------------------
\* Completion artifacts in both stores: the publication is all or nothing and
\* never ahead of its objects, crash loops are bounded, an exhausted job is
\* requeued once per failure whoever asks, D1 condemns no sound evidence whatever
\* the reads after a failed batch find, and a job condemned for its evidence
\* stays so.
ArtifactsSound ==
  /\ [](/\ Artifacts!PublicationIntact
        /\ Artifacts!WorkBounded
        /\ Requeues!RequeuedOnce
        /\ part = "D1 artifacts" => D1Artifacts!SoundNotCondemned)
  /\ Artifacts!VerdictFinal

\* The seal of an envelope in both stores: it is ordered once, the receipt is
\* of a seal the provider made, one publication stands on the audit chain, and
\* a worker that outlived its lease changes nothing the provider returned.
SealsSound ==
  /\ [](/\ Seals!SealPublicationIntact
        /\ Seals!ReceiptsReal
        /\ part = "D1 seals" => D1Seals!OrderedOnce)
  /\ Seals!EvidenceKept

\* Completion access: a recipient has one grant that may still let it in, each
\* reissue is on record once, what was marked delivered was mailed and works,
\* and the token of a grant that is over is destroyed whatever sweep had read it.
GrantsSound ==
  /\ Grants!OneGrant
  /\ Grants!ReissuesRecorded
  /\ Tokens!DeliveredWorks
  /\ Tokens!TokenScrubbed

\* Webhooks in both stores: the delivery log tells the story of every row, an
\* endpoint is sent an event no more often than allowed, and concurrent creations
\* keep the cap on endpoints, by a lock and by a guard.
WebhooksSound ==
  /\ part \in {"webhooks", "D1 webhooks"} => Hooks!LogFaithful
  /\ part = "webhooks" => Hooks!PostsBounded
  /\ part = "D1 webhooks" => D1Hooks!PostsBounded
  /\ part = "endpoints" => Admin!EndpointsCapped
  /\ part = "D1 endpoints" => D1Admin!EndpointsGuarded
=============================================================================
