# SignKit: TLA+ models, checks and proofs

SignKit is a self-hosted document signing service. A sender drafts an envelope, freezes it
(`ready`) and sends it; recipients view, approve, sign or decline in routing order through
capability links delivered by mail; a completed envelope is turned into artifacts, optionally
sealed, and delivered. The program runs on PostgreSQL or on Cloudflare (D1 and R2). This directory
holds TLA+ models of it, the TLC configurations that check them and TLAPS proofs about them. The
models are read from the source: the stores under `src/src/lib/adapters/db`, the application
services that call them, some of the domain algorithms and the deploy tool.

Contents: [inventory](#inventory) - [modules](#modules) - [correspondence](#correspondence-with-the-code)
- [runs and properties](#runs-and-properties) - [bounds](#bounds) - [fairness](#fairness)
- [proofs](#proofs) - [findings](#findings) - [left out](#left-out)

## Inventory

Everything durable is in one relational database and one object store. Requests run in stateless
processes, several at once; scheduled drains (every one or five minutes) run beside them. Components
call each other through interfaces and share nothing but the rows. `PROJECT.json` lists every
component with its sources, its modules and how much of it is modelled.

| component | state | operations | what is hard | what makes it correct |
|---|---|---|---|---|
| Domain rules (`domain/`) | none | routing plan of a decision, role predicates, recipient graph checks | parallel groups, viewers without an action | the plan completes, releases or continues as the outstanding recipients require |
| Document set and differ | manifest, tree | edit, append, reorder; hash and prove; compare two revisions | positions that shift, limits that cut | identifiers keep their meaning; a patch applies; what is cut is said to be cut |
| Authoring (`application/envelopes`, `application/drafts`) | draft generation and head, field generation, draft archive objects | draft commit, PDF upload, fields, ready, reopen, send, void | object written before the generation compare-and-set; reopen against send | what is sent is what its sender saw; no commit is lost or overwritten |
| Signing commands | envelope and recipient rows, audit chain, issuance ledger | send, view, approve, sign, decline, void, reissue | plans made from unlocked reads, carried out later; retries after audit conflicts | routing order, one ending, nothing usable after it, linear lineage |
| Invitation delivery | `delivery_outbox` rows with lease token and sealed capability | claim and cleanup, re-read, submit, complete, fail | crashes under a lease, leases outlived by their worker, lost receipts | at least once, never a superseded link, ciphertext always destroyed |
| Expiry drain | reads the above | discover, prepare, publish | one clock reading for a whole run | expires only, and in the end always, when every released recipient has run out |
| Reseal sweep | sealed rows under an older key | read, open, seal, compare-and-set | races claims and scrubs; two keyrings side by side | no row loses or regains its ciphertext; a rotation can be finished |
| Completion artifacts | job row, repair row, artifact rows, immutable objects | claim, render, publish, fail, PDF repair, requeue | crash between objects and row; bounded attempts | published once, objects match their row |
| PDF sealing | seal job, provider's operation, publication | request, claim, submit, recover, validate, publish | ambiguous submit | sealed once, appended to the chain once |
| Completion delivery and access reissue | grants in generations, tokens | enrol, claim, submit, outcome, reissue, reseal | reissue against a leased delivery | one grant that may let a recipient in |
| DOCX conversion | jobs, attempts, draft history | request, claim, convert, commit, complete, fail | dead worker after the commit | an upload enters the draft once; every job ends |
| Webhooks | endpoints, deliveries, log | create, revoke, rotate, fan out, claim, post, outcome | revoke under a lease, the limit of a batch | the log is true, posts are bounded, due work is done |
| Instance members and invitations | membership rows, invitation rows, mail outbox | invite, accept, change role, suspend, revoke; mail | two owners acting on each other | an active owner remains; an invitation is accepted once |
| API keys | key rows, receipts, rate counter | create, revoke, list, authenticate | repeated requests, collisions, late clock readings | a request issues one key; a revoked key does not authenticate |
| Contacts | contact rows, receipts | create, update, delete, list | lost answers, exact versions | first answers are proven, versions account for changes |
| Signature assets, orphan collection | ledger, objects, checkpoint | register, put, bind, retire, sweep | sweep against a signing that refers to the asset | a bound asset is never deleted; an orphan always is |
| `create-signkit` deployment | Worker, database, bucket, secrets, local state file | deploy, upgrade, adopt | a failure between any two remote calls, two operators | secrets recoverable, migrations backed up and applied before they are served |

How they interact: a signing command writes the envelope, its recipients, its outbox rows, the
ledger and the audit chain in one transaction. The outbox is drained by the delivery service, which
hands links to the mail provider; a recipient can only act with a link it was sent. A completed
envelope is the input of artifacts, sealing and completion delivery; an audit event is the input of
the webhooks. Every command that appends an audit event competes for the head of the chain, and an
open lease on an outbox row refuses decline, void, the completing decision and reissue. On D1 there
are no interactive transactions: each command is a series of reads and then one batch whose triggers
check everything again.

The hazards, each at the line where it bites and with the properties that look for it, are the
`hazards` list of `PROJECT.json`.

## Modules

A component is a module; `EXTENDS` is used for what a module builds on and `INSTANCE` for refinement
and composition. A `D1...` module is the Cloudflare twin of a PostgreSQL store: it extends or
instantiates the module of the protocol and replaces its transactions by reads and batches.

| module | models |
|---|---|
| `EnvelopeDomain` | statuses, roles, the recipient graph accepted by the ready command, decision routing |
| `EnvelopeLifecycle` | abstract: what a sent envelope promises about order, groups, completion, finality |
| `EnvelopeSigning` | one envelope on PostgreSQL: signing commands, reissue, void, outbox, delivery, expiry |
| `D1Signing` | the same on D1, read by read and batch by batch; implements `EnvelopeLifecycle` too |
| `AgreementText` | abstract: revisions are made from the one they replace, what is issued was offered |
| `EnvelopeAuthoring`, `D1EnvelopeAuthoring` | draft commits, uploads, ready, fields, reopen, send, void |
| `DocumentSet` | manifest, tree and Merkle hash through any commits |
| `RevisionDiff` | one call of the line differ: edit script, hunks, ranges, end-of-file marks |
| `RevisionChanges` | one call of the comparison of two sets under its limits |
| `LeasedJob` | abstract: newer leases take over, an outcome is written under the newest, done stays done |
| `CompletionArtifacts`, `D1CompletionArtifacts` | publication and PDF repair, requeue |
| `PdfSealing`, `D1PdfSealing` | request, submit and recovery at the provider, publication |
| `CompletionDelivery` | enrolment, mailing, reissue and token rotation of completion grants |
| `DocxConversion` | DOCX imports and exports with the draft they commit to |
| `Webhooks`, `D1Webhooks` | endpoints, fan-out, drains, delivery log |
| `InvitationMail` | the mail of an instance invitation |
| `CapabilityReseal` | rotation of the key that seals invitation capabilities |
| `ObjectRetention` | signature ledger, content-addressed objects, the orphan sweep |
| `InstanceGovernance` | abstract: changes of members and invitations, each entitled when it happens |
| `InstanceMembership`, `D1InstanceMembership` | members and invitations by locks, and by gates and batches |
| `InstanceRequests` | the commands the membership scenarios let clients send |
| `ApiKeys` | API keys and their rate window, both stores (`Backend`) |
| `Contacts` | the contact book, both stores (`Backend`) |
| `CloudflareReconciler` | deploy, upgrade and adopt, one remote call at a time |
| `MCEnvelopeSigning` | instances of `EnvelopeSigning`: recipient graphs, symmetry |
| `MCQueues`, `MCProgress`, `MCAdministration`, `MCEnvelopes` | scenarios of the other components, see [runs](#runs-and-properties) |
| `EnvelopeSigningProofs` | theorems about `EnvelopeSigning` |
| `D1SigningProofs` | theorems about `D1Signing` |
| `EnvelopeAuthoringProofs` | theorems about `EnvelopeAuthoring` and `D1EnvelopeAuthoring` |
| `ApiKeysProofs`, `ObjectRetentionProofs`, `DocxConversionProofs`, `InstanceMembershipProofs`, `D1InstanceMembershipProofs` | theorems about these components |

A definition preceded by a comment that begins with "Slip" (and named after the one that follows,
with a suffix) is a changed form of that definition: a plausible mistake in the code it models. The
`mutants` of `PROJECT.json` put each in the place of the original and the property named there then
fails; so every property depends on what the code does.

## Correspondence with the code

`PROJECT.json` (`map`) names the lines of every definition. The shape of the models is this.

**Steps.** A step is what the database or a remote service does at once. On PostgreSQL that is a
transaction, when its row locks are taken in one order before it decides; where they are taken one
after the other and decide who waits for whom (`InstanceMembership`) each lock is a step. On D1 it is
one read or one batch with its triggers. An object put, get or delete, a call to a provider and a call
to Cloudflare are steps of their own. Between two steps anything else may happen, and the process may
die where the model has a crash action.

**Signing.** A command is two database visits. The application service calls the store's
`prepare...`, which reads with no lock and, by its last statement, the audit head; it computes events,
capabilities and the routing plan; then it calls `publish...`, one transaction that locks envelope,
recipients and outbox rows, checks everything again and writes. In the model `begin...` is the prepare
(with the service's computation: `prepared`), `publish...` the transaction, and `Retry` the next round
of the service's `for` loop after `audit_conflict`.

| variable of `EnvelopeSigning` | code |
|---|---|
| `env` | `envelope.status` from `ready` on |
| `audit` | `audit_event.sequence` of the head of the chain |
| `rcp[r]` | the `recipient` row: status, capability hash, capability expiry, revocation, the capability recorded with the view |
| `pred` | `recipient_capability_issuance`: predecessor hash of an issued one |
| `outbox[<<r, k>>]` | the `delivery_outbox` row of the k-th capability of r |
| `lapsed` | the clock, as far as expiries can tell |
| `req[s]` | a service call in progress: what it prepared |
| `tasks` | the `#deliverClaim` calls in progress |
| `mailed` | invitations accepted by the provider (external) |
| `crashes`, `overruns` | bookkeeping for the two bounds |

**The other components** declare their tables first, one variable per table, each with its table's
name in the comment; then what is in flight (`requests`, `workers`, `tasks`, `drains`, `sweeps`,
`txs`, `call`, `proc`: what a process has read and where it is); then the bounds. `history` variables
(`gone`, `answers`, `posts`, `mails`, `worked`) are read by properties only.

Abstractions, and why they are sound for what is checked:

- *Identity.* A capability, token, claim token, lease or generated UUID is the number of its issuance
  or attempt: they are random in the code and compared for equality only. Generated identifiers are
  never used twice, but for the collisions the retry loops of `ApiKeys` and `Contacts` are there for.
- *Digests.* A digest stands for the content, a hash for what was hashed: collisions are left out.
- *Time in signing.* Every capability lives 14 days, so an expiry instant is represented by the audit
  sequence of the event that granted it and instants compare as events do. The service reads its clock
  just before the transaction, so two grants milliseconds apart could compare the other way; no
  property depends on which of two such expiries is earlier. `lapse` moves the clock to the next expiry
  of a usable capability.
- *Leases.* Lease time is a flag: `leaseExpires` lets it pass, with the worker gone (a crash) or still
  running (counted by `overruns`).
- *Backoff* (`available_at`) decides when a failed row is due. The drains may pick any due subset of
  the candidates, which covers every delay; where the order of a batch matters (`Webhooks`, `order`)
  it is kept.
- *The audit head* is read after the other reads of a prepare. If the chain has moved since the
  prepare step of the model, the transaction may therefore meet `audit_conflict` or succeed; both are
  in the model. Send reads the head first and is not retried. In `D1Signing` each read is a step and
  nothing is merged.
- *Answers* that write nothing (not found, replayed, continued, refused, integrity error) end the
  command. Where a property is about answers (`ApiKeys`, `Contacts`, membership) the receipt and the
  replay are modelled.
- *Choices.* Field values, rendering, conversion, sealing and mail providers appear by their outcomes,
  and every outcome is possible at any time. A sealing key the worker does not know fails like a
  transient provider error, unsent.
- A recipient acts only with an invitation that reached its mailbox (`mailed`); the links of replaced
  capabilities stay there and may be tried.
- Models of one envelope (`EnvelopeSigning`, artifacts, seals, grants, conversions) follow one
  envelope; the batch limits of the drains apply to its rows. Envelopes share no row.
- In `D1Signing` the count of revoked invitations in a terminal event (`revoked_invitation_count`) is
  reduced to the set of recipients revoked. In `D1InstanceMembership` the receipt of a revocation is
  found by its invitation, since the table allows several.
- The eligibility query of the expiry drain is one PostgreSQL does not accept as it is spelled
  ([finding 4](#findings)). `EligibilityAnswered` says whether it is answered: FALSE is the code as it
  stands, TRUE the query as it is meant and as the D1 store has it. The runs set TRUE, but for
  `unanswered`, so that they also cover what expiry does when it works; with FALSE there are only
  fewer behaviours, so no safety property can fail that holds with TRUE. The proofs hold for both.
- `CloudflareReconciler`: the inspection of the remote state (`inspectRemote`) is one step; the plan
  made of it is used step by step afterwards.
- `RevisionDiff` explores context lengths 1 and 2 and a table limit of 24 or 49 cells; the code's 3
  lines and its limit differ only in size.

## Runs and properties

Three passing runs and four violation runs are about the signing commands, each a small instance of
`EnvelopeSigning`; one violation run (`replays`) is an instance of `Contacts`. The other four passing
runs each explore a family of components.

Those four declare the variables of all their components and one more, `part`, chosen at the start
and never changed, which names the component that moves; the others keep their initial state. The
components of a run share no row that another of them changes, so that exploring them one at a time
loses no behaviour of any of them, and the state space is the sum of theirs instead of the product. A
component may be instantiated several times, with the constants of different scenarios; the
constants stand beside the `INSTANCE` that uses them.

| run | instance | checks |
|---|---|---|
| `routing` | approvers a, b at order 1, signer c at order 2; two sessions; all commands but reissue | `TypeOK`, `ReleasedExactly`, `ImplementsLifecycle` |
| `reissue` | two parallel signers, three capabilities each, two delivery attempts, two sessions; reissue and expiry | `OpenRowCurrent`, `LineageLinear`, `ExpiryOnlyWhenLapsed` |
| `delivery` | one signer, two capabilities, two delivery attempts, one crash, one outlived lease; all commands, with fairness | `TerminalScrubbed`, `SubmissionFenced`, `OpenRowCurrent`, `CiphertextDestroyed`, `InvitationSettles`, `AbandonedEnds` |
| `attempts`, `continuation`, `replacement`, `unanswered` | one signer | four of the [findings](#findings) |
| `replays` | the contact book of one member in D1, suspended and reactivated once | `ReplaySafe` |
| `queues` | conversions, artifacts, seals, grants, webhooks in 14 scenarios, both stores | `ConversionsSound`, `GrantsSound`, `WebhooksSound`, `ArtifactsSound`, `SealsSound` |
| `progress` | the same queues, invitation mail, reseal sweep, orphan sweep, deployment, with fairness | `ImplementsDocxLeases`, `ImplementsLeases`, `WorkSettles`, `RotationsSound`, `RerunConverges` |
| `administration` | API keys, contacts, members (both stores), deployment in 14 scenarios | `OneKeyPerCommand`, `RevocationMatchesReceipt`, `RateBounded`, `ListingsComplete`, `MembersSound`, `WritesWhileActive`, `RevokedNeverAuthenticates`, `ContactsSound`, `ImplementsGovernance`, `DeploymentSound` |
| `envelopes` | object retention, authoring (both stores), D1 signing, document set, differ in 13 scenarios | `SignedAssetsKept`, `AuthoringSound`, `D1SigningSound`, `DifferSound`, `LedgerDecidesOnce`, `ImplementsText`, `ImplementsLifecycle`, `DocumentSetSound` |

What they say, and the behaviour of the code each is about:

| property | says | about |
|---|---|---|
| `TypeOK` | shapes, and no command is tried more than `MAX_AUDIT_ATTEMPTS` times | the retry loops |
| `ReleasedExactly` | while the envelope is active, a link is open exactly for the recipients no outstanding actionable recipient precedes | stale routing plans of concurrent decisions |
| `ImplementsLifecycle` | the commands only take the steps of `EnvelopeLifecycle` | all of the signing commands, in both stores |
| `TerminalScrubbed` | no ending leaves a usable capability; completion, decline and void leave no ciphertext or open row either | the four terminal transactions and the fence on leases |
| `OpenRowCurrent` | an undelivered row is for the current capability and expiry | release and reissue |
| `SubmissionFenced` | unless a lease was outlived, what goes to the provider is current and its envelope was not ended by a fenced command | reissue, void, decline, completion against a lease |
| `LineageLinear` | a reissue names the capability issued just before | two reissues prepared on one read |
| `ExpiryOnlyWhenLapsed` | an envelope expires only if every released outstanding recipient has run out | old clock reading, old read |
| `AbandonedEnds` | an envelope whose released outstanding recipients have all run out ends or one of them gets a good link | the drain against views, decisions and reissues; links that lapse viewed or unviewed, delivered or not |
| `CiphertextDestroyed` | after any ending all invitation ciphertext is eventually destroyed | expiry is not fenced by leases; dead workers |
| `InvitationSettles` | a queued invitation is eventually delivered or given up | retries, dead workers |
| `ConversionsSound` | `ImportedOnce`: an upload enters the draft at most once, onto the generation its author saw; `ExportPinned`: an export shows the revision it was asked for and its bytes are stored; `AttemptsRecorded`: the log of attempts agrees with the jobs | a commit whose worker died before it told the job, a draft that goes on changing, outlived leases, the last attempt |
| `ArtifactsSound` | `PublicationIntact`: all or nothing, never ahead of its objects, anchored in the chain; `WorkBounded`: crash loops are bounded; `RequeuedOnce`: once per failure; `SoundNotCondemned` (D1): no sound evidence is condemned whatever the reads after a failed batch find; `VerdictFinal`: a job condemned for its evidence stays so | crash between objects and row, requeue races |
| `SealsSound` | `SealPublicationIntact`, `ReceiptsReal`: one publication, of a seal the provider made; `OrderedOnce` (D1); `EvidenceKept`: a worker that outlived its lease changes nothing the provider returned | ambiguous submit |
| `GrantsSound` | `OneGrant`: one grant may still let a recipient in; `ReissuesRecorded`; `DeliveredWorks`: what was marked delivered was mailed and works; `TokenScrubbed`: the token of a grant that is over is destroyed, whatever sweep had read it | reissue, drain and sweep on one row |
| `WebhooksSound` | `LogFaithful`: the log tells the story of every row; `PostsBounded`: an event is sent no more often than allowed; `EndpointsCapped`, `EndpointsGuarded`: the cap holds under concurrent creations, by the lock and by the trigger | drains against revocation |
| `ImplementsLeases`, `ImplementsDocxLeases` | each queue is a `LeasedJob`; an invitation is mailed no more often than it has attempts | crashes and outlived leases |
| `WorkSettles` | every job ends, every orphaned object is deleted | dead workers, last attempts, checkpoints |
| `RotationsSound` | `DestroyedStays`, `MismatchRetried`, `RotationFinishes`, `TokensMoved`: a rotation moves what is outstanding, revives nothing, and gives nothing up for a key it does not know | sweeps that read before a claim or a scrub |
| `RerunConverges` | a deploy run again after a failed call reaches a consistent success | partial failure of `deployFirst` |
| `DeploymentSound` | no Worker uses a secret without a recovery copy; the version that serves finds its migrations applied; the state file is right about what it names; migrations are backed up and of the recorded epoch | two deploys; one operator with every command |
| `OneKeyPerCommand` | a request issues one key and discloses it once | races, collisions, lost answers |
| `RevocationMatchesReceipt` | a key's revocation is proven by one receipt | concurrent revocations |
| `RevokedNeverAuthenticates` | no use is recorded for a key revoked between lookup and recording | two statements |
| `WritesWhileActive` | no key of a suspended owner is created or revoked | D1's gate and batch |
| `RateBounded` | a key is used no more often than its limit times the windows that have begun | late clock readings |
| `ListingsComplete` | a client that pages sees all that stayed | keyset cursors |
| `ContactsSound` | `EmailUnique`; `FirstAnswerProven`; `VersionsAccounted`: a version has one receipt, except that a suspension may leave a second one of a creation ([finding 5](#findings)); `BookOfActiveOwner`: the book of a suspended owner does not change | gates and batches, lost answers |
| `MembersSound` | `OwnerKept`, `ReceiptsExplain`, `EnrolledOnce`, `InvitersEntitled`, `PendingCapped` | owners acting on each other, two acceptances |
| `ImplementsGovernance` | each commit or batch is a step of `InstanceGovernance`, entitled by the members as they are then | locks on PostgreSQL, triggers on D1 |
| `SignedAssetsKept` | the drawing behind an accepted signature is there | sweep against signing |
| `LedgerDecidesOnce` | a row of the ledger is decided (bound or retired) once | two sweeps and a signing |
| `AuthoringSound` | `SentAsReviewed`, `FieldsCoherent`, `EffectOnce`, `PointersBacked` | reopen against send, repeated commands |
| `ImplementsText` | authoring is `AgreementText` | lost edits |
| `D1SigningSound` | `ChainLinear`, `TerminalQuiet`, `RevocationEvidenceTrue`, `ReplacedLinkDestroyed` | torn reads of a prepare |
| `DocumentSetSound` | `TreeDescribed`, `ProofsVerify`, `IdentifiersStable`, `HashPins` | any sequence of commits |
| `DifferSound` | `ScriptMinimal`, `PatchApplies`, `ContextComplete`, against their definitions for all pairs of texts; `BytesBounded`, `NothingHidden` | look-ahead, budgets |
| `AttemptsBounded`, `ViewContinues`, `LiveInvitationKept`, `ReplaySafe` | what four documents say | see [findings](#findings) |

The page that `ListingsComplete` follows is unchanged between two of its requests only as far as the
cursor row is concerned: an edit that moves the cursor row itself in the order moves the client with
it, which is what a cursor by key means. `RateBounded` has no form for a sliding window: a reading
taken late is counted in the window in which it is recorded, so an interval of one window's length
may hold more.

Every property of a passing run is broken by a small change of the code (`mutants` in
`PROJECT.json`): for example leaving out the re-derivation of the plan under the locks breaks
`ReleasedExactly`.

## Bounds

Two concurrent commands, sessions or drains give every pair of a stale read and the step that makes
it stale; a third adds only more of the same, since a step depends on the rows and on its own
request. What follows are the least numbers at which the interesting cases happen.

- *Signing.* Three recipients are the least with a parallel group and a following one, where
  releasing can go wrong. Two capabilities are the least with a superseded one, three the least in
  which a lineage can fork away from the root: two reissues are begun against one capability, and
  the second is refused or, after an audit conflict, prepared again (`MaxReissues` limits the reissues
  published before another is begun). The two recipients of `reissue` are the least whose links lapse at
  different instants. `OpenRowCurrent` is asked in two runs, of reissues side by side with failed
  deliveries in `reissue`, and of views, decisions, crashes and outlived leases in `delivery`; its
  theorem is of all of them at once, and of releases. `MAX_AUDIT_ATTEMPTS` (3) is 2, and 1 on
  D1: a first attempt, a retry and giving up all occur. The ten delivery attempts become one or two,
  which separates retry from exhaustion. `ClaimBatch` and `CleanupBatch` are as large as the outbox,
  or one where the batch limit is to bite.
- *Queues.* Two attempts separate a retry from the last one; one crash and one outlived lease produce
  a dead lease and a late worker beside its successor. Invitation mail has three attempts, two crashes
  and two outlived leases. Two operators with a key each race a requeue, a request or a reissue; two
  generations of a grant are a grant and its successor; two rotations leave a row two keys behind.
- *Webhooks.* Two endpoints and one event, or one endpoint and two events; a batch limit of one or
  two, so that a batch can be filled by rows that will not be delivered; a cap of one or two endpoints.
- *Administration.* Three users are two owners and one they act on; two invitations and a cap of one
  or two; two to four commands, sent by two clients. Rate windows of two ticks over four ticks of time
  give two windows and a reading from the first recorded in the second. Four contacts, page size one.
- *Deployment.* Three releases: one more migration, and the next epoch; two deploys at once with a
  failed call and a kill, or three runs of one operator with two failures, a second database and a lost
  secret.
- *Objects.* Keys, two sweepers, page size one, so that a scan takes several pages and the
  checkpoint wraps; two or three grace periods.
- *Authoring.* Two commands, one of them sent twice, with two attempts each.
- *Documents.* All pairs of texts of up to five lines over two contents with one line of context, and
  of seven lines with two, the shortest that come apart: both have hunks that merge and hunks that stay
  apart. Only two texts of five lines exceed the table limit of the first, so the fallback to whole
  texts is explored too. Sets of up to four documents, an unbalanced hash tree of three
  and a full one.

Every bound is a CONSTANT (`Max...`) that occurs in the guard of the action it limits. Symmetry is
used over sessions and request keys, in safety runs only. Deadlock is not checked because everything
may rest: nobody is obliged to act, and when requests, faults and jobs are used up nothing is left to
do.

## Fairness

`delivery`, `replacement` and `unanswered` use `FairSpec` of `EnvelopeSigning`. It assumes, per outbox row: the
drain keeps running and reaches the row while it stays a candidate (`wrangler.jsonc` schedules it
every minute and the claim takes due rows oldest first, so a row is not passed over for ever); a
running task takes its next step (each is one awaited call with a timeout or a rejection; one that
dies is a `crash`); and an abandoned lease times out. Nothing is assumed of clients: no command need
be issued, finished or retried, and a lease with a running worker need not expire.

`AbandonedEnds` needs more, which it states as its premise `ExpiryFairness`: the expiry drain is
called again and again (every minute, `scheduled-maintenance.ts`), and a command that was begun is
carried to its answer, which also frees the session it occupies. Still no command need be issued, and
nothing is assumed of the clock.

`progress` assumes the same of each queue, as `FairStep` of its module says step by step: its drain
is scheduled, what a worker or drain has begun goes on, leases run out. It is weak fairness
throughout, `PartFairness` being the fairness of the component that moves. The sealing provider is
assumed to finish an operation it has accepted; completion grants expire in time; the clock of the
orphan sweep goes on; during a key rotation the old processes stop in the end. `RerunConverges`
assumes an operator who runs a deploy again after a failure. Faults are bounded, not fair: nothing
has to crash.

## Proofs

TLC checks instances; the proofs hold for every value of the constants that the modules' named
assumptions admit: for `EnvelopeSigning` every recipient graph `assertReadyInput` accepts
(`RecipientGraph`), every number of sessions, every set of commands, every batch size and every
bound (`SigningConstants`); for the others `ApiKeysAssumption`, `RetentionConstants`,
`DocxConstants`, `D1Constants` and `AuthoringConstants`, which say no more than that limits are
numbers, positive where the code needs it, and sets of names disjoint; and `InstanceConstants` and
`D1InstanceConstants`: users are numbered, there are finitely many invitations (and on PostgreSQL
users), and a request is one the service lets through (`wellFormed`). The last four are hypotheses
of their theorems, and `MCEnvelopes` and `MCAdministration` assume them of each of their scenarios.
Nothing else is assumed. All theorems are about the specifications without fairness. Each rests on
an inductive invariant, checked by TLC before it was proved, with one lemma for each action of the
module.

`EnvelopeSigningProofs`. It begins, as `D1SigningProofs` does, with lemmas on the routing operators
of `EnvelopeDomain` that both need (a module of proofs about one store cannot use that about the
other). Types, ledger and expiry:

- `TypeCorrect`: `Spec => []TypeOK`. `TypeOK` is not inductive: that the tries stay within
  `MAX_AUDIT_ATTEMPTS` needs that a session about to retry has tries left, and a session that
  publishes addresses a recipient (`RequestOK`). `TypeInv` is the conjunction, and the other proofs
  build on it.
- `LineageCorrect`: `Spec => []LineageLinear`. Inductive beside `TypeInv`; only a send and a reissue
  touch the ledger (`LedgerStep`), and the reissue's publication re-reads the current capability.
- `ExpiryCorrect`: `Spec => ExpiryOnlyWhenLapsed`, an action property. The drain decides on a clock
  reading it may have taken long ago, so the publication's own check shows that capabilities had
  lapsed at that reading; the invariant `ReadingsPast` (no reading is ahead of the clock) carries it
  to the moment of the step.

Routing:

- `RoutingCorrect`: `Spec => []ReleasedExactly`. To open a group, a publication needs all of it in the
  state the send left; `Untouched` says that whoever has no open link has a capability that is not
  revoked and has not acted, `Unsent` starts the induction, and `OnlyInvited` and `OnlyActionable`
  keep recipients who are never invited, and viewers, out of the argument. The heart is the decision:
  the plan a session holds may be stale, but the publication repeats the plan's premises, so a
  published plan names the next group of the current rows (`PlanMeaning` shows what
  `planRecipientDecisionRouting` returns).
- `LifecycleImplemented`: `Spec => ImplementsLifecycle`. `Opened` and `Acted` map a state to one of
  `EnvelopeLifecycle`; `LifecycleStep` restates its next-state relation over `env`, `Opened` and
  `Acted`, and each action is shown to be such a step, from `RoutingInv`.

The outbox:

- `OpenRowsCurrent` and `EndingsScrub`: `Spec => []OpenRowCurrent`, `Spec => []TerminalScrubbed`, from
  one invariant, `OutboxInv`. `RowsOK` adds that a row no longer open has been scrubbed and that a
  released row has an expiry; `Quiet` that nothing is queued before the send or after a fenced
  ending; `CompletedRevoked` is needed because an ending revokes only the capabilities of recipients
  who have not completed.
- `SubmissionsFenced`: `Spec => []SubmissionFenced`. The property speaks of a task about to submit;
  what makes it so is said by `Fence`: while no lease has been outlived, every task holds the lease of
  its row, which has not run out, and no two tasks work on one row. A publication leaves leased rows
  as they are (`SessionKeepsLeases`), so it leaves `Fence`; the drain claims rows that no task holds,
  because the lease of a row it takes over has run out; the passing of a lease with its worker
  running is what `overruns` counts. A leased row is open, so by `OutboxInv` its capability is the
  current one and its envelope was not ended by a fenced command.

`D1SigningProofs`, for any number of commands whose reads are torn

- The inductive invariant `Inv`. A command in flight knows very little (`Knows`: whom it addresses,
  and that the envelope had not ended when it read it): all that a batch may rely on is what its
  triggers see again. So the weight lies on the rows. `RoutingInv` is the routing invariant of the
  PostgreSQL proof over D1's rows; `RowsOK` ties an outbox row to the capability of its recipient: it
  holds its ciphertext exactly as long as it may be retried, a row exists for each issued capability,
  and one that was replaced is settled; `Unfinished` says that before the end nobody has declined and
  only who has completed is revoked, from which the payload of a terminal event follows.
- `ChainNeverForks`, `EvidenceIsTrue`, `EndedIsQuiet`: `Spec => []ChainLinear`,
  `[]RevocationEvidenceTrue`, `[]TerminalQuiet`, conjuncts of `Inv`. For the second: the recipients a
  command read as revocable need not be those of the batch, but the trigger compares them with the
  rows (`revocable`), and with `Unfinished` these are all who had not finished. For the third: an
  expiry does not wait for a lease (`InvEnded`), and a late worker can only leave what `TerminalQuiet`
  lists (`Rewritten`).
- `ReplacedIsDestroyed`, `RoutingExact`: `Spec => []ReplacedLinkDestroyed`, `Spec => []ReleasedExactly`,
  from `RowsOK` and `RoutingInv`.
- `LifecycleImplemented`: `Spec => ImplementsLifecycle`, by the mapping of the PostgreSQL proof. So
  both stores implement one abstract lifecycle. A decision is the step `Decided`: the plan it read may
  be stale, but the trigger's checks (`routingHolds`) make it the plan of the current rows
  (`Outstanding`, `NextGroup`).

`EnvelopeAuthoringProofs`, for both stores

- The inductive invariant `Inv` says of each command under way what its readings still mean
  (`InFlight`). `Read`: if the generation is the one it saw, the text is the one it read, and if the
  audit head is the one it read, so are the placements. A publication compares generation and head
  only, and by `Read` that is enough. `Seen`: the ready event its sender saw is behind it. `Stored`:
  the objects its publication will refer to are in the object store. `Receipted` says that every
  event of a command has its receipt, and `Declared` that the recipient rows are those of a ready
  event. The D1 twin differs in where it reads and in its triggers, and keeps the same `Inv`.
- `SentReviewed`, `PlacementsCoherent`, `EffectsOnce`, `ObjectsFirst`: `[]SentAsReviewed`,
  `[]FieldsCoherent`, `[]EffectOnce`, `[]PointersBacked`, each for `Spec` and for `D1Spec`. These are
  the parts of `AuthoringSound`.
- `TextImplemented`: `Spec => ImplementsText`, `D1Spec => ImplementsText`: every publication is one
  step of `AgreementText`, made from the text it replaces.

`ApiKeysProofs`, for both stores

- `ApiKeyTypes`: `Spec => []TypeOK`, with the bound on the tries of the retry loop.
- `OneKeyIssued`, `RevocationProven`: `Spec => []OneKeyPerCommand`,
  `Spec => []RevocationMatchesReceipt`. `Inv` adds to the types that rows without an owner are empty
  (`Rows`), that every key is named by one create receipt and every receipt by a key (`Created`), the
  same for revocations (`Withdrawn`), and that a batch under way carries the id it drew
  (`CallsNameKeys`).
- `RevocationHolds`, `OwnersChecked`: `Spec => RevokedNeverAuthenticates`,
  `Spec => WritesWhileActive`, action properties; the second shows that the predicates of D1's batch
  see what its gate saw.
- `RateHolds`: `Spec => []RateBounded`. A row of the code holds the start of the last window and its
  count only; what earlier windows admitted is bounded through the start (`Windows`): at most the limit
  for each window that fits before it. A use either raises the count below the limit or opens a window
  at least one length later, and then the quota has grown by the limit (`QuotaGrows`); that no reading
  is ahead of the clock (`ReadingsPast`) bounds the start.
- `ListsComplete`: `Spec => []PagesComplete`, the half of `ListingsComplete` that is about keys.
  `Walk`: what was seen is at or before the cursor, and a key of the start not seen yet is after it;
  it stays so because rows keep their owner and creation time (`RowsStay`), whatever is created on
  either side of the cursor. That a page is the first `PageLimit` rows needs counting: the ranks of
  finitely many ordered rows are all the numbers below their count (`RanksFill`, by the pigeonhole
  principle), so the page's items are its rows, each once (`ItemsList`), and its last is before every
  row left out (`LastIsLast`).

`ObjectRetentionProofs`

- `AssetsKept`: `Spec => []SignedAssetsKept`. `ReferencesBound`: a signature in use has a bound row;
  `DeletesRetired`: a sweep is about to delete tombstoned signatures only; `ReadStillThere`: since a
  signing read its object, nobody deleted it unless the row it will try to bind is a tombstone.
- `LedgerDecides`: `Spec => LedgerDecidesOnce`, from the same invariant.

`DocxConversionProofs`

- `ImportsOnce`, `ExportsPinned`, `AttemptsLogged`: `Spec => []ImportedOnce`, `[]ExportPinned`,
  `[]AttemptsRecorded`, together `ConversionsCorrect`: `Spec => []ConversionsSound`. `KeysOnce` and
  `RevisionsAsked` tie the draft's history to the jobs,
  `JobsSound` and `WorkersSound` say what a job shows or a worker is about to show as its result, and
  `Recorded` ties the log to the jobs: the last record may be final and then the job rests as it says.
- `DocxLeasesImplemented`: `Spec => ImplementsDocxLeases`: for each job, every step is a step of
  `LeasedJob` or leaves that job alone.

`InstanceMembershipProofs`, about the PostgreSQL store, for any number of users, commands,
transactions and aborts

- The inductive invariant `Inv` ties what a transaction decided on to the rows it will write. Locks
  of different transactions do not conflict (`Exclusive`) and transactions have numbers of their own
  (`Numbered`); `Holding` says which locks a transaction holds at its statement, `Reads` what is
  still true of the rows it has read, because of those locks. A step of one transaction keeps the
  `Reads` of another because the lock it needed to write conflicts with the lock that protects the
  reading. `Covered` says that who made a pending invitation may make it now, unless it had
  lapsed when its maker last changed; `Rows` gives the rows their shape.
- `OwnerAlwaysKept`, `PendingAlwaysCapped`, `InvitersAlwaysEntitled`: `Spec => []OwnerKept`,
  `Spec => []PendingCapped`, `Spec => []InvitersEntitled`, from `Inv`. The administrators' lock keeps
  the count of the other owners true until the commit, the creators' lock that of the pending
  invitations.
- `ReceiptsAlwaysExplain`, `AlwaysEnrolledOnce`: `Spec => []ReceiptsExplain`, `Spec => []EnrolledOnce`.
  The induction is over a history, `History`: the last receipt about a member says how the row is,
  each receipt begins where the one before it ended, and the receipts of a user's coming in are one
  for a member and none for anybody else (`Enrolled`).
- `GovernanceImplemented`: `Spec => ImplementsGovernance`. Only the five commits write rows
  (`Commits`); each, by the `Reads` of its transaction, is a command of `InstanceGovernance`.

`D1InstanceMembershipProofs`, the same six theorems about the D1 store, which has no locks, for any
number of users, commands and batches between a gate and its batch

- The inductive invariant `Inv` has nothing in it about what a gate has read, but that the member a
  change is about was one (`Knows`): gates decide nothing that lasts. `Covered` and `Rows` are those of
  the PostgreSQL proof, and each batch keeps them by what its predicates and its triggers see again.
  `OwnerKept` holds because the floor's trigger counts at the batch (`floorKept`), `PendingCapped`
  because the evidence of a create does (`createEvidence`), `InvitersEntitled` because a create needs
  an inviter entitled in its own batch and a demotion takes back exactly what the member loses:
  `CascadeIsLost` derives the cascade of `roleCascadeKind` from `Covered`.
- A second command for the same result in the same instant is recorded although its update matches no
  row. It changes nothing: the cascade it runs again is empty (`SameCascadesNothing`), which again is
  `Covered`. Its receipt begins elsewhere than the one before it ended, so `Explained` carries the
  instant of each member's last receipt, and `ReceiptsExplain` follows from it.
- `GovernanceImplemented`: each batch that applies is the command of `InstanceGovernance` by its actor;
  a receipt without a change (the founder's second bootstrap, an invitation a cascade took back first,
  a repeated change) is its `Confirm`. With the theorem about PostgreSQL, both stores implement one
  abstract governance.

The attempt at the PostgreSQL proofs corrected the model: the statement that locks the two members of an
administrative command returns the rows there are when it starts, so a subject who is enrolled while
it waits for the first lock is not seen (`lockMembers`).

Only model-checked, and why. Liveness (`AbandonedEnds`, `CiphertextDestroyed`, `InvitationSettles`, `WorkSettles`,
`RotationsSound` in part, `RerunConverges`): fairness and `ENABLED` are beyond the prover. What an
algorithm computes for every input (`DocumentSetSound`, `DifferSound`): that is induction over data,
which the prover's library states with operator parameters that none of its back ends can
instantiate. The contacts (`ContactsSound` and their half of `ListingsComplete`, whose keys' half is
`ListsComplete`) and the conjunctions `GrantsSound` and `WebhooksSound`, with the refinements of
`LeasedJob` other than the one above: checked by TLC so far; nothing but the work stands in the way
of proving the safety part of them. `MCEnvelopes.AuthoringSound` and `MCEnvelopes.D1SigningSound`
speak of several instances of a component at once, and so do `MembersSound` and
`ImplementsGovernance` of `MCAdministration`, so no theorem states them; their parts are proved
above of every instance.

## Findings

The code disagrees with the repository's documents in five places; each has a run whose expected
result is a violation.

1. `attempts` / `AttemptsBounded`. `envelope-model.md` says retryable failures use backoff "for at
   most ten claimed attempts". The limit is applied when a failure is written; an abandoned lease is
   claimed again whatever its count.
2. `continuation` / `ViewContinues`. `recipient-capability-reissue.md` says a live replacement
   presented for an already viewed recipient "results in continuation". The send never writes the
   first capability to the issuance ledger, so `#verifyLineage` cannot reach it and the view answers
   `integrity_error`.
3. `replacement` / `LiveInvitationKept`. `recipient-invitation-replacement.md` offers a replacement
   for pending or viewed recipients and says "a replacement email will be sent later". The drain only
   delivers to `pending` recipients and destroys the replacement of a viewed one.
4. `unanswered` / `AbandonedEnds`. `envelope-expiry-service.ts:27` says the drain "makes the `expired`
   envelope terminal state actually reachable". On PostgreSQL it does not:
   `postgres-envelope-expiry-store.ts:217` and `:225` name `recipient.recipient.envelope_id`, which
   the database rejects, so every prepare throws and nothing expires. The D1 store is right, and
   `delivery` checks the same property with the query answered.
5. `replays` / `ReplaySafe`. `recipient-contact-book.md` says a repeated creation returns the contact
   "for a safe replay", and `persistence.md` that both stores must agree on replay outcomes. The D1
   batch takes the receipt of a creation from any contact of the owner with that id at version 1,
   whether or not the insert of the same batch wrote it. With an owner suspended after the gate and a
   generated id that is taken, the receipt is all that is written; once the owner is active again the
   request is answered as a replay, with the other contact.

Observations made while modelling. The models contain the behaviour; no document says otherwise, so
there is no run for them.

- Provider unavailability counts as a failure of the seal job like any other, so that an outage of
  the signing provider longer than its retries makes the job fail for good.
- On PostgreSQL the webhook claim limits its batch before it leaves out rows of revoked endpoints, so
  enough of those hold up due work until the clean-up ends them; D1 filters first (`ActiveFirst`).
- The preparation of a draft commit reads the receipt and then the envelope. An attempt of a DOCX
  import that reads the one before and the other after an earlier attempt of the same job commits
  is answered `generation_conflict`, and the job ends with `concurrency_conflict` although its
  revision is in the draft (`postgres-envelope-application-store.ts:469`).
- Accepting an invitation locks the invitation before the members and the change of a member the
  other way round (`postgres-instance-store.ts:700`): a cycle PostgreSQL breaks by aborting one of
  them. `InstanceMembership` has the abort.
- The orphan sweep decides on an age it has read before it deletes, so an object put again under the
  same content-addressed key in between is deleted (`orphan-collector.ts:370`). The signature ledger
  protects drawn signatures from it (`AssetsKept`); DOCX sources and uploaded PDFs have the grace
  period alone.
- A database that was populated before it was adopted may hold migrations of an epoch the state file
  does not know.
- A line that ends one text without a newline, and is followed by more in the other, is shown by the
  differ as common to both with an end-of-file mark (`revision-diff.ts:362`). `PatchApplies` is
  checked for terminated texts.

## Left out

About 15 percent of the lines of the implementation are the source of a definition. The rest is, by
size, presentation and data:

- the user interface, the HTTP handlers with their OpenAPI description, sessions and authorization,
  embedded fonts: they keep no protocol state of their own;
- PDF, DOCX, mail and object adapters, hashing and sealing, the layout of the executed PDF, the
  canonical serialization of audit events: conversions, which appear by their outcomes;
- the D1 twins of the DOCX jobs and of completion delivery; the other D1 stores are modelled;
- field values and geometry, command receipts inside a signature, titles and path syntax of
  documents, the Git object format of drafts;
- the budget of a mail provider (a send deferred for it looks like a transient failure);
- the dashboard, a read-only query, and the CLI, a client of the HTTP API;
- of `create-signkit` the parsing of bootstrap files and the recovery command;
- answer codes, where no property is about them. In particular a decision overtaken by a peer of its
  group is answered `integrity_error` rather than `audit_conflict` and is not retried by the service;
  the model has the refusal;
- the duplicate mail of a lost receipt is in the model and accepted by `envelope-model.md`.
