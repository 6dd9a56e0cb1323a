------------------------- MODULE CompletionDelivery -------------------------
(***************************************************************************)
(* Mailing the completed agreement: for every recipient of one completed   *)
(* envelope a line of grants (generations of completion_delivery_outbox),  *)
(* the drain that enrolls and mails them, the reissue of a failed grant,   *)
(* and the sweep that moves sealed tokens to the active key.               *)
(*                                                                         *)
(* A grant's token is known only as ciphertext, which is modelled by the   *)
(* key it is sealed under; keys are numbered in the order of rotation.  A  *)
(* lease number stands for the claim token and for its clock reading.      *)
(***************************************************************************)
EXTENDS Naturals, Sequences, SequencesExt, FiniteSets

CONSTANTS
  Recipients,      \* recipients with a role that gets mail
  Drains,          \* concurrent enrollments
  Operators,       \* concurrent requests to reissue
  Keys,            \* their idempotency keys
  MaxAttempts,     \* MAX_COMPLETION_DELIVERY_ATTEMPTS
  MaxTries,        \* MAX_RETRY_ATTEMPTS of the reissue
  MaxGenerations,  \* bound: grants per recipient
  MaxRotations,    \* bound: rotations of the sealing key
  MaxCrashes,      \* bound: workers that die or lose the store
  MaxOverruns,     \* bound: leases outlived by a running worker
  MaxEvents        \* bound: audit events of other writers

DeliveryConstants ==
  /\ {MaxAttempts, MaxTries, MaxGenerations} \subseteq Nat \ {0}
  /\ {MaxRotations, MaxCrashes, MaxOverruns, MaxEvents} \subseteq Nat

VARIABLES
  rows,       \* completion_delivery_outbox: per recipient, in order of insertion
  pdf,        \* whether completion_artifact_pdf is published
  receipts,   \* completion_access_reissue_command
  audit,      \* audit events after the publication
  mails,      \* grants whose token the mail provider has accepted
  keyring,    \* active and previous sealing key
  seeds,      \* enrollments between discovery and insertion
  tasks,      \* deliveries under way
  sweeps,     \* rows read by the sweep and not yet written
  ops,        \* requests to reissue
  crashes, overruns

db == <<rows, receipts, audit>>
bounds == <<crashes, overruns>>
vars == <<db, pdf, mails, keyring, seeds, tasks, sweeps, ops, bounds>>

None == 0

\* A grant as it is inserted.  at is the lease whose failure it records; by
\* the lease that delivered it.
grant(gen, key) ==
  [gen |-> gen, status |-> "pending", retryable |-> TRUE, sealed |-> key, revoked |-> FALSE,
   expired |-> FALSE, attempts |-> 0, token |-> None, stale |-> FALSE, leases |-> 0,
   error |-> "none", at |-> None, by |-> None]

Grants == {<<r, i>> \in Recipients \X (1..MaxGenerations) : i <= Len(rows[r])}
row(g) == rows[g[1]][g[2]]
set(g, new) == rows' = [rows EXCEPT ![g[1]][g[2]] = new]

-----------------------------------------------------------------------------
(***************************************************************************)
(* Enrollment.                                                             *)
(***************************************************************************)

discoverEligibleRecipients(d) ==
  /\ ~\E s \in seeds : s.drain = d
  /\ \E r \in Recipients :
       /\ rows[r] = <<>>
       /\ seeds' = seeds \cup {[drain |-> d, r |-> r, key |-> keyring.active]}
  /\ UNCHANGED <<db, pdf, mails, keyring, tasks, sweeps, ops, bounds>>

\* ON CONFLICT (envelope_id, recipient_id, generation) DO NOTHING.
enrolled(r) == \E i \in DOMAIN rows[r] : rows[r][i].gen = 1

enrollDeliveries(s) ==
  /\ seeds' = seeds \ {s}
  /\ rows' = IF enrolled(s.r) THEN rows ELSE [rows EXCEPT ![s.r] = Append(@, grant(1, s.key))]
  /\ UNCHANGED <<receipts, audit, pdf, mails, keyring, tasks, sweeps, ops, bounds>>

-----------------------------------------------------------------------------
(***************************************************************************)
(* Claiming.                                                               *)
(***************************************************************************)

waiting(x) == x.status \in {"pending", "failed"} /\ x.retryable

\* Slip: a lease is good for ever.
abandoned_never(x) == x.status = "processing" /\ x.token = None

abandoned(x) == x.status = "processing" /\ x.stale
eligible(x) == ~x.revoked /\ ~x.expired

\* A grant that failed for good: no ciphertext, no access.
closed(x, error) ==
  [x EXCEPT !.status = "failed", !.retryable = FALSE, !.sealed = None, !.revoked = TRUE,
            !.token = None, !.stale = FALSE, !.error = error, !.at = x.leases]

terminalCandidate(x) ==
  x.retryable /\ x.sealed # None /\ (waiting(x) \/ abandoned(x)) /\ ~eligible(x)

claimable(x) == (waiting(x) \/ abandoned(x)) /\ eligible(x) /\ x.sealed # None

held(x) ==
  [x EXCEPT !.status = "processing", !.token = x.leases + 1, !.leases = x.leases + 1,
            !.attempts = x.attempts + 1, !.stale = FALSE]

\* One transaction: ineligible rows are closed, then rows are leased; only
\* once the PDF is published.  Which rows fit the batch is open.
claimPendingDeliveries ==
  LET terminal == {g \in Grants : terminalCandidate(row(g))}
      candidates == {g \in Grants : claimable(row(g)) /\ pdf}
  IN  \E chosen \in SUBSET candidates :
        /\ terminal \cup chosen # {}
        /\ rows' = [r \in Recipients |-> [i \in DOMAIN rows[r] |->
                      IF <<r, i>> \in terminal THEN closed(rows[r][i], "delivery_not_eligible")
                      ELSE IF <<r, i>> \in chosen THEN held(rows[r][i])
                      ELSE rows[r][i]]]
        /\ tasks' = tasks \cup {[g |-> g, token |-> held(row(g)).token, pc |-> "claimed",
                                 attempts |-> 0, key |-> None, code |-> "none"] : g \in chosen}
        /\ UNCHANGED <<receipts, audit, pdf, mails, keyring, seeds, sweeps, ops, bounds>>

holds(t) == row(t.g).status = "processing" /\ row(t.g).token = t.token

become(t, u) == tasks' = (tasks \ {t}) \cup {u}
finished(t) == tasks' = tasks \ {t}
failing(t, code) == [t EXCEPT !.pc = "failing", !.code = code]

-----------------------------------------------------------------------------
(***************************************************************************)
(* The delivery of one claimed grant.                                      *)
(***************************************************************************)

Known == {keyring.active, keyring.previous}

\* The re-read under the claim token and #verifyClaim.
readClaimedDelivery(t) ==
  LET u == [t EXCEPT !.attempts = row(t.g).attempts, !.key = row(t.g).sealed]
  IN  /\ t.pc = "claimed"
      /\ IF ~holds(t) THEN finished(t)
         ELSE become(t, IF u.key \in Known THEN [u EXCEPT !.pc = "attach"]
                        ELSE failing(u, "retryable"))
      /\ UNCHANGED <<db, pdf, mails, keyring, seeds, sweeps, ops, bounds>>

\* The token is opened; the PDF is read and may be missing or damaged.
readAttachment(t) ==
  /\ t.pc = "attach"
  /\ \E u \in {[t EXCEPT !.pc = "mail"], failing(t, "retryable"), failing(t, "permanent")} :
       become(t, u)
  /\ UNCHANGED <<db, pdf, mails, keyring, seeds, sweeps, ops, bounds>>

\* Slip: a lost answer is taken for acceptance.
send_optimistic(t) ==
  /\ t.pc = "mail"
  /\ mails' \in {mails, mails \cup {t.g}} /\ become(t, [t EXCEPT !.pc = "mailed"])
  /\ UNCHANGED <<db, pdf, keyring, seeds, sweeps, ops, bounds>>

\* The provider takes the message and says so; or it takes it and the answer
\* is lost or carries no receipt; or it refuses it, for now or for good.
send(t) ==
  /\ t.pc = "mail"
  /\ \/ mails' = mails \cup {t.g} /\ become(t, [t EXCEPT !.pc = "mailed"])
     \/ mails' \in {mails, mails \cup {t.g}} /\ become(t, failing(t, "retryable"))
     \/ UNCHANGED mails /\ become(t, failing(t, "permanent"))
  /\ UNCHANGED <<db, pdf, keyring, seeds, sweeps, ops, bounds>>

\* Slip: the outcome is written whoever holds the lease.
leaseHeld_unchecked(t) == row(t.g).status # "pending"

leaseHeld(t) == holds(t)

completeDelivery(t) ==
  /\ t.pc = "mailed"
  /\ finished(t)
  /\ IF leaseHeld(t)
     THEN set(t.g, [row(t.g) EXCEPT !.status = "delivered", !.retryable = FALSE, !.sealed = None,
                      !.token = None, !.stale = FALSE, !.by = t.token])
     ELSE UNCHANGED rows
  /\ UNCHANGED <<receipts, audit, pdf, mails, keyring, seeds, sweeps, ops, bounds>>

willRetry(t) == t.code = "retryable" /\ t.attempts < MaxAttempts

\* #finishFailure and failDelivery.
finishFailure(t) ==
  LET x == row(t.g)
  IN  /\ t.pc = "failing"
      /\ finished(t)
      /\ IF ~leaseHeld(t) THEN UNCHANGED rows
         ELSE set(t.g, IF willRetry(t)
                       THEN [x EXCEPT !.status = "failed", !.token = None, !.stale = FALSE,
                                      !.error = t.code]
                       ELSE closed(x, t.code))
      /\ UNCHANGED <<receipts, audit, pdf, mails, keyring, seeds, sweeps, ops, bounds>>

deliverClaim(t) ==
  readClaimedDelivery(t) \/ readAttachment(t) \/ send(t) \/ completeDelivery(t) \/ finishFailure(t)

-----------------------------------------------------------------------------
(***************************************************************************)
(* Key rotation and the reseal sweep.                                      *)
(***************************************************************************)

\* A new active key; the one before stays in the keyring.
rotate ==
  /\ keyring.active <= MaxRotations
  /\ keyring.previous = None
  /\ keyring' = [active |-> keyring.active + 1, previous |-> keyring.active]
  /\ UNCHANGED <<db, pdf, mails, seeds, tasks, sweeps, ops, bounds>>

\* The previous key is dropped when no row reports it, and long after any
\* process that sealed under it has ended (docs/deployment.md).
retire ==
  /\ keyring.previous # None
  /\ \A g \in Grants : row(g).sealed # keyring.previous
  /\ seeds = {} /\ sweeps = {} /\ \A o \in Operators : ops[o].pc = "idle"
  /\ keyring' = [keyring EXCEPT !.previous = None]
  /\ UNCHANGED <<db, pdf, mails, seeds, tasks, sweeps, ops, bounds>>

findStaleSealedTokens ==
  /\ \E g \in Grants :
       /\ row(g).status \in {"pending", "failed"}
       /\ row(g).sealed \notin {None, keyring.active}
       /\ sweeps' = sweeps \cup {[g |-> g, key |-> row(g).sealed]}
       /\ sweeps' # sweeps
  /\ UNCHANGED <<db, pdf, mails, keyring, seeds, tasks, ops, bounds>>

\* Slip: whatever the row has become, it is given the ciphertext.
resealable_blind(x, key) == x.status # "processing"

\* Slip: the write expects the key it is about to write.
resealable_activeKey(x, key) == x.status # "processing" /\ x.sealed = keyring.active

resealable(x, key) == x.status # "processing" /\ x.sealed # None /\ x.sealed = key

\* Open, seal under the active key, write conditionally.
resealOutstandingTokens(s) ==
  /\ sweeps' = sweeps \ {s}
  /\ IF s.key \in Known /\ resealable(row(s.g), s.key)
     THEN set(s.g, [row(s.g) EXCEPT !.sealed = keyring.active])
     ELSE UNCHANGED rows
  /\ UNCHANGED <<receipts, audit, pdf, mails, keyring, seeds, tasks, ops, bounds>>

-----------------------------------------------------------------------------
(***************************************************************************)
(* Reissue of a failed grant.                                              *)
(***************************************************************************)

NoOp == [pc |-> "idle", key |-> None, echo |-> <<>>, tries |-> 0, head |-> 0, gen |-> 0]

failedForGood(x) == x.status = "failed" /\ ~x.retryable

\* What a caller echoes of the failed grant it was shown.
echoOf(g) == <<g, row(g).attempts, row(g).at, row(g).error>>

request(o) ==
  /\ ops[o].pc = "idle"
  /\ \E key \in Keys, g \in Grants :
       /\ failedForGood(row(g)) /\ g[2] < MaxGenerations
       /\ ops' = [ops EXCEPT ![o] = [NoOp EXCEPT !.pc = "prepare", !.key = key, !.echo = echoOf(g)]]
  /\ UNCHANGED <<db, pdf, mails, keyring, seeds, tasks, sweeps, bounds>>

\* A receipt of this key answers: replayed, or a conflict of bodies.
resolved(c) == \E d \in receipts : d.key = c.key

\* Slip: a grant that has a successor may be given another.
reissuable_again(c) ==
  LET g == c.echo[1]
  IN  /\ failedForGood(row(g)) /\ row(g).revoked /\ row(g).sealed = None /\ row(g).token = None
      /\ c.echo = echoOf(g)

\* #evaluateEligibility: no successor, failed for good, and still the failure
\* the caller saw.
reissuable(c) ==
  LET g == c.echo[1]
  IN  /\ g[2] = Len(rows[g[1]])
      /\ failedForGood(row(g)) /\ row(g).revoked /\ row(g).sealed = None /\ row(g).token = None
      /\ c.echo = echoOf(g)

prepareReissue(o) ==
  LET c == ops[o]
  IN  /\ c.pc = "prepare"
      /\ ops' = [ops EXCEPT ![o] =
                   IF resolved(c) \/ ~reissuable(c) THEN NoOp
                   ELSE [c EXCEPT !.pc = "verify", !.tries = c.tries + 1, !.head = Len(audit),
                                  !.gen = row(c.echo[1]).gen]]
      /\ UNCHANGED <<db, pdf, mails, keyring, seeds, tasks, sweeps, bounds>>

\* Another try after a retryable outcome, while there are tries left.
retried(c) == IF c.tries < MaxTries THEN [c EXCEPT !.pc = "prepare"] ELSE NoOp

\* The published objects are read again: verified, unreadable for now, or not
\* published or damaged.
verifyArtifacts(o) ==
  LET c == ops[o]
  IN  /\ c.pc = "verify"
      /\ \/ pdf /\ ops' = [ops EXCEPT ![o].pc = "publish"]
         \/ ops' = [ops EXCEPT ![o] = retried(c)]
         \/ ops' = [ops EXCEPT ![o] = NoOp]
      /\ UNCHANGED <<db, pdf, mails, keyring, seeds, tasks, sweeps, bounds>>

\* Slip: the head read before the verification is not compared again.
headCurrent_unchecked(c) == c.head <= Len(audit)

headCurrent(c) == c.head = Len(audit)

\* The publication, under the envelope's lock.
publishReissue(o) ==
  LET c == ops[o]
      r == c.echo[1][1]
  IN  /\ c.pc = "publish"
      /\ \/ /\ resolved(c) \/ ~reissuable(c)
            /\ ops' = [ops EXCEPT ![o] = NoOp]
            /\ UNCHANGED db
         \/ /\ ~resolved(c) /\ reissuable(c) /\ ~headCurrent(c)
            /\ ops' = [ops EXCEPT ![o] = retried(c)]
            /\ UNCHANGED db
         \/ /\ ~resolved(c) /\ reissuable(c) /\ headCurrent(c)
            /\ rows' = [rows EXCEPT ![r] = Append(@, grant(c.gen + 1, keyring.active))]
            /\ receipts' = receipts \cup {[key |-> c.key, echo |-> c.echo]}
            /\ audit' = Append(audit, [type |-> "reissued", of |-> c.echo[1], prev |-> c.head])
            /\ ops' = [ops EXCEPT ![o] = NoOp]
      /\ UNCHANGED <<pdf, mails, keyring, seeds, tasks, sweeps, bounds>>

-----------------------------------------------------------------------------
(***************************************************************************)
(* The environment.                                                        *)
(***************************************************************************)

\* The artifact pipeline publishes the PDF.
pdfPublished ==
  /\ ~pdf /\ pdf' = TRUE
  /\ UNCHANGED <<db, mails, keyring, seeds, tasks, sweeps, ops, bounds>>

\* Thirty days pass on a grant.
accessExpires(g) ==
  /\ ~row(g).expired
  /\ set(g, [row(g) EXCEPT !.expired = TRUE])
  /\ UNCHANGED <<receipts, audit, pdf, mails, keyring, seeds, tasks, sweeps, ops, bounds>>

\* Sealing appends to the chain of a completed envelope.
laterEvent ==
  /\ Cardinality({i \in DOMAIN audit : audit[i].type = "later"}) < MaxEvents
  /\ audit' = Append(audit, [type |-> "later", of |-> <<>>, prev |-> Len(audit)])
  /\ UNCHANGED <<rows, receipts, pdf, mails, keyring, seeds, tasks, sweeps, ops, bounds>>

crash(t) ==
  /\ crashes < MaxCrashes
  /\ crashes' = crashes + 1
  /\ finished(t)
  /\ UNCHANGED <<db, pdf, mails, keyring, seeds, sweeps, ops, overruns>>

leaseExpires(g) ==
  LET orphaned == ~\E t \in tasks : t.g = g /\ holds(t)
  IN  /\ row(g).status = "processing" /\ ~row(g).stale
      /\ set(g, [row(g) EXCEPT !.stale = TRUE])
      /\ \/ orphaned /\ UNCHANGED overruns
         \/ ~orphaned /\ overruns < MaxOverruns /\ overruns' = overruns + 1
      /\ UNCHANGED <<receipts, audit, pdf, mails, keyring, seeds, tasks, sweeps, ops, crashes>>

-----------------------------------------------------------------------------
Init ==
  /\ rows = [r \in Recipients |-> <<>>]
  /\ pdf = FALSE
  /\ receipts = {} /\ audit = <<>> /\ mails = {}
  /\ keyring = [active |-> 1, previous |-> None]
  /\ seeds = {} /\ tasks = {} /\ sweeps = {}
  /\ ops = [o \in Operators |-> NoOp]
  /\ crashes = 0 /\ overruns = 0

Next ==
  \/ \E d \in Drains : discoverEligibleRecipients(d)
  \/ \E s \in seeds : enrollDeliveries(s)
  \/ claimPendingDeliveries
  \/ \E t \in tasks : deliverClaim(t) \/ crash(t)
  \/ rotate \/ retire \/ findStaleSealedTokens
  \/ \E s \in sweeps : resealOutstandingTokens(s)
  \/ \E o \in Operators : request(o) \/ prepareReissue(o) \/ verifyArtifacts(o) \/ publishReissue(o)
  \/ \E g \in Grants : accessExpires(g) \/ leaseExpires(g)
  \/ pdfPublished \/ laterEvent

Spec == Init /\ [][Next]_vars

\* The drain is scheduled, its deliveries run, and time passes.
FairStep(i) ==
  \/ i = 1 /\ \E d \in Drains : discoverEligibleRecipients(d)
  \/ i = 2 /\ \E s \in seeds : enrollDeliveries(s)
  \/ i = 3 /\ claimPendingDeliveries
  \/ i = 4 /\ \E t \in tasks : deliverClaim(t)
  \/ i = 5 /\ \E g \in Grants : leaseExpires(g)
  \/ i = 6 /\ \E g \in Grants : accessExpires(g)

Fairness == \A i \in 1..6 : WF_vars(FairStep(i))

FairSpec == Spec /\ Fairness

\* Drain and sweep are scheduled; grants need not expire.
SweepStep(i) ==
  \/ i = 1 /\ claimPendingDeliveries
  \/ i = 2 /\ \E t \in tasks : deliverClaim(t)
  \/ i = 3 /\ findStaleSealedTokens
  \/ i = 4 /\ \E s \in sweeps : resealOutstandingTokens(s)
  \/ i = 5 /\ \E g \in Grants : leaseExpires(g)

-----------------------------------------------------------------------------
(***************************************************************************)
(* Properties.                                                             *)
(***************************************************************************)

\* resolveArtifactLocatorByTokenHash finds the grant of a token.
resolves(g) == ~row(g).revoked /\ ~row(g).expired

over(x) == x.status = "delivered" \/ failedForGood(x)

\* A recipient has at most one grant that may still let it in: generations
\* are numbered without gaps or repeats, and every grant but the newest has
\* failed and is revoked, although drains enroll concurrently, operators
\* reissue the same failure and workers outlive their leases.
OneGrant ==
  \A r \in Recipients : \A i \in DOMAIN rows[r] :
    /\ rows[r][i].gen = i
    /\ i < Len(rows[r]) => failedForGood(rows[r][i]) /\ rows[r][i].revoked

\* Ciphertext lives exactly as long as the grant may still be mailed, so no
\* late sweep, worker or cleanup brings back or leaves behind a token of a
\* delivered or failed grant; a grant that failed lets nobody in.
TokenScrubbed ==
  \A g \in Grants :
    /\ over(row(g)) <=> row(g).sealed = None
    /\ failedForGood(row(g)) => ~resolves(g)

\* A grant marked delivered is one whose link was mailed and still works, for
\* as long as it has not expired: no late failure revokes it.
DeliveredWorks ==
  \A g \in Grants : row(g).status = "delivered" =>
    g \in mails /\ (row(g).expired \/ resolves(g))

\* Every reissue is on record once: one receipt and one audit event for each
\* grant after the first, no key for two of them, and the events are chained
\* without a fork.
ReissuesRecorded ==
  /\ \A c, d \in receipts : c.key = d.key \/ c.echo[1] = d.echo[1] => c = d
  /\ {c.echo[1] : c \in receipts} = {<<g[1], g[2] - 1>> : g \in {h \in Grants : h[2] > 1}}
  /\ \A i \in DOMAIN audit : audit[i].prev = i - 1
  /\ \A g \in {c.echo[1] : c \in receipts} :
       Cardinality({i \in DOMAIN audit : audit[i].of = g}) = 1

\* A rotation can be finished: the sweep moves every outstanding token to the
\* active key, also of grants that are claimed, fail and are retried meanwhile,
\* and of grants that wait for a PDF.
TokensMoved ==
  keyring.previous # None => \A g \in Grants : row(g).sealed # keyring.previous

phaseOf(x) ==
  CASE x.status = "processing" -> "held"
    [] x.status = "delivered" -> "done"
    [] failedForGood(x) -> "dead"
    [] OTHER -> "open"

Job(r, i) == INSTANCE LeasedJob WITH
  phase <- IF i \in DOMAIN rows[r] THEN phaseOf(rows[r][i]) ELSE "absent",
  lease <- IF i \in DOMAIN rows[r] THEN rows[r][i].leases ELSE 0,
  winner <- IF i \in DOMAIN rows[r] THEN rows[r][i].by ELSE 0

\* Every grant is a leased job: it is delivered under its newest lease and
\* stays delivered.
ImplementsDeliveryLeases ==
  /\ \A r \in Recipients, i \in 1..MaxGenerations : Job(r, i)!Absent
  /\ [][\A r \in Recipients, i \in 1..MaxGenerations : [Job(r, i)!JobNext]_(Job(r, i)!job)]_vars

\* Every recipient is mailed or given up, also when the PDF is never
\* published, workers die and leases are outlived.
DeliverySettled == \A r \in Recipients : rows[r] # <<>> /\ over(Last(rows[r]))
=============================================================================
