--------------------------- MODULE EnvelopeSigning ---------------------------
(***************************************************************************)
(* One envelope from `ready' to its terminal state.                        *)
(*                                                                         *)
(* Actors: the sessions that run API commands (send, view, approve, sign,  *)
(* decline, void, capability reissue) and the expiry drain; the invitation *)
(* delivery drain and the delivery tasks it starts; the passage of time.   *)
(*                                                                         *)
(* A command is two database visits.  `prepare' reads rows and, by a later *)
(* statement outside any transaction, the audit head; `publish' is one     *)
(* transaction that locks the envelope, its recipients and its outbox rows *)
(* and checks everything again.  Anything may happen in between.  The model*)
(* reads the PostgreSQL stores; each transaction is one step because the   *)
(* row locks (FOR UPDATE in one order) serialise them.                     *)
(***************************************************************************)
EXTENDS EnvelopeDomain

CONSTANTS
  Sessions,             \* concurrent command executions
  Commands,             \* the commands clients issue
  Nobody,               \* the recipient of a command that addresses none
  EligibilityAnswered,  \* whether the expiry drain's eligibility query is accepted
  MaxIssues,            \* bound: capabilities ever issued to one recipient
  MaxReissues,          \* bound: reissues published before another is begun
  MaxAuditAttempts,     \* MAX_AUDIT_ATTEMPTS (3)
  MaxDeliveryAttempts,  \* MAX_INVITATION_DELIVERY_ATTEMPTS (10)
  ClaimBatch,           \* MAX_INVITATION_CLAIM_BATCH (25)
  CleanupBatch,         \* MAX_INVITATION_TERMINAL_CLEANUP_BATCH (100)
  MaxCrashes,           \* bound: delivery workers that die holding a lease
  MaxOverruns           \* bound: leases outlived by a worker still running

RecipientCommand == {"view", "approve", "sign", "decline", "reissue"}
Command == RecipientCommand \cup {"send", "void", "expire"}

ASSUME SigningConstants ==
  /\ Commands \subseteq Command
  /\ Nobody \notin Recipients
  /\ EligibilityAnswered \in BOOLEAN
  /\ MaxIssues \in Nat \ {0}
  /\ MaxReissues \in Nat
  /\ MaxAuditAttempts \in Nat \ {0}
  /\ MaxDeliveryAttempts \in Nat \ {0}
  /\ ClaimBatch \in Nat \ {0}
  /\ CleanupBatch \in Nat \ {0}
  /\ MaxCrashes \in Nat
  /\ MaxOverruns \in Nat

VARIABLES
  env,       \* envelope.status
  audit,     \* sequence of the head of the audit chain
  rcp,       \* the recipient rows
  pred,      \* recipient_capability_issuance: predecessor of an issued capability
  outbox,    \* the delivery_outbox rows, one per recipient and issuance
  lapsed,    \* every capability expiry up to this instant has passed
  req,       \* the command each session is executing
  tasks,     \* running delivery tasks
  mailed,    \* the invitations the mail provider has accepted
  crashes, overruns

vars == <<env, audit, rcp, pred, outbox, lapsed, req, tasks, mailed, crashes, overruns>>
recordVars == <<env, audit, rcp, pred, outbox>>
deliveryVars == <<tasks, mailed, crashes, overruns>>

-----------------------------------------------------------------------------
(***************************************************************************)
(* Representation.  A capability is the number of its issuance to its      *)
(* recipient, 0 standing for a NULL hash, so <<r, k>> is both the hash and *)
(* the outbox row that carries it.  All lifetimes are equal (14 days), so  *)
(* an expiry instant is the audit sequence of the event that granted it    *)
(* and instants compare as those events do; 0 is NULL.                     *)
(***************************************************************************)
Rows == Recipients \X (1..MaxIssues)

recipientRow ==
  [status : RecipientStatus, cap : 0..MaxIssues, exp : Nat, revoked : BOOLEAN,
   viewedWith : 0..MaxIssues]

outboxRow ==
  [status : {"none", "blocked", "pending", "processing", "delivered", "failed"},
   retryable : BOOLEAN, sealed : BOOLEAN, reserved : Nat,
   attempts : Nat, token : Nat, stale : BOOLEAN]

\* Claim tokens are fresh per claim: the row's attempt count names its claim.
NoToken == 0

NoRow ==
  [status |-> "none", retryable |-> FALSE, sealed |-> FALSE, reserved |-> 0,
   attempts |-> 0, token |-> NoToken, stale |-> FALSE]

NewRow(status, exp) ==
  [NoRow EXCEPT !.status = status, !.retryable = TRUE, !.sealed = TRUE, !.reserved = exp]

NoPlan == [kind |-> "continue", next |-> NoOrder, count |-> 0]
Plans == [kind : {"continue", "release", "complete"}, next : Nat, count : Nat]

request ==
  [pc : {"idle", "publish", "retry"}, kind : Command \cup {"none"},
   r : Recipients \cup {Nobody}, cap : 0..MaxIssues, status : EnvelopeStatus,
   at : Nat, head : Nat, tries : Nat, plan : Plans, revoked : SUBSET Recipients]

Idle ==
  [pc |-> "idle", kind |-> "none", r |-> Nobody, cap |-> 0, status |-> "draft",
   at |-> 0, head |-> 0, tries |-> 0, plan |-> NoPlan, revoked |-> {}]

task ==
  [r : Recipients, k : 1..MaxIssues, token : Nat, at : Nat,
   pc : {"claimed", "verified", "accepted", "retryable", "permanent"}]

Statuses == [r \in Recipients |-> rcp[r].status]

\* Slip: a lease past its time no longer counts as in flight.
processing_unexpired(R) ==
  \E i \in Rows : i[1] \in R /\ outbox[i].status = "processing" /\ ~outbox[i].stale

processing(R) == \E i \in Rows : i[1] \in R /\ outbox[i].status = "processing"

-----------------------------------------------------------------------------
(***************************************************************************)
(* Writes shared by several transactions.                                  *)
(***************************************************************************)

\* The row as every terminal write leaves it: no ciphertext, no lease.
scrubbed(row) ==
  [row EXCEPT !.status = "failed", !.retryable = FALSE, !.sealed = FALSE,
              !.token = NoToken, !.stale = FALSE]

undelivered(row) ==
  row.status \in {"blocked", "pending"} \/ (row.status = "failed" /\ row.retryable)

\* Slip: the invitations that wait for a retry are forgotten.
terminalCleanup_queuedOnly ==
  [i \in Rows |-> IF undelivered(outbox[i]) /\ outbox[i].status # "failed"
                  THEN scrubbed(outbox[i]) ELSE outbox[i]]

terminalCleanup ==
  [i \in Rows |-> IF undelivered(outbox[i]) THEN scrubbed(outbox[i]) ELSE outbox[i]]

\* Recipients whose capability a terminal transition must revoke.
revocable(rows, actor) ==
  {r \in Recipients : r # actor /\ rows[r].status # "completed"
                        /\ rows[r].cap # 0 /\ ~rows[r].revoked}

revoke(rows, R) ==
  [r \in Recipients |-> IF r \in R THEN [rows[r] EXCEPT !.revoked = TRUE] ELSE rows[r]]

live(row, at) == ~row.revoked /\ row.exp # 0 /\ row.exp > at

-----------------------------------------------------------------------------
(***************************************************************************)
(* The prepare reads: TRUE when the store answers `ready'.  Every other    *)
(* answer (not found, replayed, continued, not eligible) ends the command  *)
(* with no write.                                                          *)
(***************************************************************************)
prepareSend == env = "ready"

authorized(r, cap, at) ==
  /\ rcp[r].status \in {"pending", "viewed"}
  /\ r \in Invited
  /\ rcp[r].cap = cap
  /\ live(rcp[r], at)
  /\ env \in Active

prepareViewed(r, cap, at) == authorized(r, cap, at) /\ rcp[r].status = "pending"

liveEligible(r, cap, at, role, statuses) ==
  /\ rcp[r].status \in statuses
  /\ Role[r] \in role
  /\ rcp[r].cap = cap
  /\ live(rcp[r], at)
  /\ env \in Active

prepareApproved(r, cap, at) == liveEligible(r, cap, at, {"approver"}, {"viewed"})

prepareSign(r, cap, at) == liveEligible(r, cap, at, {"signer"}, {"viewed"})

declineEligible(r, cap, at) ==
  liveEligible(r, cap, at, {"signer", "approver"}, {"pending", "viewed"})

prepareDeclined(r, cap, at) == declineEligible(r, cap, at) /\ ~processing(Recipients)

isVoidableStatus(status) == status \in {"draft", "ready", "sent", "in_progress"}

prepareVoid(status) ==
  isVoidableStatus(env) /\ env = status /\ ~processing(Recipients)

released(r) ==
  /\ rcp[r].status \in {"pending", "viewed"}
  /\ rcp[r].exp # 0
  /\ rcp[r].cap # 0
  /\ ~rcp[r].revoked

\* Slip: reissue is not fenced by a delivery in flight.
reissuable_unfenced(r) ==
  /\ env \in Active
  /\ released(r)
  /\ ~\E k \in 1..MaxIssues : outbox[<<r, k>>].status = "blocked"

reissuable(r) ==
  /\ env \in Active
  /\ released(r)
  /\ ~processing({r})
  /\ ~\E k \in 1..MaxIssues : outbox[<<r, k>>].status = "blocked"

prepareReissue(r) == reissuable(r)

outstanding(r) == r \in Actionable /\ rcp[r].status \in {"pending", "viewed"} /\ rcp[r].exp # 0

\* The envelope's released actionable recipients have all run out.
abandoned(at) ==
  /\ env \in Active
  /\ \E r \in Recipients : outstanding(r) /\ rcp[r].exp <= at
  /\ ~\E r \in Recipients : outstanding(r) /\ rcp[r].exp > at

\* Slip: one lapsed recipient is enough.
isExpirable_anyLapsed(at) ==
  /\ EligibilityAnswered
  /\ env \in Active /\ \E r \in Recipients : outstanding(r) /\ rcp[r].exp <= at

\* Slip: a recipient who has only viewed is not looked for.
isExpirable_pendingOnly(at) ==
  /\ EligibilityAnswered
  /\ abandoned(at)
  /\ \E r \in Recipients : outstanding(r) /\ rcp[r].status = "pending" /\ rcp[r].exp <= at

\* #isEligible names its column `recipient.recipient.envelope_id', which
\* PostgreSQL does not resolve: the query throws and the drain with it.  TRUE
\* is the query as it is meant, and as the D1 store has it.
isExpirable(at) == EligibilityAnswered /\ abandoned(at)

prepareEnvelopeExpiry(at) == isExpirable(at)

ready(kind, r, cap, status, at) ==
  CASE kind = "send" -> prepareSend
    [] kind = "view" -> prepareViewed(r, cap, at)
    [] kind = "approve" -> prepareApproved(r, cap, at)
    [] kind = "sign" -> prepareSign(r, cap, at)
    [] kind = "decline" -> prepareDeclined(r, cap, at)
    [] kind = "void" -> prepareVoid(status)
    [] kind = "reissue" -> prepareReissue(r)
    [] OTHER -> prepareEnvelopeExpiry(at)

\* What the prepared command carries to its publication.  The reissue carries
\* the hash it will supersede, a decision its routing plan, the terminal
\* commands the recipients they will revoke.
prepared(kind, r, cap, status, at, tries) ==
  [pc |-> "publish", kind |-> kind, r |-> r,
   cap |-> IF kind = "reissue" THEN rcp[r].cap ELSE cap,
   status |-> IF kind = "expire" THEN env ELSE status,
   at |-> at, head |-> audit, tries |-> tries,
   plan |-> IF kind \in {"approve", "sign"} THEN PlanFor(Statuses, r) ELSE NoPlan,
   revoked |-> IF kind \in {"decline", "void", "expire"} THEN revocable(rcp, r) ELSE {}]

-----------------------------------------------------------------------------
(***************************************************************************)
(* Commands.                                                               *)
(***************************************************************************)
Begin(s, kind, r, cap, status) ==
  /\ req[s].pc = "idle"
  /\ ready(kind, r, cap, status, lapsed)
  /\ req' = [req EXCEPT ![s] = prepared(kind, r, cap, status, lapsed, 1)]
  /\ UNCHANGED <<recordVars, lapsed, deliveryVars>>

beginSend(s) == "send" \in Commands /\ Begin(s, "send", Nobody, 0, "ready")

\* A recipient acts with a link that reached its mailbox.
beginRecipient(s) ==
  \E kind \in Commands \cap {"view", "approve", "sign", "decline"}, i \in mailed :
    Begin(s, kind, i[1], i[2], "draft")

beginVoid(s) == "void" \in Commands /\ \E status \in EnvelopeStatus : Begin(s, "void", Nobody, 0, status)

beginReissue(s) ==
  /\ "reissue" \in Commands
  /\ Cardinality({i \in Rows : pred[i] # 0}) < MaxReissues
  /\ \E r \in Recipients : rcp[r].cap < MaxIssues /\ Begin(s, "reissue", r, 0, "draft")

drainExpiredEnvelopes(s) == "expire" \in Commands /\ Begin(s, "expire", Nobody, 0, "draft")

\* The retry loop: `audit_conflict' sends the command back to its prepare
\* with the same input.  Only the expiry drain keeps its first clock reading.
Retry(s) ==
  LET q == req[s]
      at == IF q.kind = "expire" THEN q.at ELSE lapsed
  IN  /\ q.pc = "retry"
      /\ req' = [req EXCEPT ![s] =
                   IF ready(q.kind, q.r, q.cap, q.status, at)
                   THEN prepared(q.kind, q.r, q.cap, q.status, at, q.tries + 1)
                   ELSE Idle]
      /\ UNCHANGED <<recordVars, lapsed, deliveryVars>>

publishing(s, kind) == req[s].pc = "publish" /\ req[s].kind = kind

\* The transaction returned or rolled back without a write.
Refuse(s) ==
  /\ req' = [req EXCEPT ![s] = Idle]
  /\ UNCHANGED <<recordVars, lapsed, deliveryVars>>

\* Slip: one attempt too many.
AuditConflict_oneMore(s) ==
  /\ audit # req[s].head
  /\ req' = [req EXCEPT ![s] =
               IF req[s].tries <= MaxAuditAttempts THEN [req[s] EXCEPT !.pc = "retry"] ELSE Idle]
  /\ UNCHANGED <<recordVars, lapsed, deliveryVars>>

\* The head read by the prepare's last statement is no longer the head.  That
\* statement follows the others, so when the head has moved since, both this
\* and success with the newer head are possible.
AuditConflict(s) ==
  /\ audit # req[s].head
  /\ req' = [req EXCEPT ![s] =
               IF req[s].tries < MaxAuditAttempts THEN [req[s] EXCEPT !.pc = "retry"] ELSE Idle]
  /\ UNCHANGED <<recordVars, lapsed, deliveryVars>>

\* A published command and its audit events.
Published(s, events) ==
  /\ audit' = audit + events
  /\ req' = [req EXCEPT ![s] = Idle]
  /\ UNCHANGED <<lapsed, deliveryVars>>

opened == IF env = "sent" THEN "in_progress" ELSE env

-----------------------------------------------------------------------------
\* Send issues every invited recipient a capability; the first routing group
\* gets an expiry and a pending row, the others a blocked row.  The prepare
\* reads the audit head first and is not retried.
sendEffects ==
  LET initial(r) == RoutingOrder[r] = initialRoutingOrder
  IN  /\ env' = "sent"
      /\ rcp' = [r \in Recipients |->
                   IF r \in Invited
                   THEN [rcp[r] EXCEPT !.cap = 1, !.exp = IF initial(r) THEN audit + 1 ELSE 0,
                                       !.revoked = FALSE]
                   ELSE rcp[r]]
      /\ outbox' = [i \in Rows |->
                      IF i[2] = 1 /\ i[1] \in Invited
                      THEN IF initial(i[1]) THEN NewRow("pending", audit + 1) ELSE NewRow("blocked", 0)
                      ELSE outbox[i]]
      /\ UNCHANGED pred

publishSend(s) ==
  /\ publishing(s, "send")
  /\ \/ (env # "ready" \/ audit # req[s].head) /\ Refuse(s)
     \/ env = "ready" /\ audit = req[s].head /\ sendEffects /\ Published(s, 1)

publishViewed(s) ==
  LET q == req[s]
      first == authorized(q.r, q.cap, q.at) /\ rcp[q.r].status = "pending"
  IN  /\ publishing(s, "view")
      /\ \/ ~first /\ Refuse(s)
         \/ first /\ AuditConflict(s)
         \/ /\ first
            /\ rcp' = [rcp EXCEPT ![q.r].status = "viewed", ![q.r].viewedWith = q.cap]
            /\ env' = opened
            /\ UNCHANGED <<pred, outbox>>
            /\ Published(s, 1)

-----------------------------------------------------------------------------
(***************************************************************************)
(* Approve and sign complete the actor and then continue, release the next *)
(* routing group or complete the envelope.                                 *)
(***************************************************************************)

\* Slip: the plan made before the locks is carried out as it is.
decisionHolds_stalePlan(q) == q.plan.kind = "complete" => ~processing(Recipients)

\* Checked under the locks, the routing plan derived afresh.
decisionHolds(q) ==
  /\ PlanFor(Statuses, q.r) = q.plan
  /\ q.plan.kind = "complete" => ~processing(Recipients)

completedActor(q) ==
  [rcp EXCEPT ![q.r].status = "completed", ![q.r].revoked = TRUE]

nextGroup(q) ==
  {r \in Invited : RoutingOrder[r] = q.plan.next /\ completedActor(q)[r].status # "completed"
                     /\ rcp[r].cap # 0 /\ ~rcp[r].revoked /\ rcp[r].exp = 0}

nextRows(q) ==
  {i \in Rows : i[1] \in nextGroup(q) /\ i[2] = rcp[i[1]].cap
                  /\ outbox[i].status = "blocked" /\ outbox[i].sealed}

\* The updated row counts the transaction compares before it goes on.
releaseMatches(q) ==
  q.plan.kind = "release" =>
    Cardinality(nextGroup(q)) = q.plan.count /\ Cardinality(nextRows(q)) = q.plan.count

continueEffects(q) ==
  /\ rcp' = completedActor(q)
  /\ env' = opened
  /\ UNCHANGED outbox

releaseEffects(q) ==
  /\ rcp' = [r \in Recipients |->
               IF r \in nextGroup(q) THEN [rcp[r] EXCEPT !.exp = audit + 1]
               ELSE completedActor(q)[r]]
  /\ outbox' = [i \in Rows |->
                  IF i \in nextRows(q)
                  THEN [outbox[i] EXCEPT !.status = "pending", !.reserved = audit + 1]
                  ELSE outbox[i]]
  /\ env' = opened

completeEffects(q) ==
  /\ rcp' = revoke(completedActor(q), revocable(completedActor(q), Nobody))
  /\ outbox' = terminalCleanup
  /\ env' = "completed"

\* No live capability, no undelivered row and no ciphertext may be left.
terminalStateSafe ==
  \A i \in Rows : LET row == terminalCleanup[i]
                  IN  row.status \notin {"blocked", "pending", "processing"}
                        /\ ~row.retryable /\ ~row.sealed

decisionRefused(q) ==
  \/ ~decisionHolds(q)
  \/ ~releaseMatches(q)
  \/ q.plan.kind = "complete" /\ ~terminalStateSafe

publishDecision(s, q) ==
  /\ UNCHANGED pred
  /\ \/ q.plan.kind = "continue" /\ continueEffects(q) /\ Published(s, 1)
     \/ q.plan.kind = "release" /\ releaseEffects(q) /\ Published(s, 1)
     \/ q.plan.kind = "complete" /\ completeEffects(q) /\ Published(s, 2)

publishApproved(s) ==
  LET q == req[s]
      eligible == prepareApproved(q.r, q.cap, q.at)
  IN  /\ publishing(s, "approve")
      /\ \/ (~eligible \/ decisionRefused(q)) /\ Refuse(s)
         \/ eligible /\ decisionHolds(q) /\ AuditConflict(s)
         \/ eligible /\ ~decisionRefused(q) /\ publishDecision(s, q)

\* A signature may also be refused for its field values or a retired asset.
publishSigned(s) ==
  LET q == req[s]
      eligible == prepareSign(q.r, q.cap, q.at)
  IN  /\ publishing(s, "sign")
      /\ \/ Refuse(s)
         \/ eligible /\ decisionHolds(q) /\ AuditConflict(s)
         \/ eligible /\ ~decisionRefused(q) /\ publishDecision(s, q)

-----------------------------------------------------------------------------
publishDeclined(s) ==
  LET q == req[s]
      holds == /\ declineEligible(q.r, q.cap, q.at)
               /\ revocable(rcp, q.r) = q.revoked
               /\ ~processing(Recipients)
  IN  /\ publishing(s, "decline")
      /\ \/ ~holds /\ Refuse(s)
         \/ holds /\ AuditConflict(s)
         \/ /\ holds
            /\ rcp' = revoke([rcp EXCEPT ![q.r].status = "declined", ![q.r].revoked = TRUE], q.revoked)
            /\ outbox' = terminalCleanup
            /\ env' = "declined"
            /\ UNCHANGED pred
            /\ Published(s, 1)

publishVoid(s) ==
  LET q == req[s]
      holds == /\ isVoidableStatus(env) /\ env = q.status
               /\ revocable(rcp, Nobody) = q.revoked
               /\ ~processing(Recipients)
  IN  /\ publishing(s, "void")
      /\ \/ ~holds /\ Refuse(s)
         \/ holds /\ AuditConflict(s)
         \/ /\ holds
            /\ rcp' = revoke(rcp, q.revoked)
            /\ outbox' = terminalCleanup
            /\ env' = "voided"
            /\ UNCHANGED pred
            /\ Published(s, 1)

\* Slip: trusts the eligibility read by the prepare.
expiryHolds_unchecked(q) == env = q.status

expiryHolds(q) == isExpirable(q.at) /\ env = q.status

\* Expiry re-derives eligibility under the lock but, unlike the others, is
\* not fenced by a delivery in flight.
publishEnvelopeExpiry(s) ==
  LET q == req[s]
  IN  /\ publishing(s, "expire")
      /\ \/ (~expiryHolds(q) \/ revocable(rcp, Nobody) # q.revoked) /\ Refuse(s)
         \/ expiryHolds(q) /\ AuditConflict(s)
         \/ /\ expiryHolds(q)
            /\ revocable(rcp, Nobody) = q.revoked
            /\ rcp' = revoke(rcp, q.revoked)
            /\ outbox' = terminalCleanup
            /\ env' = "expired"
            /\ UNCHANGED pred
            /\ Published(s, 1)

\* Slip: a queued row is left beside its replacement.
supersedable_failedOnly(row) == row.status = "failed" /\ row.retryable

supersedable(row) == row.status = "pending" \/ (row.status = "failed" /\ row.retryable)

\* Slip: the compare-and-set on the superseded hash is dropped.
currentCapability_unchecked(q) == rcp[q.r].cap # 0

currentCapability(q) == rcp[q.r].cap = q.cap

\* Reissue supersedes the prepared capability, compare-and-set on its hash.
publishReissue(s) ==
  LET q == req[s]
      k == rcp[q.r].cap + 1
      holds == reissuable(q.r) /\ currentCapability(q)
  IN  /\ publishing(s, "reissue")
      /\ \/ ~holds /\ Refuse(s)
         \/ holds /\ AuditConflict(s)
         \/ /\ holds /\ k <= MaxIssues
            /\ pred' = [pred EXCEPT ![<<q.r, k>>] = q.cap]
            /\ rcp' = [rcp EXCEPT ![q.r].cap = k, ![q.r].exp = audit + 1, ![q.r].revoked = FALSE]
            /\ outbox' = [i \in Rows |->
                            IF i = <<q.r, k>> THEN NewRow("pending", audit + 1)
                            ELSE IF i[1] = q.r /\ supersedable(outbox[i]) THEN scrubbed(outbox[i])
                            ELSE outbox[i]]
            /\ UNCHANGED env
            /\ Published(s, 1)

-----------------------------------------------------------------------------
(***************************************************************************)
(* Invitation delivery: the drain's claim transaction and, per claimed row,*)
(* a task that re-reads the row, calls the provider and writes the outcome.*)
(***************************************************************************)
deliverable(i) ==
  /\ env \in Active
  /\ rcp[i[1]].status = "pending"
  /\ i[1] \in Invited
  /\ ~rcp[i[1]].revoked
  /\ rcp[i[1]].cap = i[2]

fresh(i, at) ==
  rcp[i[1]].exp # 0 /\ rcp[i[1]].exp > at /\ rcp[i[1]].exp = outbox[i].reserved

leaseStale(row) == row.status = "processing" /\ row.stale

\* Slip: an abandoned lease is not cleaned up.
terminalCandidates_idleOnly ==
  {i \in Rows :
     /\ outbox[i].retryable /\ outbox[i].sealed
     /\ outbox[i].status \in {"blocked", "pending", "failed"}
     /\ ~ /\ deliverable(i)
          /\ outbox[i].status = "blocked" \/ fresh(i, lapsed)}

\* Rows holding ciphertext for an invitation that can no longer go out.
terminalCandidates ==
  {i \in Rows :
     LET row == outbox[i] IN
     /\ row.retryable /\ row.sealed
     /\ row.status \in {"blocked", "pending", "failed"} \/ leaseStale(row)
     /\ ~ /\ deliverable(i)
          /\ \/ row.status = "blocked" /\ rcp[i[1]].exp = 0 /\ row.reserved = 0
             \/ row.status # "blocked" /\ fresh(i, lapsed)}

\* Slip: an abandoned lease is never taken over.
claimCandidates_idleOnly ==
  {i \in Rows :
     /\ outbox[i].status \in {"pending", "failed"} /\ outbox[i].retryable
     /\ deliverable(i)
     /\ fresh(i, lapsed)}

\* Rows the drain may lease.  A failed row's backoff (available_at) has
\* passed or not: the choice among them covers both.
claimCandidates ==
  {i \in Rows :
     LET row == outbox[i] IN
     /\ (row.status \in {"pending", "failed"} /\ row.retryable) \/ leaseStale(row)
     /\ deliverable(i)
     /\ fresh(i, lapsed)}

claim(row) ==
  [row EXCEPT !.status = "processing", !.attempts = row.attempts + 1,
              !.token = row.attempts + 1, !.stale = FALSE]

claimPendingInvitations(dead, claimed) ==
  /\ dead \cup claimed # {}
  /\ dead \subseteq terminalCandidates
  /\ dead = terminalCandidates \/ Cardinality(dead) = CleanupBatch
  /\ claimed \subseteq claimCandidates
  /\ Cardinality(claimed) <= ClaimBatch
  /\ outbox' = [i \in Rows |-> IF i \in dead THEN scrubbed(outbox[i])
                               ELSE IF i \in claimed THEN claim(outbox[i])
                               ELSE outbox[i]]
  /\ tasks' = tasks \cup
       {[r |-> i[1], k |-> i[2], token |-> outbox[i].attempts + 1, at |-> lapsed, pc |-> "claimed"] :
          i \in claimed}
  /\ UNCHANGED <<env, audit, rcp, pred, lapsed, req, mailed, crashes, overruns>>

drain ==
  \E dead \in SUBSET terminalCandidates, claimed \in SUBSET claimCandidates :
    claimPendingInvitations(dead, claimed)

rowOf(t) == <<t.r, t.k>>

holdsLease(t) ==
  outbox[rowOf(t)].status = "processing" /\ outbox[rowOf(t)].token = t.token

Step(t, pc) == tasks' = (tasks \ {t}) \cup {[t EXCEPT !.pc = pc]}

verifyClaim(t) ==
  /\ env \in Active
  /\ rcp[t.r].status = "pending"
  /\ ~rcp[t.r].revoked
  /\ fresh(rowOf(t), t.at)
  /\ outbox[rowOf(t)].sealed

\* The re-read under the lease token, and the checks on what it returns.
readClaimedInvitation(t) ==
  /\ t.pc = "claimed"
  /\ \/ ~holdsLease(t) /\ tasks' = tasks \ {t}
     \/ holdsLease(t) /\ Step(t, IF verifyClaim(t) THEN "verified" ELSE "permanent")
  /\ UNCHANGED <<recordVars, lapsed, req, mailed, crashes, overruns>>

\* The provider call.  A refusal may hide an accepted message (a lost or
\* invalid receipt); an unknown sealing key fails the same way, unsent.
sendMail(t) ==
  /\ t.pc = "verified"
  /\ \/ Step(t, "accepted") /\ mailed' = mailed \cup {rowOf(t)}
     \/ Step(t, "retryable") /\ mailed' = mailed \cup {rowOf(t)}
     \/ Step(t, "retryable") /\ UNCHANGED mailed
     \/ Step(t, "permanent") /\ UNCHANGED mailed
  /\ UNCHANGED <<recordVars, lapsed, req, crashes, overruns>>

\* Both outcome writes are conditional on the lease token; a task that lost
\* its lease writes nothing.
completeInvitationDelivery(t) ==
  /\ t.pc = "accepted"
  /\ tasks' = tasks \ {t}
  /\ outbox' = [outbox EXCEPT ![rowOf(t)] =
                  IF holdsLease(t) THEN [scrubbed(@) EXCEPT !.status = "delivered"] ELSE @]
  /\ UNCHANGED <<env, audit, rcp, pred, lapsed, req, mailed, crashes, overruns>>

willRetry(t) == t.pc = "retryable" /\ t.token < MaxDeliveryAttempts

failInvitationDelivery(t) ==
  /\ t.pc \in {"retryable", "permanent"}
  /\ tasks' = tasks \ {t}
  /\ outbox' = [outbox EXCEPT ![rowOf(t)] =
                  IF ~holdsLease(t) THEN @
                  ELSE IF willRetry(t)
                  THEN [@ EXCEPT !.status = "failed", !.token = NoToken, !.stale = FALSE]
                  ELSE scrubbed(@)]
  /\ UNCHANGED <<env, audit, rcp, pred, lapsed, req, mailed, crashes, overruns>>

deliverClaim(t) ==
  \/ readClaimedInvitation(t) \/ sendMail(t)
  \/ completeInvitationDelivery(t) \/ failInvitationDelivery(t)

-----------------------------------------------------------------------------
(***************************************************************************)
(* The environment.                                                        *)
(***************************************************************************)

\* The worker dies, or its store call fails: the row stays leased.
crash(t) ==
  /\ crashes < MaxCrashes
  /\ crashes' = crashes + 1
  /\ tasks' = tasks \ {t}
  /\ UNCHANGED <<recordVars, lapsed, req, mailed, overruns>>

orphaned(i) == ~\E t \in tasks : rowOf(t) = i /\ holdsLease(t)

\* Five minutes pass on a lease, with its worker gone or still running.
leaseExpires(i) ==
  /\ outbox[i].status = "processing" /\ ~outbox[i].stale
  /\ outbox' = [outbox EXCEPT ![i].stale = TRUE]
  /\ \/ orphaned(i) /\ UNCHANGED overruns
     \/ ~orphaned(i) /\ overruns < MaxOverruns /\ overruns' = overruns + 1
  /\ UNCHANGED <<env, audit, rcp, pred, lapsed, req, tasks, mailed, crashes>>

\* Time reaches the next expiry of a capability that is still usable.
lapse ==
  LET upcoming == {rcp[r].exp : r \in {q \in Recipients : live(rcp[q], lapsed)}}
  IN  /\ upcoming # {}
      /\ lapsed' = Least(upcoming)
      /\ UNCHANGED <<recordVars, req, deliveryVars>>

-----------------------------------------------------------------------------
Init ==
  /\ env = "ready"
  /\ audit = 1
  /\ rcp = [r \in Recipients |->
              [status |-> "pending", cap |-> 0, exp |-> 0, revoked |-> FALSE, viewedWith |-> 0]]
  /\ pred = [i \in Rows |-> 0]
  /\ outbox = [i \in Rows |-> NoRow]
  /\ lapsed = 0
  /\ req = [s \in Sessions |-> Idle]
  /\ tasks = {}
  /\ mailed = {}
  /\ crashes = 0
  /\ overruns = 0

session(s) ==
  \/ beginSend(s) \/ beginRecipient(s) \/ beginVoid(s) \/ beginReissue(s)
  \/ drainExpiredEnvelopes(s)
  \/ Retry(s)
  \/ publishSend(s) \/ publishViewed(s) \/ publishApproved(s) \/ publishSigned(s)
  \/ publishDeclined(s) \/ publishVoid(s) \/ publishReissue(s) \/ publishEnvelopeExpiry(s)

Next ==
  \/ \E s \in Sessions : session(s)
  \/ drain
  \/ \E t \in tasks : deliverClaim(t) \/ crash(t)
  \/ \E i \in Rows : leaseExpires(i)
  \/ lapse

Spec == Init /\ [][Next]_vars

\* The drain is scheduled every minute and takes due rows oldest first, its
\* tasks run to an outcome or die, and an abandoned lease times out.  Clients
\* owe nothing: no command is ever assumed to be issued or finished.
Fairness ==
  /\ \A i \in Rows :
       WF_vars(\E dead \in SUBSET terminalCandidates, claimed \in SUBSET claimCandidates :
                 i \in dead \cup claimed /\ claimPendingInvitations(dead, claimed))
  /\ \A i \in Rows : WF_vars(\E t \in tasks : rowOf(t) = i /\ deliverClaim(t))
  /\ \A i \in Rows : WF_vars(orphaned(i) /\ leaseExpires(i))

FairSpec == Spec /\ Fairness

\* What AbandonedEnds assumes besides: the expiry drain is scheduled every
\* minute too, and a request that was begun is carried to its answer.
ExpiryFairness ==
  \A s \in Sessions :
    /\ WF_vars(drainExpiredEnvelopes(s))
    /\ WF_vars(req[s].pc # "idle" /\ session(s))

-----------------------------------------------------------------------------
(***************************************************************************)
(* Properties.                                                             *)
(***************************************************************************)

\* Every row and request keeps its shape; a command is never attempted more
\* than MAX_AUDIT_ATTEMPTS times by the retry loops of application/signing.
TypeOK ==
  /\ env \in EnvelopeStatus \ {"draft"}
  /\ audit \in Nat \ {0}
  /\ rcp \in [Recipients -> recipientRow]
  /\ pred \in [Rows -> 0..MaxIssues]
  /\ outbox \in [Rows -> outboxRow]
  /\ lapsed \in Nat
  /\ req \in [Sessions -> request]
  /\ \A s \in Sessions : req[s].tries <= MaxAuditAttempts
  /\ tasks \subseteq task
  /\ mailed \subseteq Rows
  /\ crashes \in 0..MaxCrashes
  /\ overruns \in 0..MaxOverruns

openRow(row) == undelivered(row) \/ row.status = "processing"

\* Routing: while the envelope is active, a recipient's link is open (its
\* capability has an expiry) exactly when no actionable recipient of an
\* earlier order is outstanding.  No order opens early, and none is stranded:
\* the outstanding recipients whose turn it is always hold a link.  About the
\* release branch of publishApproved and publishSign under stale plans.
ReleasedExactly ==
  env \in Active =>
    \A r \in Invited :
      rcp[r].exp # 0 <=>
        \A q \in Actionable : rcp[q].status # "completed" => RoutingOrder[r] <= RoutingOrder[q]

\* The terminal transitions: however a command ends the envelope, no
\* capability stays usable.  Completing, declining and voiding are fenced by
\* deliveries in flight, so they leave no invitation ciphertext either, not
\* even under a lease taken before; expiry leaves only rows already leased.
TerminalScrubbed ==
  env \in Terminal =>
    /\ \A r \in Recipients : rcp[r].cap # 0 => rcp[r].revoked
    /\ env # "expired" =>
         \A i \in Rows : ~openRow(outbox[i]) /\ ~outbox[i].sealed /\ ~outbox[i].retryable

\* An invitation still to be delivered is for the recipient's current
\* capability and its current expiry: a reissue leaves no second one behind.
OpenRowCurrent ==
  \A i \in Rows : openRow(outbox[i]) =>
    /\ i[2] = rcp[i[1]].cap
    /\ outbox[i].reserved = rcp[i[1]].exp
    /\ outbox[i].sealed /\ outbox[i].retryable

\* As long as no lease is outlived by its worker, a message on its way to the
\* provider carries the recipient's current capability, and its envelope has
\* not been completed, declined or voided underneath it.
SubmissionFenced ==
  overruns = 0 =>
    \A t \in tasks : t.pc = "verified" =>
      /\ holdsLease(t)
      /\ rcp[t.r].cap = t.k
      /\ env \in Active \cup {"expired"}

\* Each reissue names the capability it superseded, the one issued just
\* before it: concurrent reissues cannot fork the lineage.
LineageLinear ==
  \A i \in Rows : pred[i] # 0 => pred[i] = i[2] - 1

\* The expiry drain decides on a clock reading and a read of the recipients
\* that may both be old when it publishes; still no envelope is expired while
\* an outstanding released recipient holds an unexpired capability.
ExpiryOnlyWhenLapsed ==
  [][env' = "expired" /\ env # "expired" =>
       \A r \in Recipients : outstanding(r) => rcp[r].exp <= lapsed]_vars

\* The expiry drain "makes the `expired` envelope terminal state actually
\* reachable" (envelope-expiry-service.ts): an envelope whose released
\* recipients have all run out does not stay so, whether they had viewed it or
\* not and whatever refused commands and leases come before the drain.  It
\* ends, unless somebody is given a link that is still good.  With the query
\* as PostgreSQL gets it (EligibilityAnswered = FALSE) it stays for ever.
AbandonedEnds ==
  ExpiryFairness =>
    (abandoned(lapsed) ~>
       env \in Terminal \/ \E r \in Recipients : outstanding(r) /\ rcp[r].exp > lapsed)

\* Ciphertext of an envelope that reached a terminal status is eventually
\* destroyed, a lease held across an expiry included.
CiphertextDestroyed ==
  env \in Terminal ~> \A i \in Rows : ~outbox[i].sealed

\* An invitation queued for delivery is eventually delivered or given up,
\* through provider failures, dead workers and abandoned leases.
InvitationSettles ==
  \A i \in Rows :
    outbox[i].status = "pending" ~>
      outbox[i].status \in {"delivered", "failed"} /\ ~outbox[i].retryable

(***************************************************************************)
(* Claims of the documents the code does not meet.                         *)
(***************************************************************************)

\* docs/architecture/envelope-model.md: retryable failures use backoff "for
\* at most ten claimed attempts".  The bound is applied when a failure is
\* written, never when an abandoned lease is claimed again.
AttemptsBounded == \A i \in Rows : outbox[i].attempts <= MaxDeliveryAttempts

\* The capabilities verifyLineage reaches from `current' through the ledger.
lineage(r, current) ==
  LET reached[j \in 1..MaxIssues] ==
        /\ pred[<<r, j>>] # 0
        /\ j = current \/ \E i \in (j + 1)..MaxIssues : reached[i] /\ pred[<<r, i>>] = j
  IN  {j \in 1..MaxIssues : reached[j]}

verifyLineage(r, initial, current) == initial = current \/ initial \in lineage(r, current)

\* docs/architecture/recipient-capability-reissue.md: a live replacement
\* presented for an already viewed recipient "results in continuation".  The
\* send never writes the first capability to the ledger, so no chain reaches
\* it and the view store answers integrity_error.
ViewContinues ==
  env \in Active =>
    \A r \in Recipients :
      rcp[r].status = "viewed" => verifyLineage(r, rcp[r].viewedWith, rcp[r].cap)

\* docs/architecture/recipient-invitation-replacement.md: for pending or viewed
\* recipients the replacement confirmation promises that "a replacement email
\* will be sent later".  So a queued, never mailed invitation for the live
\* capability of a recipient who has not finished is not thrown away.  The
\* drain only delivers to pending recipients and discards the replacement of a
\* viewed one.
LiveInvitationKept ==
  [][\A i \in Rows :
       /\ outbox[i].status = "pending" /\ i \notin mailed
       /\ env \in Active /\ rcp[i[1]].cap = i[2] /\ live(rcp[i[1]], lapsed)
       /\ UNCHANGED <<env, rcp>>
       => outbox'[i].sealed]_vars

-----------------------------------------------------------------------------
(***************************************************************************)
(* Refinement: the commands implement EnvelopeLifecycle.                   *)
(***************************************************************************)
Lifecycle ==
  INSTANCE EnvelopeLifecycle WITH
    status <- env,
    acted <- {r \in Actionable : rcp[r].status = "completed"},
    open <- {r \in Recipients : rcp[r].exp # 0}

\* The signing commands and drains, with their stale reads and retries, only
\* ever take the steps of EnvelopeLifecycle.
ImplementsLifecycle == Lifecycle!LSpec
=============================================================================
