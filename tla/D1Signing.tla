------------------------------ MODULE D1Signing ------------------------------
(***************************************************************************)
(* One envelope from `ready' to its terminal state on the D1 stores.       *)
(*                                                                         *)
(* D1 has no interactive transaction and no row lock.  A command's prepare *)
(* is a series of separate SELECTs, each of which may see a later database *)
(* than the one before; its publication is one atomic batch whose INSERT   *)
(* into a command table fires triggers that check the command's evidence   *)
(* against the rows as they then are and abort the batch otherwise.  Every *)
(* read is a step here, and every batch is.                                *)
(***************************************************************************)
EXTENDS EnvelopeDomain, Sequences

CONSTANTS
  Sessions,             \* concurrent command executions
  Commands,             \* the commands clients issue
  Nobody,               \* the recipient of a command that addresses none
  MaxIssues,            \* bound: capabilities ever issued to one recipient
  MaxClaims,            \* bound: claims of one outbox row
  LastLapse,            \* bound: the last expiry instant that passes
  MaxAuditAttempts      \* MAX_AUDIT_ATTEMPTS (3)

Command == {"send", "view", "approve", "sign", "decline", "reissue", "void", "expire"}

D1Constants ==
  /\ Commands \subseteq Command
  /\ Nobody \notin Recipients
  /\ MaxIssues \in Nat \ {0}
  /\ MaxClaims \in Nat \ {0}
  /\ LastLapse \in Nat
  /\ MaxAuditAttempts \in Nat \ {0}

VARIABLES
  env,      \* envelope.status
  audit,    \* audit_event, in order of sequence
  rcp,      \* the recipient rows
  outbox,   \* the delivery_outbox rows, one per recipient and issuance
  lapsed,   \* every capability expiry up to this instant has passed
  tasks,    \* delivery workers, each with the row and the token it claimed
  req       \* the command each session is executing

vars == <<env, audit, rcp, outbox, lapsed, tasks, req>>
tables == <<env, audit, rcp, outbox>>

-----------------------------------------------------------------------------
(***************************************************************************)
(* Rows.  A capability is the number of its issuance to its recipient, 0   *)
(* for NULL; an expiry instant is the sequence of the event granting it.   *)
(***************************************************************************)
Rows == Recipients \X (1..MaxIssues)

recipientRow == [status : RecipientStatus, cap : 0..MaxIssues, exp : Nat, revoked : BOOLEAN]

outboxRow ==
  [status : {"none", "blocked", "pending", "processing", "delivered", "failed"},
   retryable : BOOLEAN, sealed : BOOLEAN, attempts : Nat]

NoRow == [status |-> "none", retryable |-> FALSE, sealed |-> FALSE, attempts |-> 0]
NewRow(status) == [status |-> status, retryable |-> TRUE, sealed |-> TRUE, attempts |-> 0]

auditEvent == [kind : Command \cup {"ready", "completed"}, r : Recipients \cup {Nobody},
               previous : Nat, revoked : SUBSET Recipients]

NoPlan == [kind |-> "continue", next |-> NoOrder, count |-> 0]

Idle == [pc |-> "idle", kind |-> "void", r |-> Nobody, cap |-> 0, status |-> "draft",
         at |-> 0, plan |-> NoPlan, revoked |-> {}, head |-> 0, tries |-> 0]

\* The SELECTs of each prepare, in their order.
Reads ==
  [send    |-> <<"row", "head", "recipients">>,
   view    |-> <<"row", "head">>,
   approve |-> <<"row", "routing", "head">>,
   sign    |-> <<"row", "routing", "head">>,
   decline |-> <<"row", "head">>,
   void    |-> <<"row", "head">>,
   reissue |-> <<"envelope", "row", "outbox", "head">>,
   expire  |-> <<"envelope", "eligibility", "revocable", "head">>]

After(kind, read) ==
  LET script == Reads[kind]
      n == CHOOSE i \in DOMAIN script : script[i] = read
  IN  IF n = Len(script) THEN "batch" ELSE script[n + 1]

head == Len(audit)
Statuses == [r \in Recipients |-> rcp[r].status]
live(r, at) == ~rcp[r].revoked /\ rcp[r].exp # 0 /\ rcp[r].exp > at
processing(R) == \E i \in Rows : i[1] \in R /\ outbox[i].status = "processing"

revocable(actor) ==
  {r \in Recipients : r # actor /\ rcp[r].status # "completed" /\ rcp[r].cap # 0 /\ ~rcp[r].revoked}

undelivered(row) ==
  row.status \in {"blocked", "pending"} \/ (row.status = "failed" /\ row.retryable)

scrubbed(row) == [row EXCEPT !.status = "failed", !.retryable = FALSE, !.sealed = FALSE]

terminalCleanup ==
  [i \in Rows |-> IF undelivered(outbox[i]) THEN scrubbed(outbox[i]) ELSE outbox[i]]

revoke(rows, R) == [r \in Recipients |-> [rows[r] EXCEPT !.revoked = @ \/ r \in R]]

-----------------------------------------------------------------------------
(***************************************************************************)
(* Prepare.                                                                *)
(***************************************************************************)
reading(s, read) == req[s].pc = read

\* The read succeeded and the command goes on with what it saw, or the store
\* answered something else and the command ended.
Goes(s, holds, q) ==
  /\ req' = [req EXCEPT ![s] =
               IF holds THEN [q EXCEPT !.pc = After(q.kind, req[s].pc)] ELSE Idle]
  /\ UNCHANGED <<tables, lapsed, tasks>>

\* A recipient holds the links that may have been mailed to it.
links == {i \in Rows : outbox[i].attempts > 0}

begin(s, kind, r, cap, status, at, tries) ==
  req' = [req EXCEPT ![s] =
            [Idle EXCEPT !.pc = Reads[kind][1], !.kind = kind, !.r = r, !.cap = cap,
                         !.status = status, !.at = at, !.tries = tries]]

request(s) ==
  /\ req[s].pc = "idle"
  /\ \/ \E kind \in Commands \cap {"view", "approve", "sign", "decline"}, i \in links :
          begin(s, kind, i[1], i[2], "draft", lapsed, 1)
     \/ \E r \in Recipients :
          "reissue" \in Commands /\ begin(s, "reissue", r, 0, "draft", lapsed, 1)
     \/ \E status \in {"ready", "sent", "in_progress"} :
          "void" \in Commands /\ begin(s, "void", Nobody, 0, status, lapsed, 1)
     \/ \E kind \in Commands \cap {"send", "expire"} :
          begin(s, kind, Nobody, 0, "draft", lapsed, 1)
  /\ UNCHANGED <<tables, lapsed, tasks>>

\* The envelope's row alone, read first by reissue and by the expiry drain.
readEnvelope(s) ==
  reading(s, "envelope") /\ Goes(s, env \in Active, [req[s] EXCEPT !.status =
                                   IF req[s].kind = "expire" THEN env ELSE @])

liveEligible(q, roles, statuses) ==
  /\ rcp[q.r].status \in statuses
  /\ Role[q.r] \in roles
  /\ rcp[q.r].cap = q.cap
  /\ live(q.r, q.at)
  /\ env \in Active

readRow(s) ==
  LET q == req[s]
      carried == IF q.kind \in {"decline", "void"} THEN revocable(q.r) ELSE {}
  IN  /\ reading(s, "row")
      /\ \/ /\ q.kind = "send"
            /\ Goes(s, env = "ready", q)
         \/ /\ q.kind = "view"
            /\ Goes(s, liveEligible(q, {"signer", "approver", "viewer"}, {"pending"}), q)
         \/ /\ q.kind = "approve"
            /\ Goes(s, liveEligible(q, {"approver"}, {"viewed"}), q)
         \/ /\ q.kind = "sign"
            /\ Goes(s, liveEligible(q, {"signer"}, {"viewed"}), q)
         \/ /\ q.kind = "decline"
            /\ Goes(s, /\ liveEligible(q, {"signer", "approver"}, {"pending", "viewed"})
                       /\ ~processing(Recipients),
                    [q EXCEPT !.revoked = carried])
         \/ /\ q.kind = "void"
            /\ Goes(s, env = q.status /\ ~processing(Recipients), [q EXCEPT !.revoked = carried])
         \/ /\ q.kind = "reissue"
            /\ Goes(s, /\ rcp[q.r].status \in {"pending", "viewed"}
                       /\ rcp[q.r].exp # 0 /\ rcp[q.r].cap \in 1..(MaxIssues - 1) /\ ~rcp[q.r].revoked,
                    [q EXCEPT !.cap = rcp[q.r].cap])

readRouting(s) ==
  reading(s, "routing") /\ Goes(s, TRUE, [req[s] EXCEPT !.plan = PlanFor(Statuses, req[s].r)])

outstanding(r) == r \in Actionable /\ rcp[r].status \in {"pending", "viewed"} /\ rcp[r].exp # 0

allLapsed(at) ==
  /\ \E r \in Recipients : outstanding(r) /\ rcp[r].exp <= at
  /\ ~\E r \in Recipients : outstanding(r) /\ rcp[r].exp > at

readEligibility(s) == reading(s, "eligibility") /\ Goes(s, allLapsed(req[s].at), req[s])

readRevocable(s) ==
  reading(s, "revocable") /\ Goes(s, TRUE, [req[s] EXCEPT !.revoked = revocable(Nobody)])

blocked(r) == \E k \in 1..MaxIssues : outbox[<<r, k>>].status = "blocked"

readOutbox(s) ==
  reading(s, "outbox") /\ Goes(s, ~processing({req[s].r}) /\ ~blocked(req[s].r), req[s])

readAuditHead(s) == reading(s, "head") /\ Goes(s, TRUE, [req[s] EXCEPT !.head = head])

\* Send's last read: recipients no one has issued a capability to.
readRecipients(s) ==
  reading(s, "recipients") /\ Goes(s, \A r \in Recipients : rcp[r].cap = 0, req[s])

prepare(s) ==
  \/ readEnvelope(s) \/ readRow(s) \/ readRouting(s) \/ readEligibility(s)
  \/ readRevocable(s) \/ readOutbox(s) \/ readAuditHead(s) \/ readRecipients(s)

-----------------------------------------------------------------------------
(***************************************************************************)
(* The publish batches: what the triggers check, and what they write.      *)
(***************************************************************************)
publishing(s, kind) == reading(s, "batch") /\ req[s].kind = kind

\* A trigger raised ABORT: the batch left nothing behind.  The store prepares
\* the command again to name the conflict; a moved audit head is retried with
\* the same input (the expiry drain keeps its first clock reading), anything
\* else is answered.
abort(s) ==
  LET q == req[s]
      at == IF q.kind = "expire" THEN q.at ELSE lapsed
      cap == IF q.kind = "reissue" THEN 0 ELSE q.cap
      status == IF q.kind = "void" THEN q.status ELSE "draft"
  IN  /\ \/ req' = [req EXCEPT ![s] = Idle]
         \/ /\ q.kind # "send" /\ head # q.head /\ q.tries < MaxAuditAttempts
            /\ begin(s, q.kind, q.r, cap, status, at, q.tries + 1)
      /\ UNCHANGED <<tables, lapsed, tasks>>

appended(s, kinds) ==
  /\ audit' = audit \o [n \in DOMAIN kinds |->
                 [kind |-> kinds[n], r |-> req[s].r, previous |-> req[s].head + n - 1,
                  revoked |-> req[s].revoked]]
  /\ req' = [req EXCEPT ![s] = Idle]
  /\ UNCHANGED <<lapsed, tasks>>

\* Slip: the predecessor must exist, but need not be the last event.
headMatches_predecessor(q) == q.head <= head

\* The predecessor is the event read, and no later one exists.
headMatches(q) == q.head = head

opened == IF env = "sent" THEN "in_progress" ELSE env

\* Slip: the envelope read by the prepare is taken on trust.
stillReady_trusted == TRUE

stillReady == env = "ready"

\* envelope_send_publish_guard, after the batch has issued the capabilities.
publishSend(s) ==
  LET q == req[s]
      initial(r) == RoutingOrder[r] = initialRoutingOrder
      holds == /\ stillReady /\ headMatches(q)
               /\ \A r \in Recipients : rcp[r].status = "pending" /\ rcp[r].cap = 0
  IN  /\ publishing(s, "send")
      /\ \/ ~holds /\ abort(s)
         \/ /\ holds
            /\ env' = "sent"
            /\ rcp' = [r \in Recipients |->
                         IF r \in Invited
                         THEN [rcp[r] EXCEPT !.cap = 1, !.exp = IF initial(r) THEN head + 1 ELSE 0]
                         ELSE rcp[r]]
            /\ outbox' = [i \in Rows |->
                            IF i[2] = 1 /\ i[1] \in Invited
                            THEN NewRow(IF initial(i[1]) THEN "pending" ELSE "blocked")
                            ELSE outbox[i]]
            /\ appended(s, <<"send">>)

\* recipient_viewed_command_publish
publishViewed(s) ==
  LET q == req[s]
      holds == /\ liveEligible(q, {"signer", "approver", "viewer"}, {"pending"})
               /\ headMatches(q)
  IN  /\ publishing(s, "view")
      /\ \/ ~holds /\ abort(s)
         \/ /\ holds
            /\ rcp' = [rcp EXCEPT ![q.r].status = "viewed"]
            /\ env' = opened
            /\ UNCHANGED outbox
            /\ appended(s, <<"view">>)

\* The plan the command carries against the recipients as they are: the
\* envelope completes with the last required action, the next group opens when
\* the actor's is done and is the least one left, and nothing happens when
\* someone of the actor's group is still to act.
routingHolds(q) ==
  LET left == remainingActionable(Statuses, q.r)
      own == {r \in left : RoutingOrder[r] = RoutingOrder[q.r]}
      later == laterOrders(Statuses, q.r)
  IN  /\ (q.plan.kind = "complete") <=> (left = {})
      /\ q.plan.kind = "release" => own = {} /\ later # {} /\ Least(later) = q.plan.next
      /\ q.plan.kind = "continue" => own # {}

nextGroup(q) ==
  {r \in Invited : q.plan.kind = "release" /\ r # q.r /\ RoutingOrder[r] = q.plan.next
                     /\ rcp[r].status # "completed" /\ rcp[r].cap # 0
                     /\ ~rcp[r].revoked /\ rcp[r].exp = 0}

nextRows(q) ==
  {i \in Rows : i[1] \in nextGroup(q) /\ i[2] = rcp[i[1]].cap
                  /\ outbox[i].status = "blocked" /\ outbox[i].sealed}

releaseMatches(q) ==
  q.plan.kind = "release" =>
    Cardinality(nextGroup(q)) = q.plan.count /\ Cardinality(nextRows(q)) = q.plan.count

\* Slip: completion does not look for a delivery in flight.
completionSafe_unfenced(q) == TRUE

\* The guard that runs before a completing insert.
completionSafe(q) ==
  q.plan.kind = "complete" =>
    ~processing(Recipients) /\ \A i \in Rows : ~terminalCleanup[i].sealed

\* recipient_signed_command_publish and recipient_approved_command_publish,
\* with their completion guards.
publishDecision(s, kind, role) ==
  LET q == req[s]
      complete == q.plan.kind = "complete"
      holds == /\ liveEligible(q, {role}, {"viewed"})
               /\ headMatches(q)
               /\ routingHolds(q) /\ releaseMatches(q) /\ completionSafe(q)
      done == [rcp EXCEPT ![q.r].status = "completed", ![q.r].revoked = TRUE]
  IN  /\ publishing(s, kind)
      /\ \/ ~holds /\ abort(s)
         \/ /\ holds
            /\ env' = IF complete THEN "completed" ELSE opened
            /\ rcp' = IF complete THEN revoke(done, revocable(q.r))
                      ELSE [r \in Recipients |->
                              IF r \in nextGroup(q) THEN [rcp[r] EXCEPT !.exp = head + 1] ELSE done[r]]
            /\ outbox' = IF complete THEN terminalCleanup
                         ELSE [i \in Rows |-> IF i \in nextRows(q)
                                              THEN [outbox[i] EXCEPT !.status = "pending"]
                                              ELSE outbox[i]]
            /\ appended(s, IF complete THEN <<kind, "completed">> ELSE <<kind>>)

publishApproved(s) == publishDecision(s, "approve", "approver")

\* A signature is also refused for its field values or a retired asset.
publishSign(s) ==
  \/ publishDecision(s, "sign", "signer")
  \/ publishing(s, "sign") /\ abort(s)

\* Slip: the recipients read by the prepare are taken on trust.
evidenceHolds_trusted(q) == TRUE

\* The audit payload names exactly the recipients whose links are revoked.
evidenceHolds(q) == q.revoked = revocable(q.r)

\* Slip: a lease in flight does not stop a terminal command.
terminalFence_none(q) == TRUE

terminalFence(q) == q.kind # "expire" => ~processing(Recipients)

\* recipient_declined_command_publish, envelope_void_command_publish and
\* envelope_expiry_command_publish; only expiry ignores deliveries in flight.
publishTerminal(s, kind, status, eligible) ==
  LET q == req[s]
      holds == eligible /\ headMatches(q) /\ evidenceHolds(q) /\ terminalFence(q)
      declined == [rcp EXCEPT ![q.r].status = "declined", ![q.r].revoked = TRUE]
  IN  /\ publishing(s, kind)
      /\ \/ ~holds /\ abort(s)
         \/ /\ holds
            /\ env' = status
            /\ rcp' = revoke(IF kind = "decline" THEN declined ELSE rcp, q.revoked)
            /\ outbox' = terminalCleanup
            /\ appended(s, <<kind>>)

publishDeclined(s) ==
  publishTerminal(s, "decline", "declined",
    liveEligible(req[s], {"signer", "approver"}, {"pending", "viewed"}))

publishVoid(s) ==
  publishTerminal(s, "void", "voided", env = req[s].status)

publishEnvelopeExpiry(s) ==
  publishTerminal(s, "expire", "expired", env = req[s].status /\ allLapsed(req[s].at))

\* Slip: the new sequence is not unique in the envelope.
sequenceFree_unchecked(q) == TRUE

\* UNIQUE (envelope_id, sequence): the reissue trigger itself only asks for
\* the predecessor.
sequenceFree(q) == q.head + 1 > head

\* Slip: the delivery in flight was looked for when the command was prepared.
reissueFence_prepared(q) == TRUE

reissueFence(q) == ~processing({q.r}) /\ ~blocked(q.r)

\* recipient_capability_reissue_command_publish
publishReissue(s) ==
  LET q == req[s]
      k == q.cap + 1
      holds == /\ env \in Active
               /\ rcp[q.r].status \in {"pending", "viewed"}
               /\ rcp[q.r].exp # 0 /\ rcp[q.r].cap = q.cap /\ ~rcp[q.r].revoked
               /\ reissueFence(q)
               /\ q.head <= head /\ sequenceFree(q)
  IN  /\ publishing(s, "reissue")
      /\ \/ ~holds /\ abort(s)
         \/ /\ holds
            /\ rcp' = [rcp EXCEPT ![q.r].cap = k, ![q.r].exp = head + 1]
            /\ outbox' = [i \in Rows |->
                            IF i = <<q.r, k>> THEN NewRow("pending")
                            ELSE IF i[1] = q.r /\ undelivered(outbox[i]) THEN scrubbed(outbox[i])
                            ELSE outbox[i]]
            /\ UNCHANGED env
            /\ appended(s, <<"reissue">>)

publish(s) ==
  \/ publishSend(s) \/ publishViewed(s) \/ publishApproved(s) \/ publishSign(s)
  \/ publishDeclined(s) \/ publishVoid(s) \/ publishEnvelopeExpiry(s) \/ publishReissue(s)

-----------------------------------------------------------------------------
(***************************************************************************)
(* Invitation delivery.                                                    *)
(***************************************************************************)
deliverable(i) ==
  /\ env \in Active
  /\ rcp[i[1]].status = "pending" /\ i[1] \in Invited
  /\ ~rcp[i[1]].revoked /\ rcp[i[1]].cap = i[2]

fresh(i) == rcp[i[1]].exp # 0 /\ rcp[i[1]].exp > lapsed

\* A lease may be found out of date at any claim: its worker is slow or dead.
terminalCandidates ==
  {i \in Rows : /\ outbox[i].retryable /\ outbox[i].sealed
                /\ ~(deliverable(i) /\ (outbox[i].status = "blocked" \/ fresh(i)))}

claimCandidates ==
  {i \in Rows : /\ outbox[i].retryable /\ outbox[i].status \in {"pending", "failed", "processing"}
                /\ outbox[i].attempts < MaxClaims
                /\ deliverable(i) /\ fresh(i)}

\* One batch: the terminal cleanup, then the claim.
claimPendingInvitations ==
  \E dead \in SUBSET terminalCandidates, claimed \in SUBSET claimCandidates :
    /\ dead \cup claimed # {}
    /\ \A i \in terminalCandidates : outbox[i].status # "processing" => i \in dead
    /\ outbox' = [i \in Rows |->
                    IF i \in dead THEN scrubbed(outbox[i])
                    ELSE IF i \in claimed
                    THEN [outbox[i] EXCEPT !.status = "processing", !.attempts = outbox[i].attempts + 1]
                    ELSE outbox[i]]
    /\ tasks' = tasks \cup {<<i, outbox[i].attempts + 1>> : i \in claimed}
    /\ UNCHANGED <<env, audit, rcp, lapsed, req>>

holdsLease(t) == outbox[t[1]].status = "processing" /\ outbox[t[1]].attempts = t[2]

\* A worker writes its outcome under its token, or dies and writes nothing.
finishDelivery(t) ==
  /\ tasks' = tasks \ {t}
  /\ \/ UNCHANGED outbox
     \/ holdsLease(t) /\ outbox' = [outbox EXCEPT ![t[1]] = [scrubbed(outbox[t[1]]) EXCEPT !.status = "delivered"]]
     \/ holdsLease(t) /\ outbox' = [outbox EXCEPT ![t[1]].status = "failed"]
     \/ holdsLease(t) /\ outbox' = [outbox EXCEPT ![t[1]] = scrubbed(outbox[t[1]])]
  /\ UNCHANGED <<env, audit, rcp, lapsed, req>>

\* Capabilities granted before some instant run out.
lapse ==
  /\ \E n \in 1..LastLapse : n > lapsed /\ (\E r \in Recipients : rcp[r].exp = n) /\ lapsed' = n
  /\ UNCHANGED <<tables, tasks, req>>

-----------------------------------------------------------------------------
Init ==
  /\ env = "ready"
  /\ audit = <<[kind |-> "ready", r |-> Nobody, previous |-> 0, revoked |-> {}]>>
  /\ rcp = [r \in Recipients |-> [status |-> "pending", cap |-> 0, exp |-> 0, revoked |-> FALSE]]
  /\ outbox = [i \in Rows |-> NoRow]
  /\ lapsed = 0
  /\ tasks = {}
  /\ req = [s \in Sessions |-> Idle]

Next ==
  \/ \E s \in Sessions : request(s) \/ prepare(s) \/ publish(s)
  \/ claimPendingInvitations
  \/ \E t \in tasks : finishDelivery(t)
  \/ lapse

Spec == Init /\ [][Next]_vars

-----------------------------------------------------------------------------
(***************************************************************************)
(* Properties.                                                             *)
(***************************************************************************)

\* Every row, event and request is of its type.
TypeOK ==
  /\ env \in EnvelopeStatus
  /\ audit \in Seq(auditEvent)
  /\ rcp \in [Recipients -> recipientRow]
  /\ outbox \in [Rows -> outboxRow]
  /\ lapsed \in Nat
  /\ \A t \in tasks : t[1] \in Rows /\ t[2] \in Nat
  /\ \A s \in Sessions : req[s].pc \in {"idle", "batch"} \cup
       UNION {{Reads[k][n] : n \in DOMAIN Reads[k]} : k \in Command}

\* However the reads of concurrent commands are torn, each event names the
\* event before it: the hash chain of the envelope neither forks nor skips.
ChainLinear == \A n \in DOMAIN audit : audit[n].previous = n - 1

\* The terminal event's payload is true: the recipients it says were revoked
\* are those who had not finished, and all of them are.
RevocationEvidenceTrue ==
  LET e == audit[head]
      unfinished == {r \in Invited : rcp[r].status \in {"pending", "viewed"} /\ rcp[r].cap # 0}
  IN  env \in {"declined", "voided", "expired"} =>
        e.revoked = unfinished /\ \A r \in unfinished : rcp[r].revoked

\* A finished envelope has no invitation left to send and holds no sealed
\* capability, except in a row whose lease an expiry did not wait for: its
\* worker may still write a retryable failure, for the next claim to scrub.
TerminalQuiet ==
  env \in Terminal =>
    \A i \in Rows :
      undelivered(outbox[i]) \/ outbox[i].sealed =>
        env = "expired" /\ outbox[i].attempts > 0 /\ outbox[i].status \in {"processing", "failed"}

\* A link that was replaced cannot be mailed any more: its row is settled and
\* its sealed capability destroyed, whatever the worker that held it does.
ReplacedLinkDestroyed ==
  \A i \in Rows :
    i[2] < rcp[i[1]].cap =>
      ~outbox[i].sealed /\ outbox[i].status \in {"delivered", "failed"}

\* The D1 stores keep the promise of the envelope's lifecycle, as the
\* PostgreSQL stores do: routing order, one completion, final terminal states.
Lifecycle == INSTANCE EnvelopeLifecycle WITH
  status <- env,
  acted <- {r \in Actionable : rcp[r].status = "completed"},
  open <- {r \in Recipients : rcp[r].exp # 0}

ImplementsLifecycle == Lifecycle!LSpec
=============================================================================
