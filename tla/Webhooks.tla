------------------------------ MODULE Webhooks ------------------------------
(***************************************************************************)
(* Webhook endpoints, the outbox the audit trigger fills, and the drains   *)
(* that work it off in batches.  Every endpoint here subscribes to every   *)
(* event.                                                                  *)
(*                                                                         *)
(* The PostgreSQL and the D1 store differ in one point, which ActiveFirst  *)
(* selects: whether rows of revoked endpoints are left out before the      *)
(* batch is limited (D1) or after (PostgreSQL).                            *)
(***************************************************************************)
EXTENDS Naturals, Sequences, SequencesExt, FiniteSets

CONSTANTS
  Endpoints,     \* endpoint ids, each issued at most once
  Events,        \* audit events, each inserted at most once
  Drains,        \* concurrent runs of the drain
  Sessions,      \* concurrent administrators
  Keys,          \* their idempotency keys
  ActiveFirst,   \* the D1 store; FALSE is the PostgreSQL store
  Limit,         \* rows per batch
  MaxAttempts,   \* WEBHOOK_MAX_ATTEMPTS
  MaxEndpoints,  \* WEBHOOK_MAX_ENDPOINTS
  MaxRotations,  \* bound: rotations of the sealing key
  MaxCrashes,    \* bound: drains that die or lose the store
  MaxOverruns    \* bound: leases outlived by a running drain

WebhookConstants ==
  /\ ActiveFirst \in BOOLEAN
  /\ {Limit, MaxAttempts, MaxEndpoints} \subseteq Nat \ {0}
  /\ {MaxRotations, MaxCrashes, MaxOverruns} \subseteq Nat

VARIABLES
  endpoint,   \* webhook_endpoint: status and sealing key
  commands,   \* webhook_endpoint_command
  lock,       \* holder of the advisory lock on endpoint creation
  sessions,   \* creations under way
  outbox,     \* webhook_outbox
  order,      \* outbox rows by available_at
  log,        \* webhook_delivery_log
  drains,     \* drains under way
  posts,      \* requests sent per row
  activeKey,
  crashes, overruns

admin == <<endpoint, commands, lock, sessions>>
work == <<outbox, order, log, drains, posts>>
bounds == <<crashes, overruns>>
vars == <<admin, work, activeKey, bounds>>

None == 0

Rows == Endpoints \X Events

NoRow == [status |-> "absent", retryable |-> TRUE, attempts |-> 0, token |-> None,
          stale |-> FALSE, leases |-> 0, by |-> None]

-----------------------------------------------------------------------------
(***************************************************************************)
(* Administration.                                                         *)
(***************************************************************************)

active == {e \in Endpoints : endpoint[e].status = "active"}

used(key) == \E c \in commands : c.key = key

Idle == [pc |-> "idle", key |-> None, id |-> None]

\* Slip: creations do not wait for each other.
lockFree_ignored(s) == lock # s

lockFree(s) == lock = None

\* The transaction takes the advisory lock, then looks for a receipt and
\* counts; either ends it without effect.
createBegin(s) ==
  /\ sessions[s].pc = "idle" /\ lockFree(s)
  /\ \E key \in Keys, e \in Endpoints :
       /\ endpoint[e].status = "absent"
       /\ \A t \in Sessions : sessions[t].id # e
       /\ IF used(key) \/ Cardinality(active) >= MaxEndpoints THEN UNCHANGED <<lock, sessions>>
          ELSE /\ lock' = s
               /\ sessions' = [sessions EXCEPT ![s] = [pc |-> "insert", key |-> key, id |-> e]]
  /\ UNCHANGED <<endpoint, commands, work, activeKey, bounds>>

\* Endpoint and receipt are inserted together.  A revocation may have taken
\* the key meanwhile: then everything is rolled back.
createCommit(s) ==
  LET c == sessions[s]
  IN  /\ c.pc = "insert"
      /\ IF used(c.key) THEN UNCHANGED <<endpoint, commands>>
         ELSE /\ endpoint' = [endpoint EXCEPT ![c.id] = [status |-> "active", key |-> activeKey]]
              /\ commands' = commands \cup {[key |-> c.key, type |-> "create", id |-> c.id]}
      /\ lock' = None
      /\ sessions' = [sessions EXCEPT ![s] = Idle]
      /\ UNCHANGED <<work, activeKey, bounds>>

revokeEndpoint ==
  /\ \E key \in Keys, e \in active :
       /\ ~used(key)
       /\ endpoint' = [endpoint EXCEPT ![e].status = "revoked"]
       /\ commands' = commands \cup {[key |-> key, type |-> "revoke", id |-> e]}
  /\ UNCHANGED <<lock, sessions, work, activeKey, bounds>>

rotate ==
  /\ activeKey <= MaxRotations
  /\ activeKey' = activeKey + 1
  /\ UNCHANGED <<admin, work, bounds>>

-----------------------------------------------------------------------------
(***************************************************************************)
(* The outbox.                                                             *)
(***************************************************************************)

\* The trigger on audit_event writes a row for every active endpoint.
enqueue(v) ==
  LET new == {<<e, v>> : e \in active}
  IN  /\ \A e \in Endpoints : outbox[<<e, v>>] = NoRow
      /\ active # {}
      /\ outbox' = [w \in Rows |-> IF w \in new THEN [NoRow EXCEPT !.status = "pending"]
                                   ELSE outbox[w]]
      /\ \E seq \in SetToSeqs(new) : order' = order \o seq
      /\ UNCHANGED <<admin, log, drains, posts, activeKey, bounds>>

exhausted(x) == x.status = "processing" /\ x.stale /\ x.attempts >= MaxAttempts

\* Time passes between two drains: every waiting row may be due.
due(x) ==
  /\ \/ x.status \in {"pending", "failed"} /\ x.retryable
     \/ x.status = "processing" /\ x.stale
  /\ x.attempts < MaxAttempts

entry(w, status, attempt) == [row |-> w, status |-> status, attempt |-> attempt]

NoDrain == [pc |-> "idle", todo |-> <<>>, code |-> "none"]

\* #resealStaleSecrets, the first thing a drain does.  Each secret is written
\* by a compare-and-set on its key, so that only the result matters.
resealStaleSecrets(d) ==
  /\ drains[d].pc = "idle"
  /\ endpoint' = [e \in Endpoints |->
                    IF endpoint[e].key \in {activeKey - 1, activeKey} \ {None}
                    THEN [endpoint[e] EXCEPT !.key = activeKey] ELSE endpoint[e]]
  /\ drains' = [drains EXCEPT ![d].pc = "claim"]
  /\ UNCHANGED <<commands, lock, sessions, outbox, order, log, posts, activeKey, bounds>>

\* Slip: a stale lease at the attempt ceiling is left to the claim.
terminal_never == {}

\* #terminalizeExhaustedStaleDeliveries.
terminal == {w \in Rows : exhausted(outbox[w])}

\* The batch, oldest first.
batch ==
  LET open(w) == w \notin terminal /\ due(outbox[w])
      live(w) == endpoint[w[1]].status = "active"
      first(seq) == SubSeq(seq, 1, IF Len(seq) < Limit THEN Len(seq) ELSE Limit)
  IN  IF ActiveFirst THEN first(SelectSeq(order, LAMBDA w : open(w) /\ live(w)))
      ELSE SelectSeq(first(SelectSeq(order, open)), live)

attempted(x) == x.attempts + 1

claimPendingDeliveries(d) ==
  LET claimed == ToSet(batch)
  IN  /\ drains[d].pc = "claim"
      /\ outbox' = [w \in Rows |->
           LET x == outbox[w]
           IN  IF w \in terminal
               THEN [x EXCEPT !.status = "failed", !.retryable = FALSE, !.token = None, !.stale = FALSE]
               ELSE IF w \in claimed
               THEN [x EXCEPT !.status = "processing", !.token = x.leases + 1,
                              !.leases = x.leases + 1, !.attempts = attempted(x), !.stale = FALSE]
               ELSE x]
      /\ log' = log \cup {entry(w, "failed", outbox[w].attempts) : w \in terminal}
      /\ drains' = [drains EXCEPT ![d] =
           IF batch = <<>> THEN NoDrain
           ELSE [pc |-> "dispatch", code |-> "none",
                 todo |-> [i \in DOMAIN batch |->
                   [row |-> batch[i], token |-> outbox[batch[i]].leases + 1,
                    attempts |-> attempted(outbox[batch[i]]), key |-> endpoint[batch[i][1]].key]]]]
      /\ UNCHANGED <<admin, order, posts, activeKey, bounds>>

-----------------------------------------------------------------------------
(***************************************************************************)
(* One delivery of a batch.                                                *)
(***************************************************************************)

current(d) == Head(drains[d].todo)

\* On to the next row, or done.
proceed(d) ==
  drains' = [drains EXCEPT ![d] =
    IF Len(@.todo) = 1 THEN NoDrain ELSE [@ EXCEPT !.pc = "dispatch", !.todo = Tail(@)]]

await(d, pc, code) == drains' = [drains EXCEPT ![d].pc = pc, ![d].code = code]

\* The host policy, the payload's size, the secret and the target are checked
\* first; then the request is sent, and its answer may be lost.
dispatch(d) ==
  LET openable == current(d).key \in {activeKey - 1, activeKey}
  IN  /\ drains[d].pc = "dispatch"
      /\ \/ UNCHANGED posts /\ await(d, "fail", "retryable")
         \/ UNCHANGED posts /\ await(d, "fail", "permanent")
         \/ /\ openable
            /\ posts' = [posts EXCEPT ![current(d).row] = @ + 1]
            /\ \/ await(d, "complete", "none")
               \/ \E code \in {"retryable", "permanent"} : await(d, "fail", code)
      /\ UNCHANGED <<admin, outbox, order, log, activeKey, bounds>>

holds(c) == outbox[c.row].status = "processing" /\ outbox[c.row].token = c.token

\* Slip: an outcome is written whoever holds the lease.
leaseHeld_unchecked(c) == outbox[c.row].status \in {"processing", "failed"}

leaseHeld(c) == holds(c)

\* Slip: the delivery is logged although the lease is gone.
completeDelivery_logAnyway(d) ==
  LET c == current(d)
      x == outbox[c.row]
  IN  /\ drains[d].pc = "complete"
      /\ outbox' = IF leaseHeld(c)
                   THEN [outbox EXCEPT ![c.row] = [x EXCEPT !.status = "delivered", !.token = None,
                                                             !.stale = FALSE, !.by = c.token]]
                   ELSE outbox
      /\ log' = log \cup {entry(c.row, "delivered", c.attempts)}
      /\ proceed(d)
      /\ UNCHANGED <<admin, order, posts, activeKey, bounds>>

\* completeDelivery: the row and its log entry in one transaction, or nothing
\* when the lease is gone.  When its answer is lost a failure is written next.
completeDelivery(d) ==
  LET c == current(d)
      x == outbox[c.row]
      committed ==
        /\ outbox' = [outbox EXCEPT ![c.row] = [x EXCEPT !.status = "delivered", !.token = None,
                                                          !.stale = FALSE, !.by = c.token]]
        /\ log' = log \cup {entry(c.row, "delivered", x.attempts)}
  IN  /\ drains[d].pc = "complete"
      /\ \/ leaseHeld(c) /\ committed /\ (proceed(d) \/ await(d, "fail", "retryable"))
         \/ ~leaseHeld(c) /\ proceed(d) /\ UNCHANGED <<outbox, log>>
         \/ await(d, "fail", "retryable") /\ UNCHANGED <<outbox, log>>
      /\ UNCHANGED <<admin, order, posts, activeKey, bounds>>

retryable(d) == drains[d].code = "retryable" /\ current(d).attempts < MaxAttempts

\* failDelivery; a retry may become due before or after the rows now waiting.
failDelivery(d) ==
  LET c == current(d)
      x == outbox[c.row]
  IN  /\ drains[d].pc = "fail"
      /\ IF leaseHeld(c)
         THEN /\ outbox' = [outbox EXCEPT ![c.row] =
                   [x EXCEPT !.status = "failed", !.retryable = retryable(d), !.token = None,
                             !.stale = FALSE]]
              /\ log' = log \cup {entry(c.row, IF retryable(d) THEN "retrying" ELSE "failed",
                                        x.attempts)}
              /\ order' \in {order, Append(SelectSeq(order, LAMBDA w : w # c.row), c.row)}
         ELSE UNCHANGED <<outbox, log, order>>
      /\ proceed(d)
      /\ UNCHANGED <<admin, posts, activeKey, bounds>>

drainStep(d) ==
  \/ resealStaleSecrets(d) \/ claimPendingDeliveries(d)
  \/ dispatch(d) \/ completeDelivery(d) \/ failDelivery(d)

-----------------------------------------------------------------------------
\* A drain dies, or a failure cannot be written: the rest of its batch stays
\* leased.
crash(d) ==
  /\ drains[d].pc # "idle" /\ crashes < MaxCrashes
  /\ crashes' = crashes + 1
  /\ drains' = [drains EXCEPT ![d] = NoDrain]
  /\ UNCHANGED <<admin, outbox, order, log, posts, activeKey, overruns>>

\* Five minutes pass on a lease, with its drain gone or still at work.
leaseExpires(w) ==
  LET orphaned == ~\E d \in Drains : \E i \in DOMAIN drains[d].todo :
                      drains[d].todo[i].row = w /\ holds(drains[d].todo[i])
  IN  /\ outbox[w].status = "processing" /\ ~outbox[w].stale
      /\ outbox' = [outbox EXCEPT ![w].stale = TRUE]
      /\ \/ orphaned /\ UNCHANGED overruns
         \/ ~orphaned /\ overruns < MaxOverruns /\ overruns' = overruns + 1
      /\ UNCHANGED <<admin, order, log, drains, posts, activeKey, crashes>>

Init ==
  /\ endpoint = [e \in Endpoints |-> [status |-> "absent", key |-> None]]
  /\ commands = {} /\ lock = None
  /\ sessions = [s \in Sessions |-> Idle]
  /\ outbox = [w \in Rows |-> NoRow] /\ order = <<>>
  /\ log = {}
  /\ drains = [d \in Drains |-> NoDrain]
  /\ posts = [w \in Rows |-> 0]
  /\ activeKey = 1
  /\ crashes = 0 /\ overruns = 0

Next ==
  \/ \E s \in Sessions : createBegin(s) \/ createCommit(s)
  \/ revokeEndpoint \/ rotate
  \/ \E v \in Events : enqueue(v)
  \/ \E d \in Drains : drainStep(d) \/ crash(d)
  \/ \E w \in Rows : leaseExpires(w)

Spec == Init /\ [][Next]_vars

\* The drain is scheduled and time passes.
FairStep(i) ==
  \/ i = 1 /\ \E d \in Drains : drainStep(d)
  \/ i = 2 /\ \E w \in Rows : leaseExpires(w)

Fairness == \A i \in 1..2 : WF_vars(FairStep(i))

FairSpec == Spec /\ Fairness

-----------------------------------------------------------------------------
(***************************************************************************)
(* Properties.                                                             *)
(***************************************************************************)

finished(x) == x.status = "delivered" \/ (x.status = "failed" /\ ~x.retryable)

\* The log tells the story of every row: at most one entry per attempt, a
\* final entry exactly for rows that are finished, and the last one of those,
\* although several drains hold leases of the same row and answers get lost.
LogFaithful ==
  \A w \in Rows :
    LET mine == {l \in log : l.row = w}
        final == {l \in mine : l.status # "retrying"}
    IN  /\ \A k, l \in mine : k.attempt = l.attempt => k = l
        /\ final # {} <=> finished(outbox[w])
        /\ \A l \in final : /\ (l.status = "delivered") = (outbox[w].status = "delivered")
                            /\ \A k \in mine : k.attempt <= l.attempt

\* Retries are controlled: an endpoint is sent one event at most
\* WEBHOOK_MAX_ATTEMPTS times, also when drains crash after sending or outlive
\* their leases.
PostsBounded == \A w \in Rows : posts[w] <= MaxAttempts

\* Concurrent creations never exceed WEBHOOK_MAX_ENDPOINTS, and every endpoint
\* has one create receipt of its own key.  About #lockEndpointCreation.
EndpointsCapped ==
  /\ Cardinality(active) <= MaxEndpoints
  /\ \A c, d \in commands : c.key = d.key \/ (c.type = d.type /\ c.id = d.id) => c = d
  /\ {c.id : c \in {d \in commands : d.type = "create"}} =
       {e \in Endpoints : endpoint[e].status # "absent"}

phaseOf(x) ==
  CASE x.status = "absent" -> "absent"
    [] x.status = "processing" -> "held"
    [] x.status = "delivered" -> "done"
    [] finished(x) -> "dead"
    [] OTHER -> "open"

Job(w) == INSTANCE LeasedJob WITH
  phase <- phaseOf(outbox[w]), lease <- outbox[w].leases, winner <- outbox[w].by

\* Every outbox row is a leased job.
ImplementsWebhookLeases ==
  /\ \A w \in DOMAIN outbox : Job(w)!Absent
  /\ [][\A w \in DOMAIN outbox : [Job(w)!JobNext]_(Job(w)!job)]_vars

\* Due work is claimed: an event for an endpoint that stays active is
\* delivered or fails for good, whatever is left behind for others.
DueWorkSettled ==
  \A w \in Rows : \/ outbox[w].status = "absent" \/ finished(outbox[w])
                  \/ endpoint[w[1]].status = "revoked"
=============================================================================
