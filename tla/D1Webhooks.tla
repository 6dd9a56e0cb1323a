----------------------------- MODULE D1Webhooks -----------------------------
(***************************************************************************)
(* Webhooks in the D1 store.  An endpoint is created and revoked by reads  *)
(* followed by one batch, which a trigger guards, instead of under a lock; *)
(* a drain claims by a read of the exhausted rows, a batch that ends them, *)
(* an update and a read of what it leased, each a call of its own.         *)
(* Outcomes are recorded by batches that amount to the transactions of     *)
(* Webhooks.                                                               *)
(***************************************************************************)
EXTENDS Webhooks

D1Store == ActiveFirst

VARIABLE candidates   \* exhausted rows a drain has read, with their tokens

d1vars == <<vars, candidates>>

-----------------------------------------------------------------------------
(***************************************************************************)
(* Administration.                                                         *)
(***************************************************************************)

adminStep == UNCHANGED <<lock, work, activeKey, bounds, candidates>>

answered(s) == sessions' = [sessions EXCEPT ![s] = Idle]

continues(s, pc) == sessions' = [sessions EXCEPT ![s].pc = pc]

\* A receipt of the key ends the command, or the batch follows: for a revocation
\* at once, for a creation after a count.
findReceipt(s) ==
  /\ sessions[s].pc = "idle"
  /\ \E key \in Keys, e \in Endpoints, pc \in {"count", "revoke"} :
       /\ ~used(key)
       /\ pc = "count" => /\ endpoint[e].status = "absent"
                          /\ \A t \in Sessions : sessions[t].id # e
       /\ pc = "revoke" => endpoint[e].status # "absent"
       /\ sessions' = [sessions EXCEPT ![s] = [pc |-> pc, key |-> key, id |-> e]]
  /\ UNCHANGED <<endpoint, commands>> /\ adminStep

countActive(s) ==
  /\ sessions[s].pc = "count"
  /\ IF Cardinality(active) >= MaxEndpoints THEN answered(s) ELSE continues(s, "insert")
  /\ UNCHANGED <<endpoint, commands>> /\ adminStep

\* Slip: there is no trigger, and the count read before decides.
capGuard_none == TRUE
\* webhook_endpoint_active_cap_guard.
capGuard == Cardinality(active) < MaxEndpoints

\* Endpoint and receipt in one batch, refused by the trigger or the key.
insertEndpoint(s) ==
  LET c == sessions[s]
  IN  /\ c.pc = "insert"
      /\ IF used(c.key) \/ ~capGuard THEN UNCHANGED <<endpoint, commands>>
         ELSE /\ endpoint' = [endpoint EXCEPT ![c.id] = [status |-> "active", key |-> activeKey]]
              /\ commands' = commands \cup {[key |-> c.key, type |-> "create", id |-> c.id]}
      /\ answered(s) /\ adminStep

\* The receipt is inserted also when the endpoint was revoked already.
updateEndpoint(s) ==
  LET c == sessions[s]
  IN  /\ c.pc = "revoke"
      /\ IF used(c.key) THEN UNCHANGED <<endpoint, commands>>
         ELSE /\ endpoint' = [endpoint EXCEPT ![c.id].status = "revoked"]
              /\ commands' = commands \cup {[key |-> c.key, type |-> "revoke", id |-> c.id]}
      /\ answered(s) /\ adminStep

-----------------------------------------------------------------------------
(***************************************************************************)
(* The claim.                                                              *)
(***************************************************************************)

drainsOn(d, pc) == drains' = [drains EXCEPT ![d].pc = pc]

drainUnchanged == UNCHANGED <<admin, order, posts, activeKey, bounds>>

\* The exhausted rows, at most a batch of them.
readCandidates(d) ==
  /\ drains[d].pc = "claim"
  /\ \E some \in SUBSET terminal :
       /\ Cardinality(some) <= Limit
       /\ Cardinality(some) = Limit \/ some = terminal
       /\ candidates' = [candidates EXCEPT ![d] =
            {[row |-> w, token |-> outbox[w].token] : w \in some}]
       /\ drainsOn(d, IF some = {} THEN "update" ELSE "terminalize")
  /\ UNCHANGED <<outbox, log>> /\ drainUnchanged

\* Slip: the rows that were read are ended whatever happened to them since.
stillExhausted_assumed(c) == outbox[c.row].status # "absent"

stillExhausted(c) == exhausted(outbox[c.row]) /\ outbox[c.row].token = c.token

\* Log entries and rows in one batch.
terminalize(d) ==
  LET ended == {c.row : c \in {k \in candidates[d] : stillExhausted(k)}}
  IN  /\ drains[d].pc = "terminalize"
      /\ outbox' = [w \in Rows |-> IF w \in ended
           THEN [outbox[w] EXCEPT !.status = "failed", !.retryable = FALSE, !.token = None,
                                  !.stale = FALSE]
           ELSE outbox[w]]
      /\ log' = log \cup {entry(w, "failed", outbox[w].attempts) : w \in ended}
      /\ candidates' = [candidates EXCEPT ![d] = {}]
      /\ drainsOn(d, "update") /\ drainUnchanged

\* The update leases the batch.
updateBatch(d) ==
  LET claimed == ToSet(batch)
  IN  /\ drains[d].pc = "update"
      /\ outbox' = [w \in Rows |-> LET x == outbox[w] IN
           IF w \in claimed
           THEN [x EXCEPT !.status = "processing", !.token = x.leases + 1,
                          !.leases = x.leases + 1, !.attempts = attempted(x), !.stale = FALSE]
           ELSE x]
      /\ drains' = [drains EXCEPT ![d] = [pc |-> "select", code |-> "none",
           todo |-> [i \in DOMAIN batch |->
             [row |-> batch[i], token |-> outbox[batch[i]].leases + 1,
              attempts |-> attempted(outbox[batch[i]]), key |-> None]]]]
      /\ UNCHANGED <<log, candidates>> /\ drainUnchanged

\* Whatever still carries the drain's token, in no particular order, with the
\* endpoint's secret as it is by now.
selectClaimed(d) ==
  LET mine == {c \in ToSet(drains[d].todo) : holds(c)}
      rows == {[c EXCEPT !.key = endpoint[c.row[1]].key] : c \in mine}
  IN  /\ drains[d].pc = "select"
      /\ \E todo \in SetToSeqs(rows) :
           drains' = [drains EXCEPT ![d] =
             IF rows = {} THEN NoDrain ELSE [pc |-> "dispatch", code |-> "none", todo |-> todo]]
      /\ UNCHANGED <<outbox, log, candidates>> /\ drainUnchanged

d1drainStep(d) ==
  \/ readCandidates(d) \/ terminalize(d) \/ updateBatch(d) \/ selectClaimed(d)
  \/ /\ UNCHANGED candidates
     /\ resealStaleSecrets(d) \/ dispatch(d) \/ completeDelivery(d) \/ failDelivery(d)

d1crash(d) == crash(d) /\ candidates' = [candidates EXCEPT ![d] = {}]

D1Init == Init /\ candidates = [d \in Drains |-> {}]

D1Next ==
  \/ \E s \in Sessions : findReceipt(s) \/ countActive(s) \/ insertEndpoint(s) \/ updateEndpoint(s)
  \/ \E d \in Drains : d1drainStep(d) \/ d1crash(d)
  \/ /\ UNCHANGED candidates
     /\ rotate \/ (\E v \in Events : enqueue(v)) \/ (\E w \in Rows : leaseExpires(w))

D1Spec == D1Init /\ [][D1Next]_d1vars

-----------------------------------------------------------------------------
(***************************************************************************)
(* Properties, besides those of Webhooks.                                  *)
(***************************************************************************)

\* The trigger keeps the cap that no lock keeps, a key answers one command,
\* and the receipts tell of the endpoints: one creation for each that is there,
\* a revocation exactly for those revoked.  Two revocations of one endpoint
\* may both be recorded.  About createEndpoint and revokeEndpoint.
EndpointsGuarded ==
  LET of(type) == {c \in commands : c.type = type}
  IN  /\ Cardinality(active) <= MaxEndpoints
      /\ \A c, d \in commands : c.key = d.key \/ (c.type = "create" /\ d.type = "create" /\ c.id = d.id)
                                  => c = d
      /\ {c.id : c \in of("create")} = {e \in Endpoints : endpoint[e].status # "absent"}
      /\ {c.id : c \in of("revoke")} = {e \in Endpoints : endpoint[e].status = "revoked"}
=============================================================================
