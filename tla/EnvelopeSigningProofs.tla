------------------------ MODULE EnvelopeSigningProofs ------------------------
(***************************************************************************)
(* Proofs about EnvelopeSigning, for every recipient graph the ready       *)
(* command accepts, any number of sessions and all values of the bounds.   *)
(***************************************************************************)
EXTENDS EnvelopeSigning, FiniteSetTheorems, WellFoundedInduction, TLAPS

-----------------------------------------------------------------------------
(***************************************************************************)
(* Facts about the routing operators of EnvelopeDomain.                    *)
(***************************************************************************)

\* A non-empty set of routing orders has a least element, which Least picks.
LEMMA LeastOfNaturals ==
  ASSUME NEW S \in SUBSET Nat, S # {}
  PROVE  Least(S) \in S /\ \A m \in S : Least(S) <= m
PROOF
<1>1. PICK x \in S : \A y \in S : ~(<<y, x>> \in OpToRel(<, Nat))
  BY NatLessThanWellFounded, WFMin
<1>2. ASSUME NEW y \in S, y < x PROVE FALSE
  <2>1. <<y, x>> \in Nat \X Nat
    OBVIOUS
  <2>2. <<y, x>>[1] < <<y, x>>[2]
    BY <1>2
  <2>3. <<y, x>> \in OpToRel(<, Nat)
    BY <2>1, <2>2, Zenon DEF OpToRel
  <2> QED
    BY <1>1, <2>3
<1>3. \A y \in S : x <= y
  BY <1>2
<1> QED
  BY <1>3 DEF Least

\* A set of recipients is finite, and its size says whether it is empty.
LEMMA CountedRecipients ==
  ASSUME NEW S \in SUBSET Recipients
  PROVE  Cardinality(S) \in Nat /\ (Cardinality(S) = 0 <=> S = {})
PROOF
<1>1. IsFiniteSet(S)
  BY RecipientGraph, FS_Subset DEF assertReadyInput
<1> QED
  BY <1>1, FS_CardinalityType, FS_EmptySet

\* Routing orders are positive, and an actionable recipient is invited.
LEMMA Orders ==
  /\ \A r \in Recipients : RoutingOrder[r] \in Nat \ {0}
  /\ Actionable \subseteq Invited
  /\ Invited \subseteq Recipients
PROOF
<1>1. \A r \in Recipients : RoutingOrder[r] \in Nat \ {0}
  BY RecipientGraph DEF assertReadyInput
<1>2. Actionable \subseteq Invited /\ Invited \subseteq Recipients
  BY DEF Actionable, Invited, isPostSendInvitationRecipientRole
<1> QED
  BY <1>1, <1>2

\* An invited recipient's order is the order of some actionable recipient.
LEMMA InvitedOrders ==
  ASSUME NEW v \in Invited
  PROVE  \E r \in Actionable : RoutingOrder[r] = RoutingOrder[v]
PROOF
<1>1. CASE isActionableRecipientRole(Role[v])
  BY <1>1 DEF Actionable, Invited
<1>2. CASE Role[v] = "viewer"
  BY <1>2, RecipientGraph DEF assertReadyInput, Invited
<1> QED
  BY <1>1, <1>2 DEF Invited, isPostSendInvitationRecipientRole

\* The send opens the least order that an actionable recipient has.
LEMMA InitialOrder ==
  /\ \E r \in Actionable : RoutingOrder[r] = initialRoutingOrder
  /\ \A r \in Invited : initialRoutingOrder <= RoutingOrder[r]
  /\ initialRoutingOrder \in Nat
PROOF
<1> DEFINE S == {RoutingOrder[r] : r \in Actionable}
<1>1. S \in SUBSET Nat /\ S # {}
  BY Orders, RecipientGraph DEF assertReadyInput
<1>2. Least(S) \in S /\ \A m \in S : Least(S) <= m
  BY <1>1, LeastOfNaturals
<1>3. initialRoutingOrder = Least(S)
  BY DEF initialRoutingOrder
<1>4. ASSUME NEW r \in Invited PROVE initialRoutingOrder <= RoutingOrder[r]
  <2>1. PICK a \in Actionable : RoutingOrder[a] = RoutingOrder[r]
    BY InvitedOrders
  <2> QED
    BY <1>2, <1>3, <2>1
<1> HIDE DEF S
<1>5. \E r \in Actionable : RoutingOrder[r] = initialRoutingOrder
  BY <1>2, <1>3 DEF S
<1>6. initialRoutingOrder \in Nat
  BY <1>1, <1>2, <1>3
<1> QED
  BY <1>4, <1>5, <1>6

\* What the three plans of planRecipientDecisionRouting mean.  A release names
\* the least order that outstanding recipients of later orders have.
LEMMA PlanMeaning ==
  ASSUME NEW st, NEW actor \in Recipients
  PROVE  LET plan == PlanFor(st, actor)
             rest == remainingActionable(st, actor)
         IN  /\ plan \in [kind : {"continue", "release", "complete"}, next : Nat, count : Nat]
             /\ plan.kind = "complete" <=> rest = {}
             /\ plan.kind = "release" =>
                  /\ \A r \in rest : RoutingOrder[r] # RoutingOrder[actor]
                  /\ plan.next > RoutingOrder[actor]
                  /\ \E r \in rest : RoutingOrder[r] = plan.next
                  /\ \A r \in rest : RoutingOrder[r] > RoutingOrder[actor]
                                       => plan.next <= RoutingOrder[r]
             /\ plan.kind = "continue" =>
                  \/ \E r \in rest : RoutingOrder[r] = RoutingOrder[actor]
                  \/ \A r \in rest : RoutingOrder[r] <= RoutingOrder[actor]
PROOF
<1> DEFINE rest == remainingActionable(st, actor)
           peers == {r \in rest : RoutingOrder[r] = RoutingOrder[actor]}
           later == laterOrders(st, actor)
           next == IF later = {} THEN NoOrder ELSE Least(later)
           group == groupOf(st, actor, next)
           count == IF next = NoOrder THEN 0 ELSE Cardinality(group)
           routing == recipientDecisionRoutingSnapshot(st, actor)
           plan == PlanFor(st, actor)
<1>1. rest \subseteq Recipients /\ peers \subseteq Recipients /\ group \subseteq Recipients
  BY DEF remainingActionable, Actionable, groupOf, Invited
<1>2. later = {RoutingOrder[r] : r \in {q \in rest : RoutingOrder[q] > RoutingOrder[actor]}}
  BY DEF laterOrders
<1>3. later \in SUBSET Nat
  BY <1>1, <1>2, Orders
<1>4. later # {} => next \in later /\ \A m \in later : next <= m
  BY <1>3, LeastOfNaturals
<1>5. next \in Nat /\ (next = NoOrder <=> later = {})
  <2>1. CASE later = {}
    BY <2>1 DEF NoOrder
  <2>2. CASE later # {}
    <3>1. PICK r \in rest : next = RoutingOrder[r] /\ RoutingOrder[r] > RoutingOrder[actor]
      BY <2>2, <1>4, <1>2
    <3> QED
      BY <2>2, <3>1, <1>1, Orders DEF NoOrder
  <2> QED
    BY <2>1, <2>2
<1>6. /\ Cardinality(rest) \in Nat /\ (Cardinality(rest) = 0 <=> rest = {})
      /\ Cardinality(peers) \in Nat /\ (Cardinality(peers) = 0 <=> peers = {})
      /\ Cardinality(group) \in Nat
  BY <1>1, CountedRecipients
<1>7. routing = [currentGroupOutstanding |-> Cardinality(peers),
                 remainingActionableOutstanding |-> Cardinality(rest),
                 nextRoutingOrder |-> next, nextGroupCount |-> count]
  BY DEF recipientDecisionRoutingSnapshot
<1>8. plan = IF Cardinality(rest) = 0
             THEN [kind |-> "complete", next |-> NoOrder, count |-> 0]
             ELSE IF Cardinality(peers) = 0 /\ next # NoOrder
             THEN [kind |-> "release", next |-> next, count |-> count]
             ELSE [kind |-> "continue", next |-> NoOrder, count |-> 0]
  <2> HIDE DEF peers, rest, next, count
  <2> QED
    BY <1>7 DEF PlanFor, planRecipientDecisionRouting
<1>9. \A r \in rest : RoutingOrder[r] > RoutingOrder[actor] <=> RoutingOrder[r] \in later
  BY <1>2, <1>1, Orders
<1>10. \A n \in later : \E r \in rest : n = RoutingOrder[r] /\ n > RoutingOrder[actor]
  BY <1>2
<1>11. \A r \in rest : r \in peers <=> RoutingOrder[r] = RoutingOrder[actor]
  OBVIOUS
<1>12. peers \subseteq rest
  OBVIOUS
<1> HIDE DEF peers, rest, next, count, later, plan, group
<1>13. count \in Nat
  BY <1>6 DEF count
<1>14. plan \in [kind : {"continue", "release", "complete"}, next : Nat, count : Nat]
  BY <1>8, <1>5, <1>13 DEF NoOrder
<1>15. plan.kind = "complete" <=> rest = {}
  BY <1>8, <1>6
<1>16. ASSUME plan.kind = "release"
       PROVE  /\ \A r \in rest : RoutingOrder[r] # RoutingOrder[actor]
              /\ plan.next > RoutingOrder[actor]
              /\ \E r \in rest : RoutingOrder[r] = plan.next
              /\ \A r \in rest : RoutingOrder[r] > RoutingOrder[actor]
                                   => plan.next <= RoutingOrder[r]
  <2>1. peers = {} /\ later # {} /\ plan.next = next
    BY <1>16, <1>8, <1>6, <1>5
  <2> QED
    BY <2>1, <1>4, <1>9, <1>10, <1>11
<1>17. ASSUME plan.kind = "continue"
       PROVE  \/ \E r \in rest : RoutingOrder[r] = RoutingOrder[actor]
              \/ \A r \in rest : RoutingOrder[r] <= RoutingOrder[actor]
  <2>1. peers # {} \/ later = {}
    BY <1>17, <1>8, <1>6, <1>5
  <2>2. CASE peers # {}
    BY <2>2, <1>11, <1>12
  <2>3. CASE later = {}
    BY <2>3, <1>9, <1>1, Orders
  <2> QED
    BY <2>1, <2>2, <2>3
<1> QED
  BY <1>14, <1>15, <1>16, <1>17 DEF plan, rest

-----------------------------------------------------------------------------
(***************************************************************************)
(* Type correctness.  TypeOK needs two facts about commands in flight: a   *)
(* command waiting to retry has an attempt left, and a command that        *)
(* addresses a recipient names one.                                        *)
(***************************************************************************)
RequestOK ==
  \A s \in Sessions :
    /\ req[s].pc = "retry" => req[s].tries < MaxAuditAttempts
    /\ req[s].kind \in RecipientCommand => req[s].r \in Recipients

TypeInv == TypeOK /\ RequestOK

\* The rows and plans that the operators build have their types.
LEMMA IdleType == Idle \in request /\ Idle.tries = 0 /\ Idle.pc = "idle" /\ Idle.kind = "none"
PROOF
  BY SigningConstants
  DEF Idle, request, NoPlan, Plans, NoOrder, EnvelopeStatus, Command, RecipientCommand

LEMMA PlanType ==
  ASSUME NEW st, NEW r \in Recipients
  PROVE  PlanFor(st, r) \in Plans
PROOF
  BY PlanMeaning DEF Plans

LEMMA RowTypes ==
  /\ NoRow \in outboxRow
  /\ \A exp \in Nat : NewRow("pending", exp) \in outboxRow /\ NewRow("blocked", exp) \in outboxRow
  /\ \A row \in outboxRow : scrubbed(row) \in outboxRow /\ claim(row) \in outboxRow
PROOF
<1>1. NoRow \in outboxRow
  BY DEF NoRow, outboxRow, NoToken
<1>2. ASSUME NEW exp \in Nat, NEW status \in {"pending", "blocked"}
      PROVE  NewRow(status, exp) \in outboxRow
  <2> DEFINE row == NoRow
  <2>1. row \in outboxRow
    BY <1>1
  <2> HIDE DEF row
  <2>2. [row EXCEPT !.status = status, !.retryable = TRUE, !.sealed = TRUE, !.reserved = exp]
          \in outboxRow
    BY <2>1 DEF outboxRow
  <2> QED
    BY <2>2 DEF NewRow, row
<1>3. ASSUME NEW row \in outboxRow PROVE scrubbed(row) \in outboxRow
  BY DEF scrubbed, outboxRow, NoToken
<1>4. ASSUME NEW row \in outboxRow PROVE claim(row) \in outboxRow
  <2>1. PICK n \in Nat : n = row.attempts + 1
    BY DEF outboxRow
  <2>2. [row EXCEPT !.status = "processing", !.attempts = n, !.token = n, !.stale = FALSE]
          \in outboxRow
    BY DEF outboxRow
  <2> QED
    BY <2>1, <2>2 DEF claim
<1> QED
  BY <1>1, <1>2, <1>3, <1>4

LEMMA CleanupType ==
  ASSUME outbox \in [Rows -> outboxRow]
  PROVE  terminalCleanup \in [Rows -> outboxRow]
PROOF
  BY RowTypes DEF terminalCleanup

LEMMA RevokeType ==
  ASSUME NEW rows \in [Recipients -> recipientRow], NEW R
  PROVE  revoke(rows, R) \in [Recipients -> recipientRow]
PROOF
<1> SUFFICES ASSUME NEW r \in Recipients
             PROVE  [rows[r] EXCEPT !.revoked = TRUE] \in recipientRow
  BY DEF revoke
<1> QED
  BY DEF recipientRow

\* A prepared command is well-formed.
LEMMA PreparedType ==
  ASSUME TypeInv, NEW kind \in Command \cup {"none"}, NEW r \in Recipients \cup {Nobody},
         NEW cap \in 0..MaxIssues, NEW status \in EnvelopeStatus, NEW at \in Nat, NEW tries \in Nat,
         kind \in RecipientCommand => r \in Recipients
  PROVE  prepared(kind, r, cap, status, at, tries) \in request
PROOF
<1> DEFINE p == prepared(kind, r, cap, status, at, tries)
<1>1. p.plan \in Plans
  <2>1. CASE kind \in {"approve", "sign"}
    <3>1. r \in Recipients
      BY <2>1 DEF RecipientCommand
    <3> QED
      BY <2>1, <3>1, PlanType DEF prepared
  <2>2. CASE kind \notin {"approve", "sign"}
    BY <2>2 DEF prepared, NoPlan, Plans, NoOrder
  <2> QED
    BY <2>1, <2>2
<1>2. p.cap \in 0..MaxIssues
  <2>1. CASE kind = "reissue"
    <3>1. rcp[r] \in recipientRow
      BY <2>1 DEF RecipientCommand, TypeInv, TypeOK
    <3> QED
      BY <2>1, <3>1 DEF prepared, recipientRow
  <2> QED
    BY <2>1 DEF prepared
<1>3. p.status \in EnvelopeStatus /\ p.head \in Nat
  BY DEF prepared, TypeInv, TypeOK
<1>4. p.revoked \in SUBSET Recipients
  BY DEF prepared, revocable
<1>5. p = [pc |-> "publish", kind |-> kind, r |-> r, cap |-> p.cap, status |-> p.status,
           at |-> at, head |-> p.head, tries |-> tries, plan |-> p.plan, revoked |-> p.revoked]
  BY DEF prepared
<1> HIDE DEF p
<1> QED
  BY <1>1, <1>2, <1>3, <1>4, <1>5 DEF request, p

RecordOK ==
  /\ env \in EnvelopeStatus \ {"draft"}
  /\ audit \in Nat \ {0}
  /\ rcp \in [Recipients -> recipientRow]
  /\ pred \in [Rows -> 0..MaxIssues]
  /\ outbox \in [Rows -> outboxRow]

DeliveryOK ==
  /\ tasks \subseteq task
  /\ mailed \subseteq Rows
  /\ crashes \in 0..MaxCrashes
  /\ overruns \in 0..MaxOverruns

RequestsOK ==
  /\ req \in [Sessions -> request]
  /\ \A s \in Sessions : req[s].tries <= MaxAuditAttempts
  /\ RequestOK

\* TypeInv, by the variables that change together.
LEMMA TypeParts ==
  /\ TypeInv <=> RecordOK /\ lapsed \in Nat /\ RequestsOK /\ DeliveryOK
  /\ TypeInv' <=> RecordOK' /\ lapsed' \in Nat /\ RequestsOK' /\ DeliveryOK'
PROOF
  BY DEF TypeInv, TypeOK, RecordOK, RequestsOK, DeliveryOK

\* Setting one session's request to a well-formed one.
LEMMA RequestStep ==
  ASSUME RequestsOK, NEW s \in Sessions, NEW q \in request,
         q.tries <= MaxAuditAttempts,
         q.pc = "retry" => q.tries < MaxAuditAttempts,
         q.kind \in RecipientCommand => q.r \in Recipients,
         req' = [req EXCEPT ![s] = q]
  PROVE  RequestsOK'
PROOF
<1>1. req \in [Sessions -> request]
  BY DEF RequestsOK
<1>2. req' \in [Sessions -> request]
  BY <1>1
<1>3. \A z \in Sessions : req'[z] = q \/ req'[z] = req[z]
  BY <1>1
<1> QED
  BY <1>2, <1>3 DEF RequestsOK, RequestOK

\* A session that goes back to idle.
LEMMA IdleStep ==
  ASSUME RequestsOK, NEW s \in Sessions, req' = [req EXCEPT ![s] = Idle]
  PROVE  RequestsOK'
PROOF
<1>1. 0 <= MaxAuditAttempts
  BY SigningConstants
<1>2. Idle.pc # "retry" /\ Idle.kind \notin RecipientCommand
  BY IdleType DEF RecipientCommand
<1> QED
  BY <1>1, <1>2, IdleType, RequestStep

\* The record is not written by a command that stops or only reads.
LEMMA RecordUnchanged ==
  ASSUME RecordOK, UNCHANGED recordVars
  PROVE  RecordOK'
PROOF
  BY DEF RecordOK, recordVars

LEMMA DeliveryUnchanged ==
  ASSUME DeliveryOK, UNCHANGED deliveryVars
  PROVE  DeliveryOK'
PROOF
  BY DEF DeliveryOK, deliveryVars

LEMMA RefuseType ==
  ASSUME TypeInv, NEW s \in Sessions, Refuse(s)
  PROVE  TypeInv'
PROOF
<1>1. RequestsOK'
  BY TypeParts, IdleStep DEF Refuse
<1>2. RecordOK' /\ DeliveryOK' /\ lapsed' \in Nat
  BY TypeParts, RecordUnchanged, DeliveryUnchanged DEF Refuse
<1> QED
  BY <1>1, <1>2, TypeParts

LEMMA AuditConflictType ==
  ASSUME TypeInv, NEW s \in Sessions, AuditConflict(s)
  PROVE  TypeInv'
PROOF
<1>1. RequestsOK'
  <2>1. CASE req[s].tries < MaxAuditAttempts
    <3>1. req[s] \in request /\ (req[s].kind \in RecipientCommand => req[s].r \in Recipients)
      BY TypeParts DEF RequestsOK, RequestOK
    <3> DEFINE q == [req[s] EXCEPT !.pc = "retry"]
    <3>2. q \in request /\ q.tries = req[s].tries /\ q.kind = req[s].kind /\ q.r = req[s].r
      BY <3>1 DEF request
    <3>3. q.tries <= MaxAuditAttempts
      BY <2>1, <3>2, SigningConstants, TypeParts DEF RequestsOK
    <3>4. req' = [req EXCEPT ![s] = q]
      BY <2>1 DEF AuditConflict
    <3> HIDE DEF q
    <3> QED
      BY <2>1, <3>1, <3>2, <3>3, <3>4, TypeParts, RequestStep
  <2>2. CASE ~(req[s].tries < MaxAuditAttempts)
    BY <2>2, TypeParts, IdleStep DEF AuditConflict
  <2> QED
    BY <2>1, <2>2
<1>2. RecordOK' /\ DeliveryOK' /\ lapsed' \in Nat
  BY TypeParts, RecordUnchanged, DeliveryUnchanged DEF AuditConflict
<1> QED
  BY <1>1, <1>2, TypeParts

\* A publication that writes well-typed rows.
LEMMA PublishedType ==
  ASSUME TypeInv, NEW s \in Sessions, NEW n \in Nat, Published(s, n),
         env' \in EnvelopeStatus \ {"draft"},
         rcp' \in [Recipients -> recipientRow],
         pred' \in [Rows -> 0..MaxIssues],
         outbox' \in [Rows -> outboxRow]
  PROVE  TypeInv'
PROOF
<1>1. RequestsOK'
  BY TypeParts, IdleStep DEF Published
<1>2. RecordOK'
  <2>1. audit' \in Nat \ {0}
    BY TypeParts DEF RecordOK, Published
  <2> QED
    BY <2>1 DEF RecordOK
<1>3. DeliveryOK' /\ lapsed' \in Nat
  BY TypeParts, DeliveryUnchanged DEF Published
<1> QED
  BY <1>1, <1>2, <1>3, TypeParts

\* Preparing a command, for the first time or again.
LEMMA PrepareStep ==
  ASSUME TypeInv, NEW s \in Sessions,
         NEW kind \in Command \cup {"none"}, NEW r \in Recipients \cup {Nobody},
         NEW cap \in 0..MaxIssues, NEW status \in EnvelopeStatus, NEW at \in Nat,
         NEW tries \in Nat, tries <= MaxAuditAttempts,
         kind \in RecipientCommand => r \in Recipients,
         req' = [req EXCEPT ![s] = prepared(kind, r, cap, status, at, tries)]
  PROVE  RequestsOK'
PROOF
<1> DEFINE q == prepared(kind, r, cap, status, at, tries)
<1>1. q \in request
  BY PreparedType
<1>2. q.pc = "publish" /\ q.kind = kind /\ q.r = r /\ q.tries = tries
  BY DEF prepared
<1> HIDE DEF q
<1>3. req' = [req EXCEPT ![s] = q]
  BY DEF q
<1> QED
  BY <1>1, <1>2, <1>3, TypeParts, RequestStep

LEMMA BeginType ==
  ASSUME TypeInv, NEW s \in Sessions,
         NEW kind \in Command, NEW r \in Recipients \cup {Nobody},
         NEW cap \in 0..MaxIssues, NEW status \in EnvelopeStatus,
         kind \in RecipientCommand => r \in Recipients,
         Begin(s, kind, r, cap, status)
  PROVE  TypeInv'
PROOF
<1>1. lapsed \in Nat /\ 1 <= MaxAuditAttempts
  BY TypeParts, SigningConstants
<1>2. req' = [req EXCEPT ![s] = prepared(kind, r, cap, status, lapsed, 1)]
  BY DEF Begin
<1>3. RequestsOK'
  BY <1>1, <1>2, PrepareStep
<1>4. RecordOK' /\ DeliveryOK' /\ lapsed' \in Nat
  BY TypeParts, RecordUnchanged, DeliveryUnchanged DEF Begin
<1> QED
  BY <1>3, <1>4, TypeParts

LEMMA RetryType ==
  ASSUME TypeInv, NEW s \in Sessions, Retry(s)
  PROVE  TypeInv'
PROOF
<1> DEFINE q == req[s]
           at == IF q.kind = "expire" THEN q.at ELSE lapsed
<1>1. /\ q \in request /\ q.tries < MaxAuditAttempts
      /\ q.kind \in RecipientCommand => q.r \in Recipients
  BY TypeParts DEF RequestsOK, RequestOK, Retry
<1>2. /\ q.kind \in Command \cup {"none"} /\ q.r \in Recipients \cup {Nobody}
      /\ q.cap \in 0..MaxIssues /\ q.status \in EnvelopeStatus /\ at \in Nat
      /\ q.tries + 1 \in Nat
  BY <1>1, TypeParts DEF request
<1>3. q.tries + 1 <= MaxAuditAttempts
  BY <1>1, SigningConstants DEF request
<1>4. RequestsOK'
  <2>1. CASE req' = [req EXCEPT ![s] = prepared(q.kind, q.r, q.cap, q.status, at, q.tries + 1)]
    <3> HIDE DEF q, at
    <3> QED
      BY <2>1, <1>1, <1>2, <1>3, PrepareStep
  <2>2. CASE req' = [req EXCEPT ![s] = Idle]
    BY <2>2, TypeParts, IdleStep
  <2> QED
    BY <2>1, <2>2 DEF Retry
<1>5. RecordOK' /\ DeliveryOK' /\ lapsed' \in Nat
  BY TypeParts, RecordUnchanged, DeliveryUnchanged DEF Retry
<1> QED
  BY <1>4, <1>5, TypeParts

LEMMA OpenedType ==
  ASSUME TypeInv
  PROVE  opened \in EnvelopeStatus \ {"draft"}
PROOF
  BY DEF opened, TypeInv, TypeOK, EnvelopeStatus

LEMMA SendType ==
  ASSUME TypeInv, NEW s \in Sessions, publishSend(s)
  PROVE  TypeInv'
PROOF
<1>1. CASE Refuse(s)
  BY <1>1, RefuseType
<1>2. CASE sendEffects /\ Published(s, 1)
  <2>1. audit + 1 \in Nat /\ 1 \in 0..MaxIssues
    BY SigningConstants DEF TypeInv, TypeOK
  <2>2. rcp' \in [Recipients -> recipientRow]
    <3>1. ASSUME NEW r \in Recipients, NEW e \in Nat
          PROVE  [rcp[r] EXCEPT !.cap = 1, !.exp = e, !.revoked = FALSE] \in recipientRow
      <4>1. rcp[r] \in recipientRow
        BY DEF TypeInv, TypeOK
      <4> QED
        BY <2>1, <4>1 DEF recipientRow
    <3>2. \A r \in Recipients : rcp[r] \in recipientRow
      BY DEF TypeInv, TypeOK
    <3> QED
      BY <1>2, <2>1, <3>1, <3>2 DEF sendEffects
  <2>3. outbox' \in [Rows -> outboxRow]
    <3>1. \A i \in Rows : outbox[i] \in outboxRow
      BY DEF TypeInv, TypeOK
    <3> QED
      BY <1>2, <2>1, <3>1, RowTypes DEF sendEffects
  <2>4. env' \in EnvelopeStatus \ {"draft"}
    BY <1>2 DEF sendEffects, EnvelopeStatus
  <2>5. pred' \in [Rows -> 0..MaxIssues]
    BY <1>2 DEF sendEffects, TypeInv, TypeOK
  <2> QED
    BY <1>2, <2>2, <2>3, <2>4, <2>5, PublishedType
<1> QED
  BY <1>1, <1>2 DEF publishSend

\* A command in flight that addresses a recipient names one.
LEMMA Addressed ==
  ASSUME TypeInv, NEW s \in Sessions, NEW kind \in RecipientCommand, publishing(s, kind)
  PROVE  req[s].r \in Recipients /\ req[s].cap \in 0..MaxIssues
PROOF
<1>1. req[s] \in request
  BY DEF TypeInv, TypeOK
<1> QED
  BY <1>1 DEF TypeInv, RequestOK, publishing, request

LEMMA ViewType ==
  ASSUME TypeInv, NEW s \in Sessions, publishViewed(s)
  PROVE  TypeInv'
PROOF
<1> DEFINE q == req[s]
<1>1. CASE Refuse(s)
  BY <1>1, RefuseType
<1>2. CASE AuditConflict(s)
  BY <1>2, AuditConflictType
<1>3. CASE /\ rcp' = [rcp EXCEPT ![q.r].status = "viewed", ![q.r].viewedWith = q.cap]
           /\ env' = opened
           /\ UNCHANGED <<pred, outbox>>
           /\ Published(s, 1)
  <2>1. q.r \in Recipients /\ q.cap \in 0..MaxIssues
    BY Addressed DEF publishViewed, RecipientCommand
  <2>2. rcp' \in [Recipients -> recipientRow]
    <3> HIDE DEF q
    <3>1. rcp' = [rcp EXCEPT ![q.r] = [rcp[q.r] EXCEPT !.status = "viewed", !.viewedWith = q.cap]]
      BY <1>3, <2>1 DEF TypeInv, TypeOK
    <3>2. rcp[q.r] \in recipientRow
      BY <2>1 DEF TypeInv, TypeOK
    <3>3. [rcp[q.r] EXCEPT !.status = "viewed", !.viewedWith = q.cap] \in recipientRow
      BY <2>1, <3>2 DEF recipientRow, RecipientStatus
    <3> QED
      BY <3>1, <3>3 DEF TypeInv, TypeOK
  <2>3. env' \in EnvelopeStatus \ {"draft"}
    BY <1>3, OpenedType
  <2>4. pred' \in [Rows -> 0..MaxIssues] /\ outbox' \in [Rows -> outboxRow]
    BY <1>3 DEF TypeInv, TypeOK
  <2> QED
    BY <1>3, <2>2, <2>3, <2>4, PublishedType
<1> QED
  BY <1>1, <1>2, <1>3 DEF publishViewed

\* A decision's actor row, spelled out.
LEMMA ActorRow ==
  ASSUME TypeInv, NEW q, q.r \in Recipients
  PROVE  /\ completedActor(q) \in [Recipients -> recipientRow]
         /\ completedActor(q)[q.r] = [rcp[q.r] EXCEPT !.status = "completed", !.revoked = TRUE]
         /\ \A r \in Recipients \ {q.r} : completedActor(q)[r] = rcp[r]
PROOF
<1>1. rcp \in [Recipients -> recipientRow]
  BY DEF TypeInv, TypeOK
<1>2. completedActor(q) =
        [rcp EXCEPT ![q.r] = [rcp[q.r] EXCEPT !.status = "completed", !.revoked = TRUE]]
  BY <1>1 DEF completedActor
<1>3. [rcp[q.r] EXCEPT !.status = "completed", !.revoked = TRUE] \in recipientRow
  <2>1. rcp[q.r] \in recipientRow
    BY <1>1
  <2> QED
    BY <2>1 DEF recipientRow, RecipientStatus
<1> QED
  BY <1>1, <1>2, <1>3

LEMMA DecisionType ==
  ASSUME TypeInv, NEW s \in Sessions, NEW q, q.r \in Recipients, publishDecision(s, q)
  PROVE  TypeInv'
PROOF
<1>1. /\ rcp \in [Recipients -> recipientRow] /\ outbox \in [Rows -> outboxRow]
      /\ pred' \in [Rows -> 0..MaxIssues] /\ audit + 1 \in Nat
  BY DEF TypeInv, TypeOK, publishDecision
<1>2. CASE continueEffects(q) /\ Published(s, 1)
  <2>1. rcp' \in [Recipients -> recipientRow] /\ outbox' \in [Rows -> outboxRow]
    BY <1>1, <1>2, ActorRow DEF continueEffects
  <2>2. env' \in EnvelopeStatus \ {"draft"}
    BY <1>2, OpenedType DEF continueEffects
  <2> QED
    BY <1>1, <1>2, <2>1, <2>2, PublishedType
<1>3. CASE releaseEffects(q) /\ Published(s, 1)
  <2>1. rcp' \in [Recipients -> recipientRow]
    <3>1. ASSUME NEW r \in Recipients PROVE [rcp[r] EXCEPT !.exp = audit + 1] \in recipientRow
      <4>1. rcp[r] \in recipientRow
        BY <1>1
      <4>2. PICK e \in Nat : e = audit + 1
        BY <1>1
      <4> QED
        BY <4>1, <4>2 DEF recipientRow
    <3>2. completedActor(q) \in [Recipients -> recipientRow]
      BY ActorRow
    <3> QED
      BY <1>3, <3>1, <3>2 DEF releaseEffects
  <2>2. outbox' \in [Rows -> outboxRow]
    <3>1. ASSUME NEW i \in Rows
          PROVE  [outbox[i] EXCEPT !.status = "pending", !.reserved = audit + 1] \in outboxRow
      <4>1. outbox[i] \in outboxRow
        BY <1>1
      <4>2. PICK e \in Nat : e = audit + 1
        BY <1>1
      <4> QED
        BY <4>1, <4>2 DEF outboxRow
    <3> QED
      BY <1>1, <1>3, <3>1 DEF releaseEffects
  <2>3. env' \in EnvelopeStatus \ {"draft"}
    BY <1>3, OpenedType DEF releaseEffects
  <2> QED
    BY <1>1, <1>3, <2>1, <2>2, <2>3, PublishedType
<1>4. CASE completeEffects(q) /\ Published(s, 2)
  <2>1. rcp' \in [Recipients -> recipientRow]
    BY <1>4, ActorRow, RevokeType DEF completeEffects
  <2>2. outbox' \in [Rows -> outboxRow]
    BY <1>1, <1>4, CleanupType DEF completeEffects
  <2>3. env' \in EnvelopeStatus \ {"draft"}
    BY <1>4 DEF completeEffects, EnvelopeStatus
  <2> QED
    BY <1>1, <1>4, <2>1, <2>2, <2>3, PublishedType
<1> QED
  BY <1>2, <1>3, <1>4 DEF publishDecision

LEMMA ApproveType ==
  ASSUME TypeInv, NEW s \in Sessions, publishApproved(s)
  PROVE  TypeInv'
PROOF
<1>1. req[s].r \in Recipients
  BY Addressed DEF publishApproved, RecipientCommand
<1>2. CASE publishDecision(s, req[s])
  BY <1>1, <1>2, DecisionType
<1> QED
  BY <1>2, RefuseType, AuditConflictType DEF publishApproved

LEMMA SignType ==
  ASSUME TypeInv, NEW s \in Sessions, publishSigned(s)
  PROVE  TypeInv'
PROOF
<1>1. req[s].r \in Recipients
  BY Addressed DEF publishSigned, RecipientCommand
<1>2. CASE publishDecision(s, req[s])
  BY <1>1, <1>2, DecisionType
<1> QED
  BY <1>2, RefuseType, AuditConflictType DEF publishSigned

\* The write shared by the commands that end an envelope early.
LEMMA TerminateType ==
  ASSUME TypeInv, NEW s \in Sessions, NEW rows \in [Recipients -> recipientRow], NEW R,
         rcp' = revoke(rows, R), outbox' = terminalCleanup,
         env' \in Terminal, UNCHANGED pred, Published(s, 1)
  PROVE  TypeInv'
PROOF
<1>1. rcp' \in [Recipients -> recipientRow]
  BY RevokeType
<1>2. outbox' \in [Rows -> outboxRow] /\ pred' \in [Rows -> 0..MaxIssues]
  BY CleanupType DEF TypeInv, TypeOK
<1>3. env' \in EnvelopeStatus \ {"draft"}
  BY DEF Terminal, EnvelopeStatus
<1> QED
  BY <1>1, <1>2, <1>3, PublishedType

LEMMA DeclineType ==
  ASSUME TypeInv, NEW s \in Sessions, publishDeclined(s)
  PROVE  TypeInv'
PROOF
<1> DEFINE q == req[s]
           rows == [rcp EXCEPT ![q.r].status = "declined", ![q.r].revoked = TRUE]
<1>1. CASE /\ rcp' = revoke(rows, q.revoked) /\ outbox' = terminalCleanup
           /\ env' = "declined" /\ UNCHANGED pred /\ Published(s, 1)
  <2>1. q.r \in Recipients
    BY Addressed DEF publishDeclined, RecipientCommand
  <2>2. rows \in [Recipients -> recipientRow]
    <3> HIDE DEF q
    <3>1. rcp \in [Recipients -> recipientRow]
      BY DEF TypeInv, TypeOK
    <3>2. rows = [rcp EXCEPT ![q.r] = [rcp[q.r] EXCEPT !.status = "declined", !.revoked = TRUE]]
      BY <2>1, <3>1
    <3>3. rcp[q.r] \in recipientRow
      BY <2>1, <3>1
    <3>4. [rcp[q.r] EXCEPT !.status = "declined", !.revoked = TRUE] \in recipientRow
      BY <3>3 DEF recipientRow, RecipientStatus
    <3> QED
      BY <3>1, <3>2, <3>4
  <2>3. env' \in Terminal
    BY <1>1 DEF Terminal
  <2> HIDE DEF rows
  <2> QED
    BY <1>1, <2>2, <2>3, TerminateType
<1> QED
  BY <1>1, RefuseType, AuditConflictType DEF publishDeclined

LEMMA VoidType ==
  ASSUME TypeInv, NEW s \in Sessions, publishVoid(s)
  PROVE  TypeInv'
PROOF
<1>1. CASE /\ rcp' = revoke(rcp, req[s].revoked) /\ outbox' = terminalCleanup
           /\ env' = "voided" /\ UNCHANGED pred /\ Published(s, 1)
  <2>1. rcp \in [Recipients -> recipientRow] /\ env' \in Terminal
    BY <1>1 DEF TypeInv, TypeOK, Terminal
  <2> QED
    BY <1>1, <2>1, TerminateType
<1> QED
  BY <1>1, RefuseType, AuditConflictType DEF publishVoid

LEMMA ExpiryType ==
  ASSUME TypeInv, NEW s \in Sessions, publishEnvelopeExpiry(s)
  PROVE  TypeInv'
PROOF
<1>1. CASE /\ rcp' = revoke(rcp, req[s].revoked) /\ outbox' = terminalCleanup
           /\ env' = "expired" /\ UNCHANGED pred /\ Published(s, 1)
  <2>1. rcp \in [Recipients -> recipientRow] /\ env' \in Terminal
    BY <1>1 DEF TypeInv, TypeOK, Terminal
  <2> QED
    BY <1>1, <2>1, TerminateType
<1> QED
  BY <1>1, RefuseType, AuditConflictType DEF publishEnvelopeExpiry

\* The rows a reissue writes, spelled out.
reissuedRows(q, k) ==
  /\ rcp' = [rcp EXCEPT ![q.r].cap = k, ![q.r].exp = audit + 1, ![q.r].revoked = FALSE]
  /\ pred' = [pred EXCEPT ![<<q.r, k>>] = q.cap]
  /\ outbox' = [i \in Rows |->
                  IF i = <<q.r, k>> THEN NewRow("pending", audit + 1)
                  ELSE IF i[1] = q.r /\ supersedable(outbox[i]) THEN scrubbed(outbox[i])
                  ELSE outbox[i]]
  /\ UNCHANGED env

LEMMA ReissueType ==
  ASSUME TypeInv, NEW s \in Sessions, publishReissue(s)
  PROVE  TypeInv'
PROOF
<1> DEFINE q == req[s]
           k == rcp[q.r].cap + 1
<1>1. CASE k <= MaxIssues /\ reissuedRows(q, k) /\ Published(s, 1)
  <2>1. q.r \in Recipients /\ q.cap \in 0..MaxIssues
    BY Addressed DEF publishReissue, RecipientCommand
  <2>2. /\ rcp \in [Recipients -> recipientRow] /\ pred \in [Rows -> 0..MaxIssues]
        /\ outbox \in [Rows -> outboxRow] /\ env \in EnvelopeStatus \ {"draft"}
    BY DEF TypeInv, TypeOK
  <2>3. rcp[q.r] \in recipientRow
    BY <2>1, <2>2
  <2>4. k \in 0..MaxIssues
    BY <1>1, <2>3, SigningConstants DEF recipientRow
  <2>5. PICK e \in Nat : e = audit + 1
    BY DEF TypeInv, TypeOK
  <2> HIDE DEF q, k
  <2>6. rcp' \in [Recipients -> recipientRow]
    <3>1. rcp' = [rcp EXCEPT ![q.r] = [rcp[q.r] EXCEPT !.cap = k, !.exp = e, !.revoked = FALSE]]
      BY <1>1, <2>1, <2>2, <2>5 DEF reissuedRows
    <3>2. [rcp[q.r] EXCEPT !.cap = k, !.exp = e, !.revoked = FALSE] \in recipientRow
      BY <2>3, <2>4 DEF recipientRow
    <3> QED
      BY <2>2, <3>1, <3>2
  <2>7. pred' \in [Rows -> 0..MaxIssues]
    BY <1>1, <2>1, <2>2 DEF reissuedRows
  <2>8. outbox' \in [Rows -> outboxRow]
    <3>1. \A i \in Rows : outbox[i] \in outboxRow /\ scrubbed(outbox[i]) \in outboxRow
      BY <2>2, RowTypes
    <3>2. NewRow("pending", audit + 1) \in outboxRow
      BY <2>5, RowTypes
    <3> QED
      BY <1>1, <3>1, <3>2 DEF reissuedRows
  <2>9. env' \in EnvelopeStatus \ {"draft"}
    BY <1>1, <2>2 DEF reissuedRows
  <2> QED
    BY <1>1, <2>6, <2>7, <2>8, <2>9, PublishedType
<1> QED
  BY <1>1, RefuseType, AuditConflictType DEF publishReissue, reissuedRows

\* One session's step.
LEMMA SessionType ==
  ASSUME TypeInv, NEW s \in Sessions, session(s)
  PROVE  TypeInv'
PROOF
<1> USE DEF RecipientCommand, Command
<1>1. 0 \in 0..MaxIssues /\ "draft" \in EnvelopeStatus /\ "ready" \in EnvelopeStatus
  BY SigningConstants DEF EnvelopeStatus
<1>2. CASE beginSend(s)
  BY <1>1, <1>2, BeginType DEF beginSend
<1>3. CASE beginRecipient(s)
  <2>1. PICK kind \in Commands \cap {"view", "approve", "sign", "decline"}, i \in mailed :
          Begin(s, kind, i[1], i[2], "draft")
    BY <1>3 DEF beginRecipient
  <2>2. i[1] \in Recipients /\ i[2] \in 0..MaxIssues
    BY SigningConstants DEF TypeInv, TypeOK, Rows
  <2> QED
    BY <1>1, <2>1, <2>2, BeginType
<1>4. CASE beginVoid(s)
  BY <1>1, <1>4, BeginType DEF beginVoid
<1>5. CASE beginReissue(s)
  BY <1>1, <1>5, BeginType DEF beginReissue
<1>6. CASE drainExpiredEnvelopes(s)
  BY <1>1, <1>6, BeginType DEF drainExpiredEnvelopes
<1> QED
  BY <1>2, <1>3, <1>4, <1>5, <1>6, RetryType, SendType, ViewType, ApproveType, SignType,
     DeclineType, VoidType, ReissueType, ExpiryType DEF session

\* What the delivery side may write: outbox rows, tasks and mail.
LEMMA DeliveryStep ==
  ASSUME TypeInv, UNCHANGED <<env, audit, rcp, pred, lapsed, req>>,
         outbox' \in [Rows -> outboxRow], DeliveryOK'
  PROVE  TypeInv'
PROOF
  BY DEF TypeInv, TypeOK, RequestOK, DeliveryOK

LEMMA DrainType ==
  ASSUME TypeInv, NEW dead, NEW claimed, claimPendingInvitations(dead, claimed)
  PROVE  TypeInv'
PROOF
<1>1. outbox \in [Rows -> outboxRow] /\ lapsed \in Nat /\ tasks \subseteq task
  BY DEF TypeInv, TypeOK
<1>2. outbox' \in [Rows -> outboxRow]
  BY <1>1, RowTypes DEF claimPendingInvitations
<1>3. tasks' \subseteq task
  <2>1. ASSUME NEW i \in claimed
        PROVE  [r |-> i[1], k |-> i[2], token |-> outbox[i].attempts + 1, at |-> lapsed,
                pc |-> "claimed"] \in task
    <3>1. i \in Rows
      BY DEF claimPendingInvitations, claimCandidates
    <3>2. i[1] \in Recipients /\ i[2] \in 1..MaxIssues
      BY <3>1 DEF Rows
    <3>3. outbox[i].attempts + 1 \in Nat
      BY <1>1, <3>1 DEF outboxRow
    <3> QED
      BY <1>1, <3>2, <3>3 DEF task
  <2> QED
    BY <1>1, <2>1 DEF claimPendingInvitations
<1> QED
  BY <1>2, <1>3, DeliveryStep DEF claimPendingInvitations, DeliveryOK, TypeInv, TypeOK

LEMMA TaskRow ==
  ASSUME TypeInv, NEW t \in tasks
  PROVE  t \in task /\ rowOf(t) \in Rows /\ outbox[rowOf(t)] \in outboxRow
PROOF
  BY DEF TypeInv, TypeOK, task, rowOf, Rows

LEMMA StepType ==
  ASSUME TypeInv, NEW t \in tasks,
         NEW pc \in {"claimed", "verified", "accepted", "retryable", "permanent"}, Step(t, pc)
  PROVE  tasks' \subseteq task
PROOF
<1>1. [t EXCEPT !.pc = pc] \in task
  BY TaskRow DEF task
<1> QED
  BY <1>1 DEF Step, TypeInv, TypeOK

LEMMA DeliverClaimType ==
  ASSUME TypeInv, NEW t \in tasks, deliverClaim(t)
  PROVE  TypeInv'
PROOF
<1>1. /\ outbox \in [Rows -> outboxRow] /\ tasks \subseteq task /\ mailed \subseteq Rows
      /\ crashes \in 0..MaxCrashes /\ overruns \in 0..MaxOverruns
  BY DEF TypeInv, TypeOK
<1>2. CASE readClaimedInvitation(t)
  <2>1. tasks' \subseteq task
    BY <1>1, <1>2, StepType DEF readClaimedInvitation
  <2> QED
    BY <1>1, <1>2, <2>1, DeliveryStep DEF readClaimedInvitation, recordVars, DeliveryOK
<1>3. CASE sendMail(t)
  <2>1. tasks' \subseteq task
    BY <1>3, StepType DEF sendMail
  <2>2. mailed' \subseteq Rows
    BY <1>1, <1>3, TaskRow DEF sendMail
  <2> QED
    BY <1>1, <1>3, <2>1, <2>2, DeliveryStep DEF sendMail, recordVars, DeliveryOK
<1>4. CASE completeInvitationDelivery(t)
  <2>1. PICK row \in outboxRow : row = scrubbed(outbox[rowOf(t)])
    BY TaskRow, RowTypes
  <2>2. [row EXCEPT !.status = "delivered"] \in outboxRow
    BY DEF outboxRow
  <2>3. outbox' \in [Rows -> outboxRow]
    BY <1>1, <1>4, <2>1, <2>2, TaskRow DEF completeInvitationDelivery
  <2> QED
    BY <1>1, <1>4, <2>3, DeliveryStep DEF completeInvitationDelivery, DeliveryOK
<1>5. CASE failInvitationDelivery(t)
  <2>1. [outbox[rowOf(t)] EXCEPT !.status = "failed", !.token = NoToken, !.stale = FALSE]
          \in outboxRow
    BY TaskRow DEF outboxRow, NoToken
  <2>2. scrubbed(outbox[rowOf(t)]) \in outboxRow
    BY TaskRow, RowTypes
  <2>3. outbox' \in [Rows -> outboxRow]
    BY <1>1, <1>5, <2>1, <2>2, TaskRow DEF failInvitationDelivery
  <2> QED
    BY <1>1, <1>5, <2>3, DeliveryStep DEF failInvitationDelivery, DeliveryOK
<1> QED
  BY <1>2, <1>3, <1>4, <1>5 DEF deliverClaim

LEMMA EnvironmentType ==
  ASSUME TypeInv,
         (\E t \in tasks : crash(t)) \/ (\E i \in Rows : leaseExpires(i)) \/ lapse
  PROVE  TypeInv'
PROOF
<1>1. /\ outbox \in [Rows -> outboxRow] /\ tasks \subseteq task /\ mailed \subseteq Rows
      /\ crashes \in 0..MaxCrashes /\ overruns \in 0..MaxOverruns
  BY DEF TypeInv, TypeOK
<1>2. ASSUME NEW t \in tasks, crash(t) PROVE TypeInv'
  <2>1. crashes' \in 0..MaxCrashes
    BY <1>1, <1>2, SigningConstants DEF crash
  <2> QED
    BY <1>1, <1>2, <2>1, DeliveryStep DEF crash, recordVars, DeliveryOK
<1>3. ASSUME NEW i \in Rows, leaseExpires(i) PROVE TypeInv'
  <2>1. overruns' \in 0..MaxOverruns
    BY <1>1, <1>3, SigningConstants DEF leaseExpires
  <2>2. outbox' \in [Rows -> outboxRow]
    <3>1. outbox[i] \in outboxRow
      BY <1>1
    <3>2. [outbox[i] EXCEPT !.stale = TRUE] \in outboxRow
      BY <3>1 DEF outboxRow
    <3> QED
      BY <1>1, <1>3, <3>2 DEF leaseExpires
  <2> QED
    BY <1>1, <1>3, <2>1, <2>2, DeliveryStep DEF leaseExpires, DeliveryOK
<1>4. CASE lapse
  <2> DEFINE upcoming == {rcp[r].exp : r \in {q \in Recipients : live(rcp[q], lapsed)}}
  <2>1. upcoming \in SUBSET Nat /\ upcoming # {}
    BY <1>4 DEF lapse, TypeInv, TypeOK, recipientRow
  <2>2. lapsed' \in Nat
    BY <1>4, <2>1, LeastOfNaturals DEF lapse
  <2> QED
    BY <1>4, <2>2, TypeParts, RecordUnchanged, DeliveryUnchanged DEF lapse, RequestsOK, RequestOK
<1> QED
  BY <1>2, <1>3, <1>4

\* TypeInv is an inductive invariant.
LEMMA TypeInvariant == Spec => []TypeInv
PROOF
<1>1. Init => TypeInv
  <2> SUFFICES ASSUME Init PROVE TypeInv
    OBVIOUS
  <2>1. rcp \in [Recipients -> recipientRow]
    BY SigningConstants DEF Init, recipientRow, RecipientStatus
  <2>2. outbox \in [Rows -> outboxRow]
    BY RowTypes DEF Init
  <2>3. pred \in [Rows -> 0..MaxIssues]
    BY SigningConstants DEF Init
  <2>4. RecordOK
    BY <2>1, <2>2, <2>3 DEF Init, RecordOK, EnvelopeStatus
  <2>5. RequestsOK
    BY IdleType, SigningConstants DEF Init, RequestsOK, RequestOK, RecipientCommand
  <2>6. lapsed \in Nat /\ DeliveryOK
    BY SigningConstants DEF Init, DeliveryOK
  <2> QED
    BY <2>4, <2>5, <2>6, TypeParts
<1>2. TypeInv /\ [Next]_vars => TypeInv'
  <2>1. ASSUME TypeInv, UNCHANGED vars PROVE TypeInv'
    BY <2>1 DEF vars, TypeInv, TypeOK, RequestOK
  <2>2. ASSUME TypeInv, Next PROVE TypeInv'
    BY <2>2, SessionType, DrainType, DeliverClaimType, EnvironmentType DEF Next, drain
  <2> QED
    BY <2>1, <2>2
<1> QED
  BY <1>1, <1>2, PTL DEF Spec

\* Rows, requests, tasks and counters always have their types, and no
\* command is attempted more than MaxAuditAttempts times.
THEOREM TypeCorrect == Spec => []TypeOK
PROOF
<1>1. TypeInv => TypeOK
  BY DEF TypeInv
<1> QED
  BY <1>1, TypeInvariant, PTL

-----------------------------------------------------------------------------
(***************************************************************************)
(* The issuance ledger.                                                    *)
(***************************************************************************)

\* Only a reissue writes the ledger, and it names the current capability.
LEMMA LedgerStep ==
  ASSUME TypeInv, [Next]_vars
  PROVE  \/ UNCHANGED pred
         \/ \E r \in Recipients :
              pred' = [pred EXCEPT ![<<r, rcp[r].cap + 1>>] = rcp[r].cap]
PROOF
<1>1. ASSUME NEW s \in Sessions, publishReissue(s)
      PROVE  \/ UNCHANGED pred
             \/ \E r \in Recipients :
                  pred' = [pred EXCEPT ![<<r, rcp[r].cap + 1>>] = rcp[r].cap]
  <2>1. req[s].r \in Recipients
    BY <1>1, Addressed DEF publishReissue, RecipientCommand
  <2> QED
    BY <1>1, <2>1 DEF publishReissue, currentCapability, Refuse, AuditConflict, recordVars
<1>2. ASSUME NEW s \in Sessions, session(s), ~publishReissue(s)
      PROVE  UNCHANGED pred
  BY <1>2 DEF session, beginSend, beginRecipient, beginVoid, beginReissue, drainExpiredEnvelopes,
     Begin, Retry, publishSend, sendEffects, publishViewed, publishApproved, publishSigned,
     publishDecision, publishDeclined, publishVoid, publishEnvelopeExpiry, Refuse, AuditConflict,
     recordVars
<1>3. ASSUME drain \/ (\E t \in tasks : deliverClaim(t) \/ crash(t))
               \/ (\E i \in Rows : leaseExpires(i)) \/ lapse
      PROVE  UNCHANGED pred
  BY <1>3 DEF drain, claimPendingInvitations, deliverClaim, readClaimedInvitation, sendMail,
     completeInvitationDelivery, failInvitationDelivery, crash, leaseExpires, lapse, recordVars
<1> QED
  BY <1>1, <1>2, <1>3 DEF Next, vars

\* However many reissues are in flight, each entry of the issuance ledger
\* names the capability issued just before it.
THEOREM LineageCorrect == Spec => []LineageLinear
PROOF
<1>1. Init => LineageLinear
  BY DEF Init, LineageLinear
<1>2. ASSUME TypeInv, LineageLinear, [Next]_vars PROVE LineageLinear'
  <2>1. CASE UNCHANGED pred
    BY <1>2, <2>1 DEF LineageLinear
  <2>2. ASSUME NEW r \in Recipients, pred' = [pred EXCEPT ![<<r, rcp[r].cap + 1>>] = rcp[r].cap]
        PROVE  LineageLinear'
    <3> SUFFICES ASSUME NEW i \in Rows, pred'[i] # 0 PROVE pred'[i] = i[2] - 1
      BY DEF LineageLinear
    <3>1. PICK c \in Nat : c = rcp[r].cap
      BY <1>2 DEF TypeInv, TypeOK, recipientRow
    <3>2. pred'[i] = IF i = <<r, c + 1>> THEN c ELSE pred[i]
      BY <1>2, <2>2, <3>1 DEF TypeInv, TypeOK
    <3>3. CASE i = <<r, c + 1>>
      BY <3>2, <3>3
    <3>4. CASE i # <<r, c + 1>>
      BY <1>2, <3>2, <3>4 DEF LineageLinear
    <3> QED
      BY <3>3, <3>4
  <2> QED
    BY <1>2, <2>1, <2>2, LedgerStep
<1> QED
  BY <1>1, <1>2, TypeInvariant, PTL DEF Spec

-----------------------------------------------------------------------------
(***************************************************************************)
(* The clock.  A command's clock reading is never ahead of the clock.      *)
(***************************************************************************)
ReadingsPast == \A s \in Sessions : req[s].at <= lapsed

LEMMA ReadingSet ==
  ASSUME TypeInv, ReadingsPast, NEW s \in Sessions, NEW q, req' = [req EXCEPT ![s] = q],
         q.at <= lapsed, UNCHANGED lapsed
  PROVE  ReadingsPast'
PROOF
<1>1. \A z \in Sessions : req'[z] = q \/ req'[z] = req[z]
  BY DEF TypeInv, TypeOK
<1> QED
  BY <1>1 DEF ReadingsPast

LEMMA ReadingPrepared ==
  ASSUME NEW kind, NEW r, NEW cap, NEW status, NEW at, NEW tries
  PROVE  prepared(kind, r, cap, status, at, tries).at = at
PROOF
  BY DEF prepared

LEMMA ReadingIdle ==
  ASSUME TypeInv, ReadingsPast, NEW s \in Sessions, req' = [req EXCEPT ![s] = Idle],
         UNCHANGED lapsed
  PROVE  ReadingsPast'
PROOF
<1>1. Idle.at <= lapsed
  BY DEF Idle, TypeInv, TypeOK
<1> QED
  BY <1>1, ReadingSet

LEMMA ReadingConflict ==
  ASSUME TypeInv, ReadingsPast, NEW s \in Sessions, AuditConflict(s)
  PROVE  ReadingsPast'
PROOF
<1> DEFINE q == [req[s] EXCEPT !.pc = "retry"]
<1>1. req[s] \in request
  BY DEF TypeInv, TypeOK
<1>2. q.at = req[s].at
  BY <1>1 DEF request
<1>3. CASE req' = [req EXCEPT ![s] = q]
  <2> HIDE DEF q
  <2> QED
    BY <1>2, <1>3, ReadingSet DEF AuditConflict, ReadingsPast
<1>4. CASE req' = [req EXCEPT ![s] = Idle]
  BY <1>4, ReadingIdle DEF AuditConflict
<1> QED
  BY <1>3, <1>4 DEF AuditConflict

LEMMA ReadingSession ==
  ASSUME TypeInv, ReadingsPast, NEW s \in Sessions, session(s)
  PROVE  ReadingsPast'
PROOF
<1>1. lapsed \in Nat /\ req[s] \in request
  BY DEF TypeInv, TypeOK
<1>2. ASSUME NEW kind, NEW r, NEW cap, NEW status, Begin(s, kind, r, cap, status)
      PROVE  ReadingsPast'
  <2>1. PICK q : q = prepared(kind, r, cap, status, lapsed, 1) /\ q.at = lapsed
    BY ReadingPrepared
  <2>2. q.at <= lapsed
    BY <1>1, <2>1
  <2>3. req' = [req EXCEPT ![s] = q]
    BY <1>2, <2>1 DEF Begin
  <2>4. UNCHANGED lapsed
    BY <1>2 DEF Begin
  <2> QED
    BY <2>2, <2>3, <2>4, ReadingSet
<1>3. CASE Retry(s)
  <2> DEFINE at == IF req[s].kind = "expire" THEN req[s].at ELSE lapsed
  <2>1. at <= lapsed
    BY <1>1 DEF ReadingsPast
  <2>2. PICK q : /\ q = prepared(req[s].kind, req[s].r, req[s].cap, req[s].status, at, req[s].tries + 1)
                 /\ q.at = at
    BY ReadingPrepared
  <2>3. req' = [req EXCEPT ![s] = q] \/ req' = [req EXCEPT ![s] = Idle]
    BY <1>3, <2>2 DEF Retry
  <2>4. UNCHANGED lapsed
    BY <1>3 DEF Retry
  <2> QED
    BY <2>1, <2>2, <2>3, <2>4, ReadingSet, ReadingIdle
<1>4. CASE Refuse(s) \/ \E n \in {1, 2} : Published(s, n)
  BY <1>4, ReadingIdle DEF Refuse, Published
<1>5. CASE beginSend(s) \/ beginRecipient(s) \/ beginVoid(s) \/ beginReissue(s)
             \/ drainExpiredEnvelopes(s)
  BY <1>2, <1>5
  DEF beginSend, beginRecipient, beginVoid, beginReissue, drainExpiredEnvelopes
<1>6. CASE publishSend(s) \/ publishViewed(s) \/ publishApproved(s) \/ publishSigned(s)
  BY <1>4, <1>6, ReadingConflict
  DEF publishSend, publishViewed, publishApproved, publishSigned, publishDecision
<1>7. CASE publishDeclined(s) \/ publishVoid(s) \/ publishReissue(s) \/ publishEnvelopeExpiry(s)
  BY <1>4, <1>7, ReadingConflict
  DEF publishDeclined, publishVoid, publishReissue, publishEnvelopeExpiry
<1> QED
  BY <1>3, <1>5, <1>6, <1>7 DEF session

LEMMA ReadingStep ==
  ASSUME TypeInv, ReadingsPast, [Next]_vars
  PROVE  ReadingsPast'
PROOF
<1>1. CASE UNCHANGED <<req, lapsed>>
  BY <1>1 DEF ReadingsPast
<1>2. CASE lapse
  <2> DEFINE upcoming == {rcp[r].exp : r \in {q \in Recipients : live(rcp[q], lapsed)}}
  <2>1. upcoming \in SUBSET Nat /\ upcoming # {} /\ \A e \in upcoming : e > lapsed
    BY <1>2 DEF lapse, live, TypeInv, TypeOK, recipientRow
  <2>2. lapsed' = Least(upcoming) /\ req' = req
    BY <1>2 DEF lapse
  <2> HIDE DEF upcoming
  <2>3. Least(upcoming) \in upcoming
    BY <2>1, LeastOfNaturals
  <2>4. lapsed' \in Nat /\ lapsed' > lapsed
    BY <2>1, <2>2, <2>3
  <2>5. lapsed \in Nat /\ \A s \in Sessions : req[s].at \in Nat
    BY DEF TypeInv, TypeOK, request
  <2> QED
    BY <2>2, <2>4, <2>5 DEF ReadingsPast
<1>3. CASE drain \/ (\E t \in tasks : crash(t)) \/ (\E i \in Rows : leaseExpires(i))
  BY <1>1, <1>3 DEF drain, claimPendingInvitations, crash, leaseExpires, recordVars
<1>4. CASE \E t \in tasks : deliverClaim(t)
  <2>1. UNCHANGED <<req, lapsed>>
    BY <1>4 DEF deliverClaim, readClaimedInvitation, sendMail, completeInvitationDelivery,
       failInvitationDelivery, recordVars
  <2> QED
    BY <1>1, <2>1
<1> QED
  BY <1>1, <1>2, <1>3, <1>4, ReadingSession DEF Next, vars

\* The steps other than the expiry publication.
LEMMA OnlyExpiryExpires ==
  ASSUME [Next]_vars, env' = "expired", env # "expired"
  PROVE  \E s \in Sessions : publishEnvelopeExpiry(s) /\ expiryHolds(req[s])
PROOF
<1>1. ASSUME NEW s \in Sessions, session(s)
      PROVE  publishEnvelopeExpiry(s) /\ expiryHolds(req[s])
  BY <1>1 DEF session, beginSend, beginRecipient, beginVoid, beginReissue, drainExpiredEnvelopes,
     Begin, Retry, publishSend, sendEffects, publishViewed, publishApproved, publishSigned, opened,
     publishDecision, continueEffects, releaseEffects, completeEffects, publishDeclined, publishVoid,
     publishReissue, publishEnvelopeExpiry, Refuse, AuditConflict, recordVars
<1>2. ASSUME drain \/ (\E t \in tasks : crash(t)) \/ (\E i \in Rows : leaseExpires(i)) \/ lapse
      PROVE  UNCHANGED env
  BY <1>2 DEF drain, claimPendingInvitations, crash, leaseExpires, lapse, recordVars
<1>3. ASSUME NEW t \in tasks, deliverClaim(t) PROVE UNCHANGED env
  BY <1>3 DEF deliverClaim, readClaimedInvitation, sendMail, completeInvitationDelivery,
     failInvitationDelivery, recordVars
<1>4. CASE Next
  BY <1>1, <1>2, <1>3, <1>4, ZenonT(60) DEF Next
<1>5. ~(UNCHANGED vars)
  BY DEF vars
<1> QED
  BY <1>4, <1>5, Zenon

\* With however old a clock reading and however old a read, the expiry drain
\* never expires an envelope while an outstanding recipient's released
\* capability has time left.
THEOREM ExpiryCorrect == Spec => ExpiryOnlyWhenLapsed
PROOF
<1>1. Init => ReadingsPast
  BY DEF Init, ReadingsPast, Idle
<1>2. ASSUME TypeInv, ReadingsPast, [Next]_vars
      PROVE  [env' = "expired" /\ env # "expired" =>
                \A r \in Recipients : outstanding(r) => rcp[r].exp <= lapsed]_vars
  <2> SUFFICES ASSUME env' = "expired", env # "expired", NEW r \in Recipients, outstanding(r)
               PROVE  rcp[r].exp <= lapsed
    OBVIOUS
  <2>1. PICK s \in Sessions : expiryHolds(req[s])
    BY <1>2, OnlyExpiryExpires
  <2>2. rcp[r].exp \in Nat /\ req[s].at \in Nat /\ lapsed \in Nat /\ req[s].at <= lapsed
    BY <1>2 DEF TypeInv, TypeOK, recipientRow, request, ReadingsPast
  <2>3. ~(rcp[r].exp > req[s].at)
    BY <2>1 DEF expiryHolds, isExpirable, abandoned
  <2> QED
    BY <2>2, <2>3
<1> QED
  BY <1>1, <1>2, TypeInvariant, ReadingStep, PTL DEF Spec, ExpiryOnlyWhenLapsed

-----------------------------------------------------------------------------
(***************************************************************************)
(* The routing theorem of EnvelopeSigning, and with it the refinement of   *)
(* EnvelopeLifecycle.                                                      *)
(***************************************************************************)

(***************************************************************************)
(* ReleasedExactly is not inductive.  A release opens exactly the recipients*)
(* of the next order because all of them are still untouched since the send:*)
(* they hold a capability, not revoked, and have not acted.                *)
(***************************************************************************)
Unsent == env = "ready" =>
  \A r \in Recipients : rcp[r].status = "pending" /\ rcp[r].exp = 0

Untouched == env \in Active =>
  \A r \in Invited :
    /\ rcp[r].cap # 0
    /\ rcp[r].exp = 0 => rcp[r].status = "pending" /\ ~rcp[r].revoked

OnlyInvited == \A r \in Recipients : rcp[r].exp # 0 => r \in Invited

OnlyActionable == \A r \in Recipients : rcp[r].status = "completed" => r \in Actionable

RoutingInv == Unsent /\ Untouched /\ OnlyInvited /\ OnlyActionable /\ ReleasedExactly

\* What most steps keep: who has a link and who has completed; and, of a
\* recipient whose link is still closed, everything.
SameLinks ==
  \A r \in Recipients :
    /\ rcp'[r].exp = 0 <=> rcp[r].exp = 0
    /\ rcp'[r].status = "completed" <=> rcp[r].status = "completed"

SameClosed ==
  \A r \in Recipients :
    /\ rcp[r].cap # 0 => rcp'[r].cap # 0
    /\ rcp[r].exp = 0 => rcp'[r] = rcp[r]

SameGrants ==
  \A r \in Recipients :
    rcp'[r].cap = rcp[r].cap /\ rcp'[r].exp = rcp[r].exp /\ rcp'[r].revoked = rcp[r].revoked

\* No step that leaves the envelope and recipient rows alone matters.
LEMMA RoutingUnchanged ==
  ASSUME RoutingInv, UNCHANGED <<env, rcp>>
  PROVE  RoutingInv'
PROOF
  BY DEF RoutingInv, Unsent, Untouched, OnlyInvited, OnlyActionable, ReleasedExactly

\* An envelope that ends keeps only what holds of every status.
LEMMA RoutingEnded ==
  ASSUME RoutingInv, env' \in Terminal,
         \A r \in Recipients : /\ rcp'[r].exp = 0 <=> rcp[r].exp = 0
                               /\ rcp'[r].status = "completed" => r \in Actionable
  PROVE  RoutingInv'
PROOF
  BY DEF RoutingInv, Unsent, Untouched, OnlyInvited, OnlyActionable, ReleasedExactly,
         Terminal, Active

\* The rows a send leaves.
LEMMA SentRows ==
  ASSUME TypeInv, sendEffects
  PROVE  /\ audit + 1 \in Nat \ {0}
         /\ \A r \in Invited :
              /\ rcp'[r].cap = 1 /\ ~rcp'[r].revoked /\ rcp'[r].status = rcp[r].status
              /\ rcp'[r].exp = IF RoutingOrder[r] = initialRoutingOrder THEN audit + 1 ELSE 0
         /\ \A r \in Recipients \ Invited : rcp'[r] = rcp[r]
PROOF
<1>1. \A r \in Recipients : rcp[r] \in recipientRow
  BY DEF TypeInv, TypeOK
<1>2. PICK n \in Nat \ {0} : n = audit + 1
  BY DEF TypeInv, TypeOK
<1>3. ASSUME NEW r \in Invited
      PROVE  /\ rcp'[r].cap = 1 /\ ~rcp'[r].revoked /\ rcp'[r].status = rcp[r].status
             /\ rcp'[r].exp = IF RoutingOrder[r] = initialRoutingOrder THEN n ELSE 0
  <2>1. r \in Recipients /\ rcp[r] \in recipientRow
    BY <1>1, Orders
  <2>2. rcp'[r] = [rcp[r] EXCEPT !.cap = 1,
                     !.exp = IF RoutingOrder[r] = initialRoutingOrder THEN n ELSE 0,
                     !.revoked = FALSE]
    BY <1>2, <2>1 DEF sendEffects
  <2> QED
    BY <2>1, <2>2 DEF recipientRow
<1>4. \A r \in Recipients \ Invited : rcp'[r] = rcp[r]
  BY DEF sendEffects
<1> QED
  BY <1>2, <1>3, <1>4

LEMMA RoutingSend ==
  ASSUME TypeInv, RoutingInv, NEW s \in Sessions, publishSend(s)
  PROVE  RoutingInv'
PROOF
<1>1. CASE Refuse(s)
  BY <1>1, RoutingUnchanged DEF Refuse, recordVars
<1>2. CASE env = "ready" /\ sendEffects
  <2>1. PICK n \in Nat \ {0} : n = audit + 1
    BY <1>2, SentRows
  <2>2. \A r \in Invited :
          /\ rcp'[r].cap = 1 /\ ~rcp'[r].revoked /\ rcp'[r].status = rcp[r].status
          /\ rcp'[r].exp = IF RoutingOrder[r] = initialRoutingOrder THEN n ELSE 0
    BY <1>2, <2>1, SentRows
  <2>3. \A r \in Recipients \ Invited : rcp'[r] = rcp[r]
    BY <1>2, SentRows
  <2>4. env' = "sent"
    BY <1>2 DEF sendEffects
  <2>5. \A r \in Recipients : rcp[r].status = "pending" /\ rcp[r].exp = 0
    BY <1>2 DEF RoutingInv, Unsent
  <2>6. Unsent' /\ Untouched'
    BY <2>2, <2>4, <2>5, Orders DEF Unsent, Untouched
  <2>7. OnlyInvited' /\ OnlyActionable'
    BY <2>2, <2>3, <2>5 DEF OnlyInvited, OnlyActionable
  <2>8. ReleasedExactly'
    <3> SUFFICES ASSUME NEW r \in Invited
                 PROVE  rcp'[r].exp # 0 <=> \A q \in Actionable : RoutingOrder[r] <= RoutingOrder[q]
      BY <2>2, <2>5, Orders DEF ReleasedExactly
    <3>1. rcp'[r].exp # 0 <=> RoutingOrder[r] = initialRoutingOrder
      BY <2>1, <2>2
    <3>2. RoutingOrder[r] \in Nat
      BY Orders
    <3> QED
      BY <3>1, <3>2, InitialOrder, Orders
  <2> QED
    BY <2>6, <2>7, <2>8 DEF RoutingInv
<1> QED
  BY <1>1, <1>2 DEF publishSend

\* A recipient of a command whose capability is live: its link is open, and
\* no outstanding recipient precedes it.
LEMMA LiveActor ==
  ASSUME RoutingInv, NEW r \in Invited, rcp[r].exp # 0, env \in Active
  PROVE  \A q \in Actionable : rcp[q].status # "completed" => RoutingOrder[r] <= RoutingOrder[q]
PROOF
  BY DEF RoutingInv, ReleasedExactly

LEMMA OpenedActive ==
  ASSUME env \in Active
  PROVE  opened \in Active /\ opened = "in_progress"
PROOF
  BY DEF opened, Active

\* Steps that keep every link open or closed and complete nobody.
LEMMA RoutingKept ==
  ASSUME RoutingInv, env \in Active, env' \in Active, SameLinks, SameClosed
  PROVE  RoutingInv'
PROOF
<1>1. Unsent'
  BY DEF Unsent, Active
<1>2. Untouched'
  BY Orders DEF RoutingInv, Untouched, SameLinks, SameClosed
<1>3. OnlyInvited' /\ OnlyActionable'
  BY DEF RoutingInv, OnlyInvited, OnlyActionable, SameLinks
<1>4. ReleasedExactly'
  BY Orders DEF RoutingInv, ReleasedExactly, SameLinks
<1> QED
  BY <1>1, <1>2, <1>3, <1>4 DEF RoutingInv

\* A view and a reissue.
LEMMA ViewStep ==
  ASSUME TypeInv, NEW s \in Sessions, publishViewed(s)
  PROVE  \/ UNCHANGED <<env, rcp>>
         \/ env \in Active /\ env' = "in_progress" /\ SameLinks /\ SameClosed /\ SameGrants
PROOF
<1> DEFINE q == req[s]
           row == [rcp[q.r] EXCEPT !.status = "viewed", !.viewedWith = q.cap]
<1>1. CASE Refuse(s) \/ AuditConflict(s)
  BY <1>1 DEF Refuse, AuditConflict, recordVars
<1>2. CASE /\ authorized(q.r, q.cap, q.at) /\ rcp[q.r].status = "pending"
           /\ rcp' = [rcp EXCEPT ![q.r].status = "viewed", ![q.r].viewedWith = q.cap]
           /\ env' = opened
  <2>1. q.r \in Recipients
    BY Addressed DEF publishViewed, RecipientCommand
  <2>2. rcp \in [Recipients -> recipientRow] /\ rcp[q.r] \in recipientRow
    BY <2>1 DEF TypeInv, TypeOK
  <2>3. env \in Active /\ rcp[q.r].exp # 0
    BY <1>2 DEF authorized, live
  <2>4. rcp' = [rcp EXCEPT ![q.r] = row]
    BY <1>2, <2>1, <2>2
  <2>5. /\ row.exp = rcp[q.r].exp /\ row.cap = rcp[q.r].cap /\ row.revoked = rcp[q.r].revoked
        /\ row.status = "viewed"
    BY <2>2 DEF recipientRow
  <2> HIDE DEF q, row
  <2>6. \A r \in Recipients : rcp'[r] = IF r = q.r THEN row ELSE rcp[r]
    BY <2>1, <2>2, <2>4
  <2>7. env' = "in_progress"
    BY <1>2, <2>3, OpenedActive
  <2> QED
    BY <1>2, <2>3, <2>5, <2>6, <2>7 DEF SameLinks, SameClosed, SameGrants
<1> QED
  BY <1>1, <1>2 DEF publishViewed

LEMMA ReissueStep ==
  ASSUME TypeInv, NEW s \in Sessions, publishReissue(s)
  PROVE  \/ UNCHANGED <<env, rcp>>
         \/ env \in Active /\ env' = env /\ SameLinks /\ SameClosed
PROOF
<1> DEFINE q == req[s]
           row == [rcp[q.r] EXCEPT !.cap = rcp[q.r].cap + 1, !.exp = audit + 1, !.revoked = FALSE]
<1>1. CASE Refuse(s) \/ AuditConflict(s)
  BY <1>1 DEF Refuse, AuditConflict, recordVars
<1>2. CASE /\ reissuable(q.r)
           /\ rcp' = [rcp EXCEPT ![q.r].cap = rcp[q.r].cap + 1, ![q.r].exp = audit + 1,
                               ![q.r].revoked = FALSE]
           /\ UNCHANGED env
  <2>1. q.r \in Recipients
    BY Addressed DEF publishReissue, RecipientCommand
  <2>2. rcp \in [Recipients -> recipientRow] /\ rcp[q.r] \in recipientRow
    BY <2>1 DEF TypeInv, TypeOK
  <2>3. env \in Active /\ rcp[q.r].exp # 0
    BY <1>2 DEF reissuable, released
  <2>4. PICK k, n \in Nat \ {0} : k = rcp[q.r].cap + 1 /\ n = audit + 1
    BY <2>2 DEF TypeInv, TypeOK, recipientRow
  <2>5. rcp' = [rcp EXCEPT ![q.r] = row]
    BY <1>2, <2>1, <2>2
  <2>6. row = [rcp[q.r] EXCEPT !.cap = k, !.exp = n, !.revoked = FALSE]
    BY <2>4
  <2> HIDE DEF q, row
  <2>7. row.exp # 0 /\ row.cap # 0 /\ row.status = rcp[q.r].status
    BY <2>2, <2>6 DEF recipientRow
  <2>8. \A r \in Recipients : rcp'[r] = IF r = q.r THEN row ELSE rcp[r]
    BY <2>1, <2>2, <2>5
  <2> QED
    BY <1>2, <2>3, <2>7, <2>8 DEF SameLinks, SameClosed
<1> QED
  BY <1>1, <1>2 DEF publishReissue

LEMMA RoutingRead ==
  ASSUME TypeInv, RoutingInv, NEW s \in Sessions, publishViewed(s) \/ publishReissue(s)
  PROVE  RoutingInv'
PROOF
<1>1. "in_progress" \in Active
  BY DEF Active
<1> QED
  BY <1>1, ViewStep, ReissueStep, RoutingUnchanged, RoutingKept

-----------------------------------------------------------------------------
(***************************************************************************)
(* Decisions.  `Decides' is what the transaction has checked when it gets  *)
(* to its writes.                                                          *)
(***************************************************************************)
Decides(q) ==
  /\ q.r \in Actionable
  /\ rcp[q.r].status # "completed"
  /\ rcp[q.r].exp # 0
  /\ env \in Active
  /\ q.plan = PlanFor(Statuses, q.r)

LEMMA ApprovalDecides ==
  ASSUME TypeInv, NEW s \in Sessions,
         prepareApproved(req[s].r, req[s].cap, req[s].at) \/ prepareSign(req[s].r, req[s].cap, req[s].at),
         req[s].kind \in {"approve", "sign"}, ~decisionRefused(req[s])
  PROVE  Decides(req[s])
PROOF
<1>1. req[s].r \in Recipients
  BY DEF TypeInv, RequestOK, RecipientCommand
<1>2. req[s].r \in Actionable
  BY <1>1 DEF prepareApproved, prepareSign, liveEligible, Actionable, isActionableRecipientRole
<1> QED
  BY <1>2 DEF Decides, prepareApproved, prepareSign, liveEligible, live, decisionRefused, decisionHolds

\* The outstanding actionable recipients besides the actor come no earlier
\* than the actor, and the plan says which of them come next.
LEMMA Outstanding ==
  ASSUME TypeInv, RoutingInv, NEW q, Decides(q)
  PROVE  LET rest == {r \in Actionable : r # q.r /\ rcp[r].status # "completed"}
         IN  /\ \A r \in rest : RoutingOrder[q.r] <= RoutingOrder[r]
             /\ q.plan.kind \in {"continue", "release", "complete"}
             /\ q.plan.kind = "complete" <=> rest = {}
             /\ q.plan.kind = "release" =>
                  /\ q.plan.next \in Nat
                  /\ q.plan.next > RoutingOrder[q.r]
                  /\ \E r \in rest : RoutingOrder[r] = q.plan.next
                  /\ \A r \in rest : q.plan.next <= RoutingOrder[r]
             /\ q.plan.kind = "continue" =>
                  \E r \in rest : RoutingOrder[r] = RoutingOrder[q.r]
PROOF
<1> DEFINE rest == {r \in Actionable : r # q.r /\ rcp[r].status # "completed"}
<1>1. remainingActionable(Statuses, q.r) = rest
  BY Orders DEF remainingActionable, Statuses
<1>2. q.r \in Recipients /\ q.r \in Invited /\ rest \subseteq Recipients
  BY Orders DEF Decides
<1>3. \A r \in rest : RoutingOrder[q.r] <= RoutingOrder[r]
  BY <1>2, LiveActor DEF Decides
<1>4. \A r \in Recipients : RoutingOrder[r] \in Nat
  BY Orders
<1> HIDE DEF rest
<1>5. /\ q.plan \in [kind : {"continue", "release", "complete"}, next : Nat, count : Nat]
      /\ q.plan.kind = "complete" <=> rest = {}
      /\ q.plan.kind = "release" =>
           /\ \A r \in rest : RoutingOrder[r] # RoutingOrder[q.r]
           /\ q.plan.next > RoutingOrder[q.r]
           /\ \E r \in rest : RoutingOrder[r] = q.plan.next
           /\ \A r \in rest : RoutingOrder[r] > RoutingOrder[q.r] => q.plan.next <= RoutingOrder[r]
      /\ q.plan.kind = "continue" =>
           \/ \E r \in rest : RoutingOrder[r] = RoutingOrder[q.r]
           \/ \A r \in rest : RoutingOrder[r] <= RoutingOrder[q.r]
  BY <1>1, <1>2, PlanMeaning DEF Decides
<1>6. q.plan.kind = "release" => \A r \in rest : q.plan.next <= RoutingOrder[r]
  BY <1>2, <1>3, <1>4, <1>5
<1>7. q.plan.kind = "continue" => \E r \in rest : RoutingOrder[r] = RoutingOrder[q.r]
  BY <1>2, <1>3, <1>4, <1>5
<1> QED
  BY <1>3, <1>5, <1>6, <1>7 DEF rest

\* What a decision leaves of the actor's row and of the others.
LEMMA DecidedRows ==
  ASSUME TypeInv, NEW q, Decides(q)
  PROVE  /\ \A r \in Recipients \ {q.r} : completedActor(q)[r] = rcp[r]
         /\ completedActor(q)[q.r].status = "completed"
         /\ completedActor(q)[q.r].exp = rcp[q.r].exp
         /\ completedActor(q)[q.r].cap = rcp[q.r].cap
PROOF
<1>1. q.r \in Recipients /\ rcp[q.r] \in recipientRow
  BY Orders DEF Decides, TypeInv, TypeOK
<1> QED
  BY <1>1, ActorRow, ZenonT(60) DEF recipientRow

\* Completing the actor, with the links of `group' opened.
LEMMA RoutingDecided ==
  ASSUME TypeInv, RoutingInv, NEW q, Decides(q), env' \in Active,
         NEW group \in SUBSET Invited, NEW n \in Nat \ {0},
         q.r \notin group,
         rcp' = [r \in Recipients |->
                   IF r \in group THEN [rcp[r] EXCEPT !.exp = n] ELSE completedActor(q)[r]],
         ReleasedExactly'
  PROVE  RoutingInv'
PROOF
<1>1. \A r \in Recipients : rcp[r] \in recipientRow
  BY DEF TypeInv, TypeOK
<1>2. q.r \in Recipients /\ q.r \in Actionable
  BY Orders DEF Decides
<1>3. \A r \in group : /\ rcp'[r].exp = n /\ rcp'[r].cap = rcp[r].cap
                       /\ rcp'[r].status = rcp[r].status
  BY <1>1, Orders DEF recipientRow
<1>4. /\ rcp'[q.r].exp = rcp[q.r].exp /\ rcp'[q.r].cap = rcp[q.r].cap
      /\ rcp[q.r].exp # 0
      /\ \A r \in Recipients \ (group \cup {q.r}) : rcp'[r] = rcp[r]
  BY <1>2, DecidedRows DEF Decides
<1>5. Unsent'
  BY DEF Unsent, Active
<1>6. Untouched'
  <2> SUFFICES ASSUME NEW r \in Invited
               PROVE  /\ rcp'[r].cap # 0
                      /\ rcp'[r].exp = 0 => rcp'[r].status = "pending" /\ ~rcp'[r].revoked
    BY DEF Untouched
  <2>1. /\ rcp[r].cap # 0
        /\ rcp[r].exp = 0 => rcp[r].status = "pending" /\ ~rcp[r].revoked
    BY DEF RoutingInv, Untouched, Decides
  <2> QED
    BY <1>3, <1>4, <2>1, Orders, ZenonT(60)
<1>7. OnlyInvited' /\ OnlyActionable'
  BY <1>2, <1>3, <1>4, Orders DEF RoutingInv, OnlyInvited, OnlyActionable
<1> QED
  BY <1>5, <1>6, <1>7 DEF RoutingInv

LEMMA RoutingContinue ==
  ASSUME TypeInv, RoutingInv, NEW q, Decides(q), q.plan.kind = "continue", continueEffects(q)
  PROVE  RoutingInv'
PROOF
<1> DEFINE rest == {r \in Actionable : r # q.r /\ rcp[r].status # "completed"}
<1>1. env' \in Active
  BY OpenedActive DEF continueEffects, Decides
<1>2. PICK n \in Nat \ {0} : n = 1
  OBVIOUS
<1>3. PICK nobody \in SUBSET Invited : nobody = {}
  <2>1. {} \in SUBSET Invited
    OBVIOUS
  <2> QED
    BY <2>1, Zenon
<1>4. rcp' = [r \in Recipients |->
                IF r \in nobody THEN [rcp[r] EXCEPT !.exp = n] ELSE completedActor(q)[r]]
  <2>1. completedActor(q) \in [Recipients -> recipientRow]
    BY ActorRow, Orders DEF Decides
  <2> QED
    BY <1>3, <2>1 DEF continueEffects
<1>5. ReleasedExactly'
  <2> SUFFICES ASSUME NEW r \in Invited
               PROVE  rcp'[r].exp # 0 <=>
                        \A p \in Actionable : rcp'[p].status # "completed" =>
                          RoutingOrder[r] <= RoutingOrder[p]
    BY DEF ReleasedExactly
  <2>1. rcp'[r].exp = rcp[r].exp
    BY <1>3, <1>4, DecidedRows, Orders
  <2>2. \A p \in Actionable : rcp'[p].status # "completed" <=> p \in rest
    BY <1>3, <1>4, DecidedRows, Orders DEF Decides
  <2>3. \A p \in Actionable : rcp[p].status # "completed" <=> p \in rest \/ p = q.r
    BY DEF Decides
  <2>4. PICK p \in rest : RoutingOrder[p] = RoutingOrder[q.r]
    BY Outstanding
  <2>5. rcp[r].exp # 0 <=>
          \A a \in Actionable : rcp[a].status # "completed" => RoutingOrder[r] <= RoutingOrder[a]
    BY DEF RoutingInv, ReleasedExactly, Decides
  <2>6. q.r \in Actionable /\ rest \subseteq Actionable
    BY DEF Decides
  <2> HIDE DEF rest
  <2> QED
    BY <2>1, <2>2, <2>3, <2>4, <2>5, <2>6
<1> QED
  BY <1>1, <1>3, <1>4, <1>5, RoutingDecided

\* The rows a release opens are all the recipients of the next order, and no
\* invited recipient has an order between the actor's and the next.
LEMMA NextGroup ==
  ASSUME TypeInv, RoutingInv, NEW q, Decides(q), q.plan.kind = "release"
  PROVE  /\ nextGroup(q) = {r \in Invited : RoutingOrder[r] = q.plan.next}
         /\ \A r \in Invited : /\ rcp[r].exp # 0 <=> RoutingOrder[r] <= RoutingOrder[q.r]
                               /\ RoutingOrder[r] <= RoutingOrder[q.r] \/ q.plan.next <= RoutingOrder[r]
         /\ q.r \notin nextGroup(q)
PROOF
<1> DEFINE rest == {r \in Actionable : r # q.r /\ rcp[r].status # "completed"}
<1>1. /\ q.plan.next \in Nat /\ q.plan.next > RoutingOrder[q.r]
      /\ \A r \in rest : q.plan.next <= RoutingOrder[r]
      /\ \A r \in rest : RoutingOrder[q.r] <= RoutingOrder[r]
  BY Outstanding
<1>2. /\ q.r \in Actionable /\ q.r \in Invited /\ rcp[q.r].status # "completed"
      /\ \A r \in Invited : RoutingOrder[r] \in Nat
      /\ Actionable \subseteq Invited /\ Invited \subseteq Recipients
  BY Orders DEF Decides
<1>3. \A r \in Invited :
        rcp[r].exp # 0 <=>
          \A a \in Actionable : rcp[a].status # "completed" => RoutingOrder[r] <= RoutingOrder[a]
  BY DEF RoutingInv, ReleasedExactly, Decides
<1>4. \A a \in Actionable : rcp[a].status # "completed" => a = q.r \/ a \in rest
  OBVIOUS
<1>5. \A a \in rest : a \in Actionable
  OBVIOUS
<1>6. \A a \in Actionable : a # q.r /\ rcp[a].status # "completed" => a \in rest
  OBVIOUS
<1> HIDE DEF rest
<1>7. \A r \in Invited : rcp[r].exp # 0 <=> RoutingOrder[r] <= RoutingOrder[q.r]
  BY <1>1, <1>2, <1>3, <1>4, <1>5
<1>8. \A r \in Invited : rcp[r].exp = 0 =>
        rcp[r].cap # 0 /\ rcp[r].status = "pending" /\ ~rcp[r].revoked
  BY DEF RoutingInv, Untouched, Decides
<1>9. ASSUME NEW r \in Invited, ~(RoutingOrder[r] <= RoutingOrder[q.r])
      PROVE  q.plan.next <= RoutingOrder[r]
  <2>1. PICK a \in Actionable : RoutingOrder[a] = RoutingOrder[r]
    BY InvitedOrders
  <2>2. a \in Invited /\ rcp[a].exp = 0
    BY <1>2, <1>7, <1>9, <2>1
  <2>3. a # q.r /\ rcp[a].status # "completed"
    BY <1>2, <1>8, <1>9, <2>1, <2>2
  <2> QED
    BY <1>1, <1>6, <2>1, <2>3
<1>10. \A r \in Invited : RoutingOrder[r] = q.plan.next =>
         /\ r # q.r /\ rcp[r].exp = 0 /\ completedActor(q)[r] = rcp[r]
  BY <1>1, <1>2, <1>7, DecidedRows
<1>11. nextGroup(q) = {r \in Invited : RoutingOrder[r] = q.plan.next}
  BY <1>8, <1>10 DEF nextGroup
<1>12. q.r \notin nextGroup(q)
  BY <1>1, <1>2, <1>11
<1> QED
  BY <1>7, <1>9, <1>11, <1>12

LEMMA RoutingRelease ==
  ASSUME TypeInv, RoutingInv, NEW q, Decides(q), q.plan.kind = "release", releaseEffects(q)
  PROVE  RoutingInv'
PROOF
<1> DEFINE rest == {r \in Actionable : r # q.r /\ rcp[r].status # "completed"}
           group == nextGroup(q)
<1>1. env' \in Active
  BY OpenedActive DEF releaseEffects, Decides
<1>2. PICK n \in Nat \ {0} : n = audit + 1
  BY DEF TypeInv, TypeOK
<1>3. rcp' = [r \in Recipients |->
                IF r \in group THEN [rcp[r] EXCEPT !.exp = n] ELSE completedActor(q)[r]]
  BY <1>2 DEF releaseEffects
<1>4. group \in SUBSET Invited /\ q.r \notin group
  BY NextGroup
<1>5. ReleasedExactly'
  <2> SUFFICES ASSUME NEW r \in Invited
               PROVE  rcp'[r].exp # 0 <=>
                        \A p \in Actionable : rcp'[p].status # "completed" =>
                          RoutingOrder[r] <= RoutingOrder[p]
    BY DEF ReleasedExactly
  <2>1. r \in group <=> RoutingOrder[r] = q.plan.next
    BY NextGroup
  <2>2. \A p \in Recipients : rcp[p] \in recipientRow
    BY DEF TypeInv, TypeOK
  <2>3. \A p \in Recipients :
          /\ rcp'[p].exp = IF p \in group THEN n ELSE rcp[p].exp
          /\ rcp'[p].status = IF p = q.r THEN "completed" ELSE rcp[p].status
    BY <1>3, <1>4, <2>2, DecidedRows, Orders DEF recipientRow
  <2>4. \A p \in Actionable : rcp'[p].status # "completed" <=> p \in rest
    BY <2>3, Orders
  <2>5. /\ q.plan.next \in Nat /\ q.plan.next > RoutingOrder[q.r]
        /\ \A p \in rest : q.plan.next <= RoutingOrder[p]
        /\ \E p \in rest : RoutingOrder[p] = q.plan.next
    BY Outstanding
  <2>6. /\ rcp[r].exp # 0 <=> RoutingOrder[r] <= RoutingOrder[q.r]
        /\ RoutingOrder[r] <= RoutingOrder[q.r] \/ q.plan.next <= RoutingOrder[r]
    BY NextGroup
  <2>7. /\ RoutingOrder[r] \in Nat /\ RoutingOrder[q.r] \in Nat
        /\ \A p \in rest : RoutingOrder[p] \in Nat /\ p \in Actionable
        /\ r \in Recipients
    BY Orders DEF Decides
  <2> HIDE DEF rest, group
  <2>8. rcp'[r].exp # 0 <=> RoutingOrder[r] <= q.plan.next
    BY <1>2, <2>1, <2>3, <2>5, <2>6, <2>7
  <2>9. (\A p \in rest : RoutingOrder[r] <= RoutingOrder[p]) <=> RoutingOrder[r] <= q.plan.next
    BY <2>5, <2>7
  <2> QED
    BY <2>4, <2>7, <2>8, <2>9
<1> HIDE DEF group
<1> QED
  BY <1>1, <1>3, <1>4, <1>5, RoutingDecided

\* The rows a terminal transaction revokes keep their status and expiry.
LEMMA Revoked ==
  ASSUME NEW rows \in [Recipients -> recipientRow], NEW R, NEW r \in Recipients
  PROVE  /\ revoke(rows, R)[r].exp = rows[r].exp
         /\ revoke(rows, R)[r].status = rows[r].status
PROOF
<1>1. rows[r] \in recipientRow
  OBVIOUS
<1>2. revoke(rows, R)[r] = IF r \in R THEN [rows[r] EXCEPT !.revoked = TRUE] ELSE rows[r]
  BY DEF revoke
<1> QED
  BY <1>1, <1>2 DEF recipientRow

LEMMA RoutingComplete ==
  ASSUME TypeInv, RoutingInv, NEW q, Decides(q), completeEffects(q)
  PROVE  RoutingInv'
PROOF
<1>1. env' \in Terminal
  BY DEF completeEffects, Terminal
<1>2. q.r \in Recipients /\ q.r \in Actionable
  BY Orders DEF Decides
<1>3. completedActor(q) \in [Recipients -> recipientRow]
  BY <1>2, ActorRow
<1>4. \A r \in Recipients : /\ rcp'[r].exp = completedActor(q)[r].exp
                            /\ rcp'[r].status = completedActor(q)[r].status
  BY <1>3, Revoked DEF completeEffects
<1>5. \A r \in Recipients : /\ rcp'[r].exp = rcp[r].exp
                            /\ rcp'[r].status = "completed" => r \in Actionable
  BY <1>2, <1>4, DecidedRows DEF RoutingInv, OnlyActionable
<1> QED
  BY <1>1, <1>5, RoutingEnded

LEMMA RoutingDecision ==
  ASSUME TypeInv, RoutingInv, NEW s \in Sessions, publishApproved(s) \/ publishSigned(s)
  PROVE  RoutingInv'
PROOF
<1> DEFINE q == req[s]
<1>1. CASE Refuse(s) \/ AuditConflict(s)
  BY <1>1, RoutingUnchanged DEF Refuse, AuditConflict, recordVars
<1>2. CASE /\ prepareApproved(q.r, q.cap, q.at) \/ prepareSign(q.r, q.cap, q.at)
           /\ ~decisionRefused(q)
           /\ publishDecision(s, q)
  <2>1. Decides(q)
    BY <1>2, ApprovalDecides DEF publishApproved, publishSigned, publishing
  <2> HIDE DEF q
  <2> QED
    BY <1>2, <2>1, RoutingContinue, RoutingRelease, RoutingComplete DEF publishDecision
<1> QED
  BY <1>1, <1>2 DEF publishApproved, publishSigned

\* Decline, void and expiry.
LEMMA TerminalStep ==
  ASSUME TypeInv, NEW s \in Sessions,
         publishDeclined(s) \/ publishVoid(s) \/ publishEnvelopeExpiry(s)
  PROVE  \/ UNCHANGED <<env, rcp>>
         \/ /\ SameLinks
            /\ \/ env \in Active /\ env' = "expired"
               \/ env \in Active \cup {"ready"} /\ env' = "voided"
               \/ /\ env \in Active /\ env' = "declined"
                  /\ \E r \in Actionable : rcp[r].exp # 0 /\ rcp[r].status # "completed"
PROOF
<1> DEFINE q == req[s]
           row == [rcp[q.r] EXCEPT !.status = "declined", !.revoked = TRUE]
<1>1. rcp \in [Recipients -> recipientRow]
  BY DEF TypeInv, TypeOK
<1>2. CASE Refuse(s) \/ AuditConflict(s)
  BY <1>2 DEF Refuse, AuditConflict, recordVars
<1>3. CASE /\ rcp' = revoke(rcp, q.revoked)
           /\ \/ env \in Active /\ env' = "expired"
              \/ env \in Active \cup {"ready"} /\ env' = "voided"
  <2>1. \A r \in Recipients : rcp'[r].exp = rcp[r].exp /\ rcp'[r].status = rcp[r].status
    BY <1>1, <1>3, Revoked
  <2> QED
    BY <1>3, <2>1 DEF SameLinks
<1>4. CASE /\ publishing(s, "decline") /\ env' = "declined" /\ declineEligible(q.r, q.cap, q.at)
           /\ rcp' = revoke([rcp EXCEPT ![q.r].status = "declined", ![q.r].revoked = TRUE], q.revoked)
  <2>1. q.r \in Recipients
    BY <1>4, Addressed DEF RecipientCommand
  <2>2. rcp[q.r] \in recipientRow
    BY <1>1, <2>1
  <2>3. /\ q.r \in Actionable /\ env \in Active
        /\ rcp[q.r].exp # 0 /\ rcp[q.r].status # "completed"
    BY <1>4, <2>1
    DEF declineEligible, liveEligible, live, Actionable, isActionableRecipientRole
  <2>4. [rcp EXCEPT ![q.r].status = "declined", ![q.r].revoked = TRUE] = [rcp EXCEPT ![q.r] = row]
    BY <1>1, <2>1
  <2>5. row \in recipientRow /\ row.status = "declined" /\ row.exp = rcp[q.r].exp
    BY <2>2 DEF recipientRow, RecipientStatus
  <2> DEFINE rows == [rcp EXCEPT ![q.r] = row]
  <2> HIDE DEF q, row
  <2>6. rows \in [Recipients -> recipientRow]
    BY <1>1, <2>1, <2>5
  <2>7. \A r \in Recipients : rows[r] = IF r = q.r THEN row ELSE rcp[r]
    BY <1>1, <2>1
  <2>8. rcp' = revoke(rows, q.revoked)
    BY <1>4, <2>4 DEF q, row
  <2> HIDE DEF rows
  <2>9. \A r \in Recipients : rcp'[r].exp = rows[r].exp /\ rcp'[r].status = rows[r].status
    BY <2>6, <2>8, Revoked
  <2>10. SameLinks
    BY <2>3, <2>5, <2>7, <2>9 DEF SameLinks
  <2> QED
    BY <1>4, <2>3, <2>10
<1>5. isVoidableStatus(env) => env \in Active \cup {"ready"}
  BY DEF isVoidableStatus, Active, TypeInv, TypeOK
<1>6. \A at : isExpirable(at) => env \in Active
  BY DEF isExpirable, abandoned
<1>7. CASE publishDeclined(s)
  BY <1>2, <1>4, <1>7 DEF publishDeclined
<1>8. CASE publishVoid(s)
  BY <1>2, <1>3, <1>5, <1>8 DEF publishVoid
<1>9. CASE publishEnvelopeExpiry(s)
  BY <1>2, <1>3, <1>6, <1>9 DEF publishEnvelopeExpiry, expiryHolds
<1> QED
  BY <1>7, <1>8, <1>9

LEMMA RoutingTerminated ==
  ASSUME TypeInv, RoutingInv, NEW s \in Sessions,
         publishDeclined(s) \/ publishVoid(s) \/ publishEnvelopeExpiry(s)
  PROVE  RoutingInv'
PROOF
<1>1. CASE UNCHANGED <<env, rcp>>
  BY <1>1, RoutingUnchanged
<1>2. CASE SameLinks /\ env' \in {"expired", "voided", "declined"}
  BY <1>2, RoutingEnded DEF RoutingInv, OnlyActionable, SameLinks, Terminal
<1> QED
  BY <1>1, <1>2, TerminalStep

\* The steps that write neither the envelope nor a recipient.
LEMMA RoutingElsewhere ==
  ASSUME NEW s \in Sessions,
         \/ beginSend(s) \/ beginRecipient(s) \/ beginVoid(s) \/ beginReissue(s)
         \/ drainExpiredEnvelopes(s) \/ Retry(s)
  PROVE  UNCHANGED <<env, rcp>>
PROOF
  BY DEF beginSend, beginRecipient, beginVoid, beginReissue, drainExpiredEnvelopes, Begin, Retry,
         recordVars

LEMMA DeliveryElsewhere ==
  ASSUME \/ drain \/ \E t \in tasks : deliverClaim(t) \/ crash(t)
         \/ \E i \in Rows : leaseExpires(i)
         \/ lapse
  PROVE  UNCHANGED <<env, rcp>>
PROOF
  BY DEF drain, claimPendingInvitations, deliverClaim, readClaimedInvitation, sendMail,
         completeInvitationDelivery, failInvitationDelivery, crash, leaseExpires, lapse, recordVars

LEMMA RoutingStep ==
  ASSUME TypeInv, RoutingInv, [Next]_vars
  PROVE  RoutingInv'
PROOF
<1>1. CASE UNCHANGED vars
  BY <1>1, RoutingUnchanged DEF vars
<1>2. ASSUME NEW s \in Sessions, session(s) PROVE RoutingInv'
  BY <1>2, RoutingElsewhere, RoutingUnchanged, RoutingSend, RoutingRead, RoutingDecision,
     RoutingTerminated DEF session
<1> QED
  BY <1>1, <1>2, DeliveryElsewhere, RoutingUnchanged DEF Next

LEMMA RoutingInit ==
  ASSUME Init
  PROVE  RoutingInv
PROOF
  BY DEF Init, RoutingInv, Unsent, Untouched, OnlyInvited, OnlyActionable, ReleasedExactly, Active

LEMMA RoutingInvariant == Spec => []RoutingInv
PROOF
  BY TypeInvariant, RoutingInit, RoutingStep, PTL DEF Spec

\* Whatever the commands interleave to, with however stale a plan: while the
\* envelope is active a recipient's link is open exactly when no outstanding
\* actionable recipient precedes it.
THEOREM RoutingCorrect == Spec => []ReleasedExactly
PROOF
<1>1. RoutingInv => ReleasedExactly
  BY DEF RoutingInv
<1> QED
  BY <1>1, RoutingInvariant, PTL

-----------------------------------------------------------------------------
(***************************************************************************)
(* EnvelopeSigning implements EnvelopeLifecycle.                           *)
(***************************************************************************)
Acted == {r \in Actionable : rcp[r].status = "completed"}
Opened == {r \in Recipients : rcp[r].exp # 0}

Frontier(done) ==
  {r \in Invited : \A q \in Actionable \ done : RoutingOrder[r] <= RoutingOrder[q]}

\* The lifecycle's vocabulary is the one of the envelope.
LEMMA SameDomain ==
  /\ Lifecycle!Actionable = Actionable
  /\ Lifecycle!Active = Active
  /\ \A done : Lifecycle!Frontier(done) = Frontier(done)
PROOF
<1>1. Lifecycle!Actionable = Actionable
  BY DEF Lifecycle!Actionable, Actionable, Lifecycle!isActionableRecipientRole,
         isActionableRecipientRole
<1>2. Lifecycle!Invited = Invited
  BY DEF Lifecycle!Invited, Invited, Lifecycle!isPostSendInvitationRecipientRole,
         isPostSendInvitationRecipientRole, Lifecycle!isActionableRecipientRole,
         isActionableRecipientRole
<1>3. Lifecycle!Active = Active
  BY DEF Lifecycle!Active, Active
<1> QED
  BY <1>1, <1>2, <1>3 DEF Lifecycle!Frontier, Frontier

\* The routing invariant, in the lifecycle's terms.
LEMMA OpenedIsFrontier ==
  /\ RoutingInv /\ env \in Active => Opened = Frontier(Acted)
  /\ RoutingInv' /\ env' \in Active => Opened' = Frontier(Acted')
PROOF
  BY Orders DEF RoutingInv, OnlyInvited, ReleasedExactly, Opened, Frontier, Acted

\* A step that changes none of the three is a stutter.
LEMMA LifecycleStutter ==
  ASSUME env' = env, Acted' = Acted, Opened' = Opened
  PROVE  UNCHANGED Lifecycle!lifecycle
PROOF
  BY DEF Lifecycle!lifecycle, Acted, Opened

\* What may happen in the lifecycle, in the envelope's terms.
Unmoved == env' = env /\ Acted' = Acted /\ Opened' = Opened

Ends(status) == env' = status /\ Acted' = Acted /\ Opened' = Opened

Turn(r) ==
  /\ env \in Active
  /\ r \in Actionable \ Acted
  /\ \A q \in Actionable \ Acted : RoutingOrder[r] <= RoutingOrder[q]

LifecycleStep ==
  \/ Unmoved
  \/ env = "ready" /\ env' = "sent" /\ Opened' = Frontier({}) /\ Acted' = Acted
  \/ env = "sent" /\ Ends("in_progress")
  \/ env \in Active /\ Ends("expired")
  \/ env \in Active \cup {"ready"} /\ Ends("voided")
  \/ \E r \in Actionable : Turn(r) /\ Ends("declined")
  \/ \E r \in Actionable :
       /\ Turn(r)
       /\ Acted' = Acted \cup {r}
       /\ IF Acted' = Actionable
          THEN env' = "completed" /\ Opened' = Opened
          ELSE env' = "in_progress" /\ Opened' = Frontier(Acted')

LEMMA LifecycleStepIsStep ==
  ASSUME LifecycleStep
  PROVE  [Lifecycle!LNext]_(Lifecycle!lifecycle)
PROOF
<1>1. CASE Unmoved
  BY <1>1, LifecycleStutter DEF Unmoved
<1>2. CASE env = "ready" /\ env' = "sent" /\ Opened' = Frontier({}) /\ Acted' = Acted
  BY <1>2, SameDomain DEF Lifecycle!LNext, Lifecycle!Send, Acted, Opened
<1>3. CASE env = "sent" /\ Ends("in_progress")
  BY <1>3 DEF Lifecycle!LNext, Lifecycle!View, Ends, Acted, Opened
<1>4. CASE env \in Active /\ Ends("expired")
  BY <1>4, SameDomain DEF Lifecycle!LNext, Lifecycle!Expire, Ends, Acted, Opened
<1>5. CASE env \in Active \cup {"ready"} /\ Ends("voided")
  BY <1>5, SameDomain DEF Lifecycle!LNext, Lifecycle!Void, Ends, Acted, Opened
<1>6. ASSUME NEW r \in Actionable, Turn(r) PROVE Lifecycle!MyTurn(r)
  BY <1>6, SameDomain DEF Lifecycle!MyTurn, Turn, Acted
<1>7. ASSUME NEW r \in Actionable, Turn(r), Ends("declined")
      PROVE  Lifecycle!LNext
  BY <1>6, <1>7, SameDomain DEF Lifecycle!LNext, Lifecycle!Decline, Ends, Acted, Opened
<1>8. ASSUME NEW r \in Actionable, Turn(r), Acted' = Acted \cup {r},
             IF Acted' = Actionable
             THEN env' = "completed" /\ Opened' = Opened
             ELSE env' = "in_progress" /\ Opened' = Frontier(Acted')
      PROVE  Lifecycle!LNext
  <2>1. Lifecycle!Act(r)
    BY <1>6, <1>8, SameDomain DEF Lifecycle!Act, Acted, Opened
  <2> QED
    BY <2>1, SameDomain DEF Lifecycle!LNext
<1> QED
  BY <1>1, <1>2, <1>3, <1>4, <1>5, <1>7, <1>8 DEF LifecycleStep

\* Rows that keep their completion and their links.
LEMMA SameSets ==
  ASSUME SameLinks
  PROVE  Acted' = Acted /\ Opened' = Opened
PROOF
  BY Orders DEF SameLinks, Acted, Opened

LEMMA UnchangedSets ==
  ASSUME UNCHANGED <<env, rcp>>
  PROVE  LifecycleStep
PROOF
  BY DEF LifecycleStep, Unmoved, Acted, Opened

LEMMA SendLifecycle ==
  ASSUME TypeInv, RoutingInv, RoutingInv', NEW s \in Sessions, publishSend(s)
  PROVE  LifecycleStep
PROOF
<1>1. CASE Refuse(s)
  BY <1>1, UnchangedSets DEF Refuse, recordVars
<1>2. CASE env = "ready" /\ sendEffects
  <2>1. env' = "sent" /\ env' \in Active
    BY <1>2 DEF sendEffects, Active
  <2>2. \A r \in Recipients : rcp[r].status = "pending" /\ rcp'[r].status = "pending"
    BY <1>2, SentRows DEF RoutingInv, Unsent
  <2>3. Acted = {} /\ Acted' = {}
    BY <2>2, Orders DEF Acted
  <2> QED
    BY <1>2, <2>1, <2>3, OpenedIsFrontier DEF LifecycleStep
<1> QED
  BY <1>1, <1>2 DEF publishSend

LEMMA ReadLifecycle ==
  ASSUME TypeInv, NEW s \in Sessions, publishViewed(s) \/ publishReissue(s)
  PROVE  LifecycleStep
PROOF
<1>1. env \in Active => env = "sent" \/ env = "in_progress"
  BY DEF Active
<1> QED
  BY <1>1, ViewStep, ReissueStep, SameSets, UnchangedSets DEF LifecycleStep, Unmoved, Ends

\* A recipient with an open link that has not completed is next in turn.
LEMMA LiveTurn ==
  ASSUME RoutingInv, env \in Active, NEW r \in Actionable,
         rcp[r].exp # 0, rcp[r].status # "completed"
  PROVE  Turn(r)
PROOF
<1>1. r \in Invited
  BY Orders
<1> QED
  BY <1>1, LiveActor DEF Turn, Acted

LEMMA TerminalLifecycle ==
  ASSUME TypeInv, RoutingInv, NEW s \in Sessions,
         publishDeclined(s) \/ publishVoid(s) \/ publishEnvelopeExpiry(s)
  PROVE  LifecycleStep
PROOF
<1>1. CASE UNCHANGED <<env, rcp>>
  BY <1>1, UnchangedSets
<1>2. CASE SameLinks /\ env \in Active /\ env' = "expired"
  BY <1>2, SameSets DEF LifecycleStep, Ends
<1>3. CASE SameLinks /\ env \in Active \cup {"ready"} /\ env' = "voided"
  BY <1>3, SameSets DEF LifecycleStep, Ends
<1>4. CASE /\ SameLinks /\ env \in Active /\ env' = "declined"
           /\ \E r \in Actionable : rcp[r].exp # 0 /\ rcp[r].status # "completed"
  BY <1>4, SameSets, LiveTurn DEF LifecycleStep, Ends
<1> QED
  BY <1>1, <1>2, <1>3, <1>4, TerminalStep

\* Every branch of a decision adds the actor, and only the actor, to those
\* who have acted.
LEMMA ActorActs ==
  ASSUME TypeInv, NEW q, Decides(q),
         continueEffects(q) \/ releaseEffects(q) \/ completeEffects(q)
  PROVE  Acted' = Acted \cup {q.r}
PROOF
<1>1. q.r \in Recipients /\ q.r \in Actionable
  BY Orders DEF Decides
<1>2. rcp \in [Recipients -> recipientRow] /\ completedActor(q) \in [Recipients -> recipientRow]
  BY <1>1, ActorRow DEF TypeInv, TypeOK
<1>3. ASSUME \A r \in Recipients : \/ rcp'[r].status = completedActor(q)[r].status
                                   \/ r # q.r /\ rcp'[r].status = rcp[r].status
      PROVE  Acted' = Acted \cup {q.r}
  BY <1>1, <1>3, DecidedRows, Orders DEF Acted
<1>4. CASE continueEffects(q)
  BY <1>3, <1>4 DEF continueEffects
<1>5. CASE releaseEffects(q)
  <2>1. PICK n \in Nat : n = audit + 1
    BY DEF TypeInv, TypeOK
  <2>2. \A r \in nextGroup(q) : r # q.r /\ r \in Recipients
    BY DecidedRows, Orders DEF nextGroup
  <2>3. \A r \in Recipients : [rcp[r] EXCEPT !.exp = n].status = rcp[r].status
    BY <1>2 DEF recipientRow
  <2> QED
    BY <1>3, <1>5, <2>1, <2>2, <2>3 DEF releaseEffects
<1>6. CASE completeEffects(q)
  BY <1>2, <1>3, <1>6, Revoked DEF completeEffects
<1> QED
  BY <1>4, <1>5, <1>6

LEMMA DecisionLifecycle ==
  ASSUME TypeInv, RoutingInv, RoutingInv', NEW s \in Sessions,
         publishApproved(s) \/ publishSigned(s)
  PROVE  LifecycleStep
PROOF
<1> DEFINE q == req[s]
           rest == {r \in Actionable : r # q.r /\ rcp[r].status # "completed"}
<1>1. CASE Refuse(s) \/ AuditConflict(s)
  BY <1>1, UnchangedSets DEF Refuse, AuditConflict, recordVars
<1>2. CASE /\ prepareApproved(q.r, q.cap, q.at) \/ prepareSign(q.r, q.cap, q.at)
           /\ ~decisionRefused(q)
           /\ publishDecision(s, q)
  <2>1. Decides(q)
    BY <1>2, ApprovalDecides DEF publishApproved, publishSigned, publishing
  <2> HIDE DEF q
  <2>2. Turn(q.r) /\ q.r \in Actionable
    BY <2>1, LiveTurn DEF Decides
  <2>3. Acted' = Acted \cup {q.r}
    BY <1>2, <2>1, ActorActs DEF publishDecision
  <2>4. Acted' = Actionable <=> rest = {}
    BY <2>1, <2>3 DEF Acted, Decides
  <2>5. q.plan.kind = "complete" <=> rest = {}
    BY <2>1, Outstanding
  <2> HIDE DEF rest
  <2>6. CASE q.plan.kind # "complete"
    <3>1. env' = "in_progress" /\ env' \in Active
      BY <1>2, <2>1, <2>6, OpenedActive
      DEF publishDecision, continueEffects, releaseEffects, Decides
    <3> QED
      BY <2>2, <2>3, <2>4, <2>5, <2>6, <3>1, OpenedIsFrontier DEF LifecycleStep
  <2>7. CASE q.plan.kind = "complete"
    <3>1. completeEffects(q)
      BY <1>2, <2>7 DEF publishDecision
    <3>2. completedActor(q) \in [Recipients -> recipientRow]
      BY <2>1, ActorRow, Orders DEF Decides
    <3>3. \A r \in Recipients : rcp'[r].exp = rcp[r].exp
      BY <2>1, <3>1, <3>2, Revoked, DecidedRows DEF completeEffects
    <3>4. Opened' = Opened /\ env' = "completed"
      BY <3>1, <3>3 DEF Opened, completeEffects
    <3> QED
      BY <2>2, <2>3, <2>4, <2>5, <2>7, <3>4 DEF LifecycleStep
  <2> QED
    BY <2>6, <2>7
<1> QED
  BY <1>1, <1>2 DEF publishApproved, publishSigned

LEMMA NextLifecycle ==
  ASSUME TypeInv, RoutingInv, RoutingInv', [Next]_vars
  PROVE  [Lifecycle!LNext]_(Lifecycle!lifecycle)
PROOF
<1>1. CASE UNCHANGED vars
  BY <1>1, UnchangedSets, LifecycleStepIsStep DEF vars
<1>2. ASSUME NEW s \in Sessions, session(s) PROVE LifecycleStep
  BY <1>2, RoutingElsewhere, UnchangedSets, SendLifecycle, ReadLifecycle, DecisionLifecycle,
     TerminalLifecycle DEF session
<1> QED
  BY <1>1, <1>2, DeliveryElsewhere, UnchangedSets, LifecycleStepIsStep DEF Next

\* However commands, retries, deliveries and drains interleave, an envelope
\* only ever takes the steps of EnvelopeLifecycle: recipients act in their
\* turn, exactly the groups whose turn has come are open, the last action
\* completes the envelope, and an ended envelope stays ended.
THEOREM LifecycleImplemented == Spec => ImplementsLifecycle
PROOF
<1>1. Init => Lifecycle!LInit
  BY Orders DEF Init, Lifecycle!LInit
<1> QED
  BY <1>1, RoutingInvariant, TypeInvariant, NextLifecycle, PTL
  DEF Spec, ImplementsLifecycle, Lifecycle!LSpec

-----------------------------------------------------------------------------
(***************************************************************************)
(* What happens to invitations and capabilities: a row still to deliver is *)
(* for the current capability, and an ending leaves nothing usable.        *)
(***************************************************************************)

(***************************************************************************)
(* An open row is for the recipient's current capability and expiry, still *)
(* holds its ciphertext and, once released, has an expiry; any other row   *)
(* has been scrubbed.  These imply OpenRowCurrent and make it inductive: a *)
(* release finds the rows of its group blocked, a reissue finds no open row*)
(* it does not replace.                                                    *)
(***************************************************************************)
RowOK(row, k, cap, exp) ==
  /\ openRow(row) => /\ k = cap /\ row.reserved = exp
                     /\ row.sealed /\ row.retryable
                     /\ row.status # "blocked" => row.reserved # 0
  /\ ~openRow(row) => ~row.sealed /\ ~row.retryable

RowsOK == \A i \in Rows : RowOK(outbox[i], i[2], rcp[i[1]].cap, rcp[i[1]].exp)

\* Nothing is queued before the send, nor after a fenced ending.
Quiet ==
  env \in {"ready", "completed", "declined", "voided"} => \A i \in Rows : ~openRow(outbox[i])

AllRevoked == env \in Terminal => \A r \in Recipients : rcp[r].cap # 0 => rcp[r].revoked

\* A terminal transition does not revoke those who have completed: they were.
CompletedRevoked == \A r \in Recipients : rcp[r].status = "completed" => rcp[r].revoked

OutboxInv == RowsOK /\ Quiet /\ AllRevoked /\ CompletedRevoked

LEMMA OutboxUnchanged ==
  ASSUME OutboxInv, UNCHANGED <<env, rcp, outbox>>
  PROVE  OutboxInv'
PROOF
  BY DEF OutboxInv, RowsOK, Quiet, AllRevoked, CompletedRevoked

-----------------------------------------------------------------------------
\* Rows the operators build.
LEMMA ScrubbedRow ==
  ASSUME NEW row \in outboxRow
  PROVE  /\ ~openRow(scrubbed(row)) /\ ~scrubbed(row).sealed /\ ~scrubbed(row).retryable
PROOF
<1>1. /\ scrubbed(row).status = "failed" /\ scrubbed(row).retryable = FALSE
      /\ scrubbed(row).sealed = FALSE
  BY DEF scrubbed, outboxRow
<1> QED
  BY <1>1 DEF openRow, undelivered

LEMMA DeliveredRow ==
  ASSUME NEW row \in outboxRow
  PROVE  LET d == [scrubbed(row) EXCEPT !.status = "delivered"]
         IN  ~openRow(d) /\ ~d.sealed /\ ~d.retryable
PROOF
<1>1. PICK s \in outboxRow : s = scrubbed(row) /\ ~s.sealed /\ ~s.retryable
  BY RowTypes, ScrubbedRow
<1> DEFINE d == [s EXCEPT !.status = "delivered"]
<1>2. d.status = "delivered" /\ d.sealed = s.sealed /\ d.retryable = s.retryable
  BY DEF outboxRow
<1> HIDE DEF d
<1>3. ~openRow(d) /\ ~d.sealed /\ ~d.retryable
  BY <1>1, <1>2 DEF openRow, undelivered
<1> QED
  BY <1>1, <1>3 DEF d

LEMMA ClaimedRow ==
  ASSUME NEW row \in outboxRow
  PROVE  /\ openRow(claim(row)) /\ claim(row).status = "processing"
         /\ claim(row).sealed = row.sealed /\ claim(row).retryable = row.retryable
         /\ claim(row).reserved = row.reserved
PROOF
<1>1. PICK n : n = row.attempts + 1
  OBVIOUS
<1> DEFINE c == [row EXCEPT !.status = "processing", !.attempts = n, !.token = n, !.stale = FALSE]
<1>2. /\ c.status = "processing" /\ c.sealed = row.sealed /\ c.retryable = row.retryable
      /\ c.reserved = row.reserved
  BY DEF outboxRow
<1>3. claim(row) = c
  BY <1>1 DEF claim
<1> HIDE DEF c
<1> QED
  BY <1>2, <1>3 DEF openRow

LEMMA FailedRow ==
  ASSUME NEW row \in outboxRow, row.retryable
  PROVE  LET f == [row EXCEPT !.status = "failed", !.token = NoToken, !.stale = FALSE]
         IN  /\ openRow(f) /\ f.status = "failed" /\ f.reserved = row.reserved
             /\ f.sealed = row.sealed /\ f.retryable = row.retryable
PROOF
<1> DEFINE f == [row EXCEPT !.status = "failed", !.token = NoToken, !.stale = FALSE]
<1>1. /\ f.status = "failed" /\ f.reserved = row.reserved
      /\ f.sealed = row.sealed /\ f.retryable = row.retryable
  BY DEF outboxRow
<1> HIDE DEF f
<1>2. openRow(f)
  BY <1>1 DEF openRow, undelivered
<1> QED
  BY <1>1, <1>2 DEF f

LEMMA StaleRow ==
  ASSUME NEW row \in outboxRow, row.status = "processing"
  PROVE  LET f == [row EXCEPT !.stale = TRUE]
         IN  /\ openRow(f) /\ f.status = "processing" /\ f.reserved = row.reserved
             /\ f.sealed = row.sealed /\ f.retryable = row.retryable
PROOF
<1> DEFINE f == [row EXCEPT !.stale = TRUE]
<1>1. /\ f.status = "processing" /\ f.reserved = row.reserved
      /\ f.sealed = row.sealed /\ f.retryable = row.retryable
  BY DEF outboxRow
<1> HIDE DEF f
<1>2. openRow(f)
  BY <1>1 DEF openRow
<1> QED
  BY <1>1, <1>2 DEF f

LEMMA QueuedRow ==
  ASSUME NEW exp \in Nat, NEW status \in {"pending", "blocked"}
  PROVE  LET n == NewRow(status, exp)
         IN  openRow(n) /\ n.status = status /\ n.reserved = exp /\ n.sealed /\ n.retryable
PROOF
<1> DEFINE row == NoRow
<1>1. row \in outboxRow
  BY RowTypes
<1> HIDE DEF row
<1> DEFINE n == [row EXCEPT !.status = status, !.retryable = TRUE, !.sealed = TRUE, !.reserved = exp]
<1>2. n.status = status /\ n.reserved = exp /\ n.sealed = TRUE /\ n.retryable = TRUE
  BY <1>1 DEF outboxRow
<1>3. NewRow(status, exp) = n
  BY DEF NewRow, row
<1> HIDE DEF n
<1> QED
  BY <1>2, <1>3 DEF openRow, undelivered

-----------------------------------------------------------------------------
(***************************************************************************)
(* The delivery side.  It opens no row, keeps the reserved expiry and the  *)
(* ciphertext of the rows it leaves open and scrubs those it closes.       *)
(***************************************************************************)
Follows(new, old) ==
  \/ new = old
  \/ ~openRow(new) /\ ~new.sealed /\ ~new.retryable
  \/ /\ openRow(new) /\ openRow(old)
     /\ new.reserved = old.reserved /\ new.sealed = old.sealed /\ new.retryable = old.retryable
     /\ new.status = "blocked" \/ old.status # "blocked" \/ old.reserved # 0

LEMMA FollowedRow ==
  ASSUME NEW new, NEW old, NEW k, NEW cap, NEW exp, RowOK(old, k, cap, exp), Follows(new, old)
  PROVE  RowOK(new, k, cap, exp) /\ (openRow(new) => openRow(old))
PROOF
  BY DEF RowOK, Follows

LEMMA OutboxDelivery ==
  ASSUME OutboxInv, UNCHANGED <<env, rcp>>, \A i \in Rows : Follows(outbox'[i], outbox[i])
  PROVE  OutboxInv'
PROOF
<1>1. \A i \in Rows : /\ RowOK(outbox'[i], i[2], rcp[i[1]].cap, rcp[i[1]].exp)
                      /\ openRow(outbox'[i]) => openRow(outbox[i])
  BY FollowedRow DEF OutboxInv, RowsOK
<1>2. RowsOK'
  BY <1>1 DEF RowsOK, RowOK, openRow, undelivered
<1>3. Quiet'
  <2> SUFFICES ASSUME env' \in {"ready", "completed", "declined", "voided"}, NEW i \in Rows
               PROVE  ~openRow(outbox'[i])
    BY DEF Quiet, openRow, undelivered
  <2>1. ~openRow(outbox[i])
    BY DEF Quiet, OutboxInv
  <2> QED
    BY <1>1, <2>1
<1> QED
  BY <1>2, <1>3 DEF OutboxInv, AllRevoked, CompletedRevoked

LEMMA OutboxDrain ==
  ASSUME TypeInv, OutboxInv, NEW dead, NEW claimed, claimPendingInvitations(dead, claimed)
  PROVE  OutboxInv'
PROOF
<1> SUFFICES ASSUME NEW i \in Rows PROVE Follows(outbox'[i], outbox[i])
  BY OutboxDelivery DEF claimPendingInvitations
<1>1. outbox[i] \in outboxRow
  BY DEF TypeInv, TypeOK
<1>2. CASE i \in dead
  BY <1>1, <1>2, ScrubbedRow DEF claimPendingInvitations, Follows
<1>3. CASE i \notin dead /\ i \in claimed
  <2>1. outbox'[i] = claim(outbox[i])
    BY <1>3 DEF claimPendingInvitations
  <2>2. openRow(outbox[i]) /\ outbox[i].status # "blocked"
    BY <1>3 DEF claimPendingInvitations, claimCandidates, leaseStale, openRow, undelivered
  <2> QED
    BY <1>1, <2>1, <2>2, ClaimedRow DEF Follows
<1>4. CASE i \notin dead /\ i \notin claimed
  BY <1>4 DEF claimPendingInvitations, Follows
<1> QED
  BY <1>2, <1>3, <1>4

LEMMA OutboxTask ==
  ASSUME TypeInv, OutboxInv, NEW t \in tasks, deliverClaim(t) \/ crash(t)
  PROVE  OutboxInv'
PROOF
<1> DEFINE i == rowOf(t)
<1>1. i \in Rows /\ outbox[i] \in outboxRow /\ outbox \in [Rows -> outboxRow]
  BY TaskRow DEF TypeInv, TypeOK
<1>2. CASE readClaimedInvitation(t) \/ sendMail(t) \/ crash(t)
  BY <1>2, OutboxUnchanged DEF readClaimedInvitation, sendMail, crash, recordVars
<1>3. ASSUME NEW new, outbox' = [outbox EXCEPT ![i] = new], Follows(new, outbox[i]),
             UNCHANGED <<env, rcp>>
      PROVE  OutboxInv'
  <2> HIDE DEF i
  <2>1. \A j \in Rows : outbox'[j] = IF j = i THEN new ELSE outbox[j]
    BY <1>1, <1>3
  <2>2. \A j \in Rows : Follows(outbox'[j], outbox[j])
    BY <1>3, <2>1 DEF Follows
  <2> QED
    BY <1>3, <2>2, OutboxDelivery
<1>4. ASSUME holdsLease(t)
      PROVE  openRow(outbox[i]) /\ outbox[i].status = "processing" /\ outbox[i].retryable
  <2>1. openRow(outbox[i]) /\ outbox[i].status = "processing"
    BY <1>4 DEF holdsLease, openRow
  <2> QED
    BY <1>1, <2>1 DEF OutboxInv, RowsOK, RowOK
<1>5. CASE completeInvitationDelivery(t)
  <2> DEFINE new == IF holdsLease(t) THEN [scrubbed(outbox[i]) EXCEPT !.status = "delivered"]
                    ELSE outbox[i]
  <2>1. Follows(new, outbox[i])
    BY <1>1, DeliveredRow DEF Follows
  <2>2. outbox' = [outbox EXCEPT ![i] = new]
    BY <1>5 DEF completeInvitationDelivery
  <2> HIDE DEF new
  <2> QED
    BY <1>3, <1>5, <2>1, <2>2 DEF completeInvitationDelivery
<1>6. CASE failInvitationDelivery(t)
  <2> DEFINE retried == [outbox[i] EXCEPT !.status = "failed", !.token = NoToken, !.stale = FALSE]
             new == IF ~holdsLease(t) THEN outbox[i]
                    ELSE IF willRetry(t) THEN retried ELSE scrubbed(outbox[i])
  <2>1. holdsLease(t) => Follows(retried, outbox[i])
    BY <1>1, <1>4, FailedRow DEF Follows
  <2>2. Follows(scrubbed(outbox[i]), outbox[i])
    BY <1>1, ScrubbedRow DEF Follows
  <2>3. outbox' = [outbox EXCEPT ![i] = new]
    BY <1>6 DEF failInvitationDelivery
  <2> HIDE DEF retried
  <2>4. Follows(new, outbox[i])
    BY <2>1, <2>2 DEF Follows
  <2> HIDE DEF new
  <2> QED
    BY <1>3, <1>6, <2>3, <2>4 DEF failInvitationDelivery
<1> QED
  BY <1>2, <1>5, <1>6 DEF deliverClaim

LEMMA OutboxLease ==
  ASSUME TypeInv, OutboxInv, NEW i \in Rows, leaseExpires(i)
  PROVE  OutboxInv'
PROOF
<1> DEFINE new == [outbox[i] EXCEPT !.stale = TRUE]
<1>1. outbox \in [Rows -> outboxRow] /\ outbox[i] \in outboxRow
  BY DEF TypeInv, TypeOK
<1>2. Follows(new, outbox[i])
  BY <1>1, StaleRow DEF leaseExpires, Follows, openRow
<1>3. outbox' = [outbox EXCEPT ![i] = new]
  BY <1>1 DEF leaseExpires
<1> HIDE DEF new
<1>4. \A j \in Rows : Follows(outbox'[j], outbox[j])
  BY <1>1, <1>2, <1>3 DEF Follows
<1> QED
  BY <1>4, OutboxDelivery DEF leaseExpires

-----------------------------------------------------------------------------
(***************************************************************************)
(* The publications.                                                       *)
(***************************************************************************)
LEMMA OutboxSend ==
  ASSUME TypeInv, RoutingInv, OutboxInv, NEW s \in Sessions, publishSend(s)
  PROVE  OutboxInv'
PROOF
<1>1. CASE Refuse(s)
  BY <1>1, OutboxUnchanged DEF Refuse, recordVars
<1>2. CASE env = "ready" /\ sendEffects
  <2>1. PICK n \in Nat \ {0} : n = audit + 1
    BY <1>2, SentRows
  <2>2. \A r \in Invited :
          /\ rcp'[r].cap = 1
          /\ rcp'[r].exp = IF RoutingOrder[r] = initialRoutingOrder THEN n ELSE 0
    BY <1>2, <2>1, SentRows
  <2>3. \A r \in Recipients : rcp'[r].status = "pending"
    BY <1>2, SentRows DEF RoutingInv, Unsent
  <2>4. ASSUME NEW i \in Rows
        PROVE  RowOK(outbox'[i], i[2], rcp'[i[1]].cap, rcp'[i[1]].exp)
    <3>1. i[1] \in Recipients
      BY DEF Rows
    <3>2. CASE i[2] = 1 /\ i[1] \in Invited
      <4>1. outbox'[i] = IF RoutingOrder[i[1]] = initialRoutingOrder
                         THEN NewRow("pending", n) ELSE NewRow("blocked", 0)
        BY <1>2, <2>1, <3>2 DEF sendEffects
      <4>2. n \in Nat /\ 0 \in Nat /\ n # 0
        BY <2>1
      <4> QED
        BY <2>2, <3>2, <4>1, <4>2, QueuedRow DEF RowOK
    <3>3. CASE ~(i[2] = 1 /\ i[1] \in Invited)
      <4>1. outbox'[i] = outbox[i]
        BY <1>2, <3>3 DEF sendEffects
      <4>2. ~openRow(outbox[i])
        BY <1>2 DEF OutboxInv, Quiet
      <4> QED
        BY <4>1, <4>2 DEF OutboxInv, RowsOK, RowOK
    <3> QED
      BY <3>2, <3>3
  <2>5. RowsOK'
    BY <2>4 DEF RowsOK, RowOK, openRow, undelivered
  <2>6. Quiet' /\ AllRevoked'
    BY <1>2 DEF sendEffects, Quiet, AllRevoked, Terminal
  <2> QED
    BY <2>3, <2>5, <2>6 DEF OutboxInv, CompletedRevoked
<1> QED
  BY <1>1, <1>2 DEF publishSend

\* Recipients that keep capability and expiry, rows untouched.
LEMMA OutboxKept ==
  ASSUME OutboxInv, env' \in Active, UNCHANGED outbox,
         \A r \in Recipients : /\ rcp'[r].cap = rcp[r].cap /\ rcp'[r].exp = rcp[r].exp
                               /\ rcp'[r].status = "completed" => rcp'[r].revoked
  PROVE  OutboxInv'
PROOF
<1>1. \A i \in Rows : i[1] \in Recipients
  BY DEF Rows
<1>2. RowsOK'
  BY <1>1 DEF OutboxInv, RowsOK, RowOK, openRow, undelivered
<1>3. Quiet' /\ AllRevoked'
  BY DEF Quiet, AllRevoked, Active, Terminal
<1> QED
  BY <1>2, <1>3 DEF OutboxInv, CompletedRevoked

LEMMA OutboxView ==
  ASSUME TypeInv, OutboxInv, NEW s \in Sessions, publishViewed(s)
  PROVE  OutboxInv'
PROOF
<1>1. UNCHANGED outbox
  BY DEF publishViewed, Refuse, AuditConflict, recordVars
<1>2. CASE UNCHANGED <<env, rcp>>
  BY <1>1, <1>2, OutboxUnchanged
<1>3. CASE env' = "in_progress" /\ SameLinks /\ SameGrants
  <2>1. env' \in Active
    BY <1>3 DEF Active
  <2>2. \A r \in Recipients : /\ rcp'[r].cap = rcp[r].cap /\ rcp'[r].exp = rcp[r].exp
                              /\ rcp'[r].status = "completed" => rcp'[r].revoked
    BY <1>3 DEF SameLinks, SameGrants, OutboxInv, CompletedRevoked
  <2> QED
    BY <1>1, <2>1, <2>2, OutboxKept
<1> QED
  BY <1>2, <1>3, ViewStep

\* The actor of a decision ends up revoked.
LEMMA ActorRevoked ==
  ASSUME TypeInv, OutboxInv, NEW q, Decides(q)
  PROVE  /\ completedActor(q) \in [Recipients -> recipientRow]
         /\ \A r \in Recipients :
              /\ completedActor(q)[r].cap = rcp[r].cap /\ completedActor(q)[r].exp = rcp[r].exp
              /\ completedActor(q)[r].status = "completed" => completedActor(q)[r].revoked
PROOF
<1>1. q.r \in Recipients /\ rcp[q.r] \in recipientRow
  BY Orders DEF Decides, TypeInv, TypeOK
<1>2. completedActor(q)[q.r].revoked = TRUE
  BY <1>1, ActorRow DEF recipientRow
<1>3. completedActor(q) \in [Recipients -> recipientRow]
  BY <1>1, ActorRow
<1>4. \A r \in Recipients : rcp[r].status = "completed" => rcp[r].revoked
  BY DEF OutboxInv, CompletedRevoked
<1>5. \A r \in Recipients \ {q.r} : completedActor(q)[r] = rcp[r]
  BY DecidedRows
<1>6. completedActor(q)[q.r].cap = rcp[q.r].cap /\ completedActor(q)[q.r].exp = rcp[q.r].exp
  BY DecidedRows
<1>7. ASSUME NEW r \in Recipients
      PROVE  /\ completedActor(q)[r].cap = rcp[r].cap /\ completedActor(q)[r].exp = rcp[r].exp
             /\ completedActor(q)[r].status = "completed" => completedActor(q)[r].revoked
  <2>1. CASE r = q.r
    BY <1>2, <1>6, <2>1
  <2>2. CASE r # q.r
    BY <1>4, <1>5, <2>2
  <2> QED
    BY <2>1, <2>2
<1> QED
  BY <1>3, <1>7

LEMMA OutboxContinue ==
  ASSUME TypeInv, OutboxInv, NEW q, Decides(q), continueEffects(q)
  PROVE  OutboxInv'
PROOF
<1>1. env' \in Active
  BY OpenedActive DEF continueEffects, Decides
<1> QED
  BY <1>1, ActorRevoked, OutboxKept DEF continueEffects

\* The group a release opens has an open row only for the capability it
\* holds, and that row is blocked.
LEMMA OutboxRelease ==
  ASSUME TypeInv, OutboxInv, NEW q, Decides(q), releaseEffects(q)
  PROVE  OutboxInv'
PROOF
<1>1. env' \in Active
  BY OpenedActive DEF releaseEffects, Decides
<1>2. PICK n \in Nat \ {0} : n = audit + 1
  BY DEF TypeInv, TypeOK
<1>3. \A r \in Recipients : rcp[r] \in recipientRow
  BY DEF TypeInv, TypeOK
<1>4. \A r \in Recipients :
        rcp'[r] = IF r \in nextGroup(q) THEN [rcp[r] EXCEPT !.exp = n] ELSE completedActor(q)[r]
  BY <1>2 DEF releaseEffects
<1>5. \A r \in Recipients :
        /\ rcp'[r].cap = rcp[r].cap
        /\ rcp'[r].exp = IF r \in nextGroup(q) THEN n ELSE rcp[r].exp
        /\ rcp'[r].status = "completed" => rcp'[r].revoked
  <2> SUFFICES ASSUME NEW r \in Recipients
               PROVE  /\ rcp'[r].cap = rcp[r].cap
                      /\ rcp'[r].exp = IF r \in nextGroup(q) THEN n ELSE rcp[r].exp
                      /\ rcp'[r].status = "completed" => rcp'[r].revoked
    OBVIOUS
  <2>1. CASE r \in nextGroup(q)
    <3>1. rcp'[r] = [rcp[r] EXCEPT !.exp = n]
      BY <1>4, <2>1
    <3>2. /\ rcp'[r].cap = rcp[r].cap /\ rcp'[r].exp = n /\ rcp'[r].status = rcp[r].status
          /\ rcp'[r].revoked = rcp[r].revoked
      BY <1>3, <3>1 DEF recipientRow
    <3> QED
      BY <2>1, <3>2 DEF OutboxInv, CompletedRevoked
  <2>2. CASE r \notin nextGroup(q)
    BY <1>4, <2>2, ActorRevoked
  <2> QED
    BY <2>1, <2>2
<1>6. ASSUME NEW i \in Rows
      PROVE  RowOK(outbox'[i], i[2], rcp'[i[1]].cap, rcp'[i[1]].exp)
  <2>1. i[1] \in Recipients /\ outbox[i] \in outboxRow
    BY DEF Rows, TypeInv, TypeOK
  <2>2. RowOK(outbox[i], i[2], rcp[i[1]].cap, rcp[i[1]].exp)
    BY DEF OutboxInv, RowsOK
  <2>3. CASE i \in nextRows(q)
    <3> DEFINE row == [outbox[i] EXCEPT !.status = "pending", !.reserved = n]
    <3>1. i[1] \in nextGroup(q) /\ i[2] = rcp[i[1]].cap /\ outbox[i].status = "blocked"
      BY <2>3 DEF nextRows
    <3>2. outbox[i].sealed /\ outbox[i].retryable
      BY <2>2, <3>1 DEF RowOK, openRow, undelivered
    <3>3. outbox'[i] = row
      BY <1>2, <2>3 DEF releaseEffects
    <3>4. /\ row.status = "pending" /\ row.reserved = n
          /\ row.sealed = outbox[i].sealed /\ row.retryable = outbox[i].retryable
      BY <2>1 DEF outboxRow
    <3> HIDE DEF row
    <3>5. openRow(row)
      BY <3>4 DEF openRow, undelivered
    <3> QED
      BY <1>2, <1>5, <2>1, <3>1, <3>2, <3>3, <3>4, <3>5 DEF RowOK
  <2>4. CASE i \notin nextRows(q)
    <3>1. outbox'[i] = outbox[i]
      BY <2>4 DEF releaseEffects
    <3>2. CASE i[1] \in nextGroup(q)
      <4>1. rcp[i[1]].exp = 0
        BY <3>2 DEF nextGroup
      <4>2. ~openRow(outbox[i])
        <5> SUFFICES ASSUME openRow(outbox[i]) PROVE FALSE
          OBVIOUS
        <5>1. i[2] = rcp[i[1]].cap /\ outbox[i].status = "blocked" /\ outbox[i].sealed
          BY <2>2, <4>1 DEF RowOK
        <5> QED
          BY <2>4, <3>2, <5>1 DEF nextRows
      <4> QED
        BY <2>2, <3>1, <4>2 DEF RowOK
    <3>3. CASE i[1] \notin nextGroup(q)
      BY <1>5, <2>1, <2>2, <3>1, <3>3
    <3> QED
      BY <3>2, <3>3
  <2> QED
    BY <2>3, <2>4
<1>7. RowsOK'
  BY <1>6 DEF RowsOK, RowOK, openRow, undelivered
<1>8. Quiet' /\ AllRevoked'
  BY <1>1 DEF Quiet, AllRevoked, Active, Terminal
<1> QED
  BY <1>5, <1>7, <1>8 DEF OutboxInv, CompletedRevoked

\* The cleanup of a terminal transaction closes all but leased rows.
LEMMA CleanedRows ==
  ASSUME TypeInv, NEW i \in Rows
  PROVE  /\ Follows(terminalCleanup[i], outbox[i])
         /\ openRow(terminalCleanup[i]) => /\ outbox[i].status = "processing"
                                           /\ terminalCleanup[i].status = "processing"
PROOF
<1>1. outbox[i] \in outboxRow
  BY DEF TypeInv, TypeOK
<1>2. terminalCleanup[i] = IF undelivered(outbox[i]) THEN scrubbed(outbox[i]) ELSE outbox[i]
  BY DEF terminalCleanup
<1>3. CASE undelivered(outbox[i])
  BY <1>1, <1>2, <1>3, ScrubbedRow DEF Follows
<1>4. CASE ~undelivered(outbox[i])
  BY <1>2, <1>4 DEF Follows, openRow
<1> QED
  BY <1>3, <1>4

\* What revoking leaves, when everyone with a usable capability is revoked.
LEMMA RevokedRows ==
  ASSUME NEW rows \in [Recipients -> recipientRow], NEW R, NEW r \in Recipients,
         rows[r].status = "completed" => rows[r].revoked,
         rows[r].status # "completed" /\ rows[r].cap # 0 /\ ~rows[r].revoked => r \in R
  PROVE  LET row == revoke(rows, R)[r]
         IN  /\ row.cap = rows[r].cap /\ row.exp = rows[r].exp
             /\ row.status = "completed" => row.revoked
             /\ row.cap # 0 => row.revoked
PROOF
<1>1. rows[r] \in recipientRow
  OBVIOUS
<1>2. revoke(rows, R)[r] = IF r \in R THEN [rows[r] EXCEPT !.revoked = TRUE] ELSE rows[r]
  BY DEF revoke
<1>3. CASE r \in R
  <2> DEFINE row == [rows[r] EXCEPT !.revoked = TRUE]
  <2>1. row.revoked = TRUE /\ row.cap = rows[r].cap /\ row.exp = rows[r].exp
    BY <1>1 DEF recipientRow
  <2>2. revoke(rows, R)[r] = row
    BY <1>2, <1>3
  <2> HIDE DEF row
  <2> QED
    BY <2>1, <2>2
<1>4. CASE r \notin R
  BY <1>2, <1>4
<1> QED
  BY <1>3, <1>4

\* An ending: `rows' are the recipients as the command leaves its own actor.
LEMMA OutboxEnded ==
  ASSUME TypeInv, OutboxInv, env' \in Terminal,
         NEW rows \in [Recipients -> recipientRow], NEW R,
         \A r \in Recipients :
           /\ rows[r].cap = rcp[r].cap /\ rows[r].exp = rcp[r].exp
           /\ rows[r].status = "completed" => rows[r].revoked
           /\ rows[r].status # "completed" /\ rows[r].cap # 0 /\ ~rows[r].revoked => r \in R,
         rcp' = revoke(rows, R),
         outbox' = terminalCleanup,
         env' # "expired" => \A i \in Rows : ~openRow(terminalCleanup[i])
  PROVE  OutboxInv'
PROOF
<1>1. \A r \in Recipients :
        /\ rcp'[r].cap = rcp[r].cap /\ rcp'[r].exp = rcp[r].exp
        /\ rcp'[r].status = "completed" => rcp'[r].revoked
        /\ rcp'[r].cap # 0 => rcp'[r].revoked
  BY RevokedRows
<1>2. ASSUME NEW i \in Rows
      PROVE  RowOK(outbox'[i], i[2], rcp'[i[1]].cap, rcp'[i[1]].exp)
  <2>1. i[1] \in Recipients
    BY DEF Rows
  <2>2. RowOK(outbox[i], i[2], rcp[i[1]].cap, rcp[i[1]].exp)
    BY DEF OutboxInv, RowsOK
  <2>3. Follows(outbox'[i], outbox[i])
    BY CleanedRows
  <2>4. RowOK(outbox'[i], i[2], rcp[i[1]].cap, rcp[i[1]].exp)
    BY <2>2, <2>3, FollowedRow
  <2> QED
    BY <1>1, <2>1, <2>4
<1>3. RowsOK'
  BY <1>2 DEF RowsOK, RowOK, openRow, undelivered
<1>4. \A i \in Rows : env' # "expired" => ~openRow(outbox'[i])
  OBVIOUS
<1>5. Quiet'
  BY <1>4 DEF Quiet, openRow, undelivered
<1>6. AllRevoked' /\ CompletedRevoked'
  BY <1>1 DEF AllRevoked, CompletedRevoked
<1> QED
  BY <1>3, <1>5, <1>6 DEF OutboxInv

LEMMA OutboxComplete ==
  ASSUME TypeInv, OutboxInv, NEW q, Decides(q), completeEffects(q), terminalStateSafe
  PROVE  OutboxInv'
PROOF
<1> DEFINE rows == completedActor(q)
           R == revocable(rows, Nobody)
<1>1. rows \in [Recipients -> recipientRow]
  BY ActorRevoked
<1>2. \A r \in Recipients :
        /\ rows[r].cap = rcp[r].cap /\ rows[r].exp = rcp[r].exp
        /\ rows[r].status = "completed" => rows[r].revoked
  BY ActorRevoked
<1>3. \A r \in Recipients :
        rows[r].status # "completed" /\ rows[r].cap # 0 /\ ~rows[r].revoked => r \in R
  BY SigningConstants DEF revocable
<1>4. \A i \in Rows : ~openRow(terminalCleanup[i])
  BY DEF terminalStateSafe, openRow, undelivered
<1>5. rcp' = revoke(rows, R) /\ outbox' = terminalCleanup /\ env' \in Terminal
  BY DEF completeEffects, Terminal
<1> HIDE DEF rows, R
<1> QED
  BY <1>1, <1>2, <1>3, <1>4, <1>5, OutboxEnded

LEMMA OutboxDecision ==
  ASSUME TypeInv, OutboxInv, NEW s \in Sessions, publishApproved(s) \/ publishSigned(s)
  PROVE  OutboxInv'
PROOF
<1> DEFINE q == req[s]
<1>1. CASE Refuse(s) \/ AuditConflict(s)
  BY <1>1, OutboxUnchanged DEF Refuse, AuditConflict, recordVars
<1>2. CASE /\ prepareApproved(q.r, q.cap, q.at) \/ prepareSign(q.r, q.cap, q.at)
           /\ ~decisionRefused(q)
           /\ publishDecision(s, q)
  <2>1. Decides(q)
    BY <1>2, ApprovalDecides DEF publishApproved, publishSigned, publishing
  <2>2. q.plan.kind = "complete" => terminalStateSafe
    BY <1>2 DEF decisionRefused
  <2> HIDE DEF q
  <2> QED
    BY <1>2, <2>1, <2>2, OutboxContinue, OutboxRelease, OutboxComplete DEF publishDecision
<1> QED
  BY <1>1, <1>2 DEF publishApproved, publishSigned

\* Without a lease the cleanup closes every row.
LEMMA Fenced ==
  ASSUME TypeInv, ~processing(Recipients)
  PROVE  \A i \in Rows : ~openRow(terminalCleanup[i])
PROOF
<1>1. \A i \in Rows : i[1] \in Recipients
  BY DEF Rows
<1> QED
  BY <1>1, CleanedRows DEF processing

LEMMA OutboxVoidExpiry ==
  ASSUME TypeInv, OutboxInv, NEW s \in Sessions, publishVoid(s) \/ publishEnvelopeExpiry(s)
  PROVE  OutboxInv'
PROOF
<1> DEFINE R == revocable(rcp, Nobody)
<1>1. CASE Refuse(s) \/ AuditConflict(s)
  BY <1>1, OutboxUnchanged DEF Refuse, AuditConflict, recordVars
<1>2. CASE /\ rcp' = revoke(rcp, R) /\ outbox' = terminalCleanup
           /\ env' = "expired" \/ (env' = "voided" /\ ~processing(Recipients))
  <2>1. rcp \in [Recipients -> recipientRow]
    BY DEF TypeInv, TypeOK
  <2>2. \A r \in Recipients :
          /\ rcp[r].status = "completed" => rcp[r].revoked
          /\ rcp[r].status # "completed" /\ rcp[r].cap # 0 /\ ~rcp[r].revoked => r \in R
    BY SigningConstants DEF OutboxInv, CompletedRevoked, revocable
  <2>3. env' # "expired" => \A i \in Rows : ~openRow(terminalCleanup[i])
    BY <1>2, Fenced
  <2>4. env' \in Terminal /\ outbox' = terminalCleanup /\ rcp' = revoke(rcp, R)
    BY <1>2 DEF Terminal
  <2> HIDE DEF R
  <2>5. \A r \in Recipients :
          /\ rcp[r].cap = rcp[r].cap /\ rcp[r].exp = rcp[r].exp
          /\ rcp[r].status = "completed" => rcp[r].revoked
          /\ rcp[r].status # "completed" /\ rcp[r].cap # 0 /\ ~rcp[r].revoked => r \in R
    BY <2>2
  <2> QED
    BY <2>1, <2>3, <2>4, <2>5, OutboxEnded
<1>3. CASE publishVoid(s)
  BY <1>1, <1>2, <1>3 DEF publishVoid
<1>4. CASE publishEnvelopeExpiry(s)
  BY <1>1, <1>2, <1>4 DEF publishEnvelopeExpiry
<1> QED
  BY <1>3, <1>4

LEMMA OutboxDecline ==
  ASSUME TypeInv, OutboxInv, NEW s \in Sessions, publishDeclined(s)
  PROVE  OutboxInv'
PROOF
<1> DEFINE q == req[s]
           row == [rcp[q.r] EXCEPT !.status = "declined", !.revoked = TRUE]
           rows == [rcp EXCEPT ![q.r] = row]
           R == revocable(rcp, q.r)
<1>1. CASE Refuse(s) \/ AuditConflict(s)
  BY <1>1, OutboxUnchanged DEF Refuse, AuditConflict, recordVars
<1>2. CASE /\ rcp' = revoke([rcp EXCEPT ![q.r].status = "declined", ![q.r].revoked = TRUE], q.revoked)
           /\ outbox' = terminalCleanup /\ env' = "declined"
           /\ q.revoked = R /\ ~processing(Recipients)
  <2>1. rcp \in [Recipients -> recipientRow] /\ q.r \in Recipients /\ rcp[q.r] \in recipientRow
    BY Addressed DEF TypeInv, TypeOK, publishDeclined, RecipientCommand
  <2>2. [rcp EXCEPT ![q.r].status = "declined", ![q.r].revoked = TRUE] = rows
    BY <2>1
  <2>3. rcp' = revoke(rows, R)
    BY <1>2, <2>2
  <2>4. /\ row \in recipientRow /\ row.status = "declined" /\ row.revoked = TRUE
        /\ row.cap = rcp[q.r].cap /\ row.exp = rcp[q.r].exp
    BY <2>1 DEF recipientRow, RecipientStatus
  <2>5. \A r \in Recipients : r # q.r /\ rcp[r].status # "completed" /\ rcp[r].cap # 0
                                /\ ~rcp[r].revoked => r \in R
    BY DEF revocable
  <2> HIDE DEF q, row, R
  <2>6. rows \in [Recipients -> recipientRow]
    BY <2>1, <2>4
  <2>7. \A r \in Recipients : rows[r] = IF r = q.r THEN row ELSE rcp[r]
    BY <2>1
  <2> HIDE DEF rows
  <2>8. \A r \in Recipients :
          /\ rows[r].cap = rcp[r].cap /\ rows[r].exp = rcp[r].exp
          /\ rows[r].status = "completed" => rows[r].revoked
          /\ rows[r].status # "completed" /\ rows[r].cap # 0 /\ ~rows[r].revoked => r \in R
    <3> SUFFICES ASSUME NEW r \in Recipients
                 PROVE  /\ rows[r].cap = rcp[r].cap /\ rows[r].exp = rcp[r].exp
                        /\ rows[r].status = "completed" => rows[r].revoked
                        /\ rows[r].status # "completed" /\ rows[r].cap # 0 /\ ~rows[r].revoked
                             => r \in R
      OBVIOUS
    <3>1. CASE r = q.r
      BY <2>4, <2>7, <3>1
    <3>2. CASE r # q.r
      BY <2>5, <2>7, <3>2 DEF OutboxInv, CompletedRevoked
    <3> QED
      BY <3>1, <3>2
  <2>9. env' \in Terminal /\ outbox' = terminalCleanup
    BY <1>2 DEF Terminal
  <2>10. \A i \in Rows : ~openRow(terminalCleanup[i])
    <3>1. ~processing(Recipients)
      BY <1>2, Zenon
    <3> QED
      BY <3>1, Fenced
  <2> QED
    BY <2>3, <2>6, <2>8, <2>9, <2>10, OutboxEnded
<1> QED
  BY <1>1, <1>2 DEF publishDeclined

\* A reissue closes the recipient's queued row and opens the replacement.
LEMMA OutboxReissue ==
  ASSUME TypeInv, OutboxInv, NEW s \in Sessions, publishReissue(s)
  PROVE  OutboxInv'
PROOF
<1> DEFINE q == req[s]
           k == rcp[q.r].cap + 1
           row == [rcp[q.r] EXCEPT !.cap = k, !.exp = audit + 1, !.revoked = FALSE]
<1>1. CASE Refuse(s) \/ AuditConflict(s)
  BY <1>1, OutboxUnchanged DEF Refuse, AuditConflict, recordVars
<1>2. CASE /\ reissuable(q.r) /\ k <= MaxIssues
           /\ rcp' = [rcp EXCEPT ![q.r].cap = k, ![q.r].exp = audit + 1, ![q.r].revoked = FALSE]
           /\ outbox' = [i \in Rows |->
                           IF i = <<q.r, k>> THEN NewRow("pending", audit + 1)
                           ELSE IF i[1] = q.r /\ supersedable(outbox[i]) THEN scrubbed(outbox[i])
                           ELSE outbox[i]]
           /\ UNCHANGED env
  <2>1. rcp \in [Recipients -> recipientRow] /\ q.r \in Recipients /\ rcp[q.r] \in recipientRow
    BY Addressed DEF TypeInv, TypeOK, publishReissue, RecipientCommand
  <2>2. PICK n \in Nat \ {0} : n = audit + 1
    BY DEF TypeInv, TypeOK
  <2>3. PICK j \in Nat \ {0} : j = k
    BY <2>1 DEF recipientRow
  <2>4. rcp' = [rcp EXCEPT ![q.r] = [rcp[q.r] EXCEPT !.cap = j, !.exp = n, !.revoked = FALSE]]
    BY <1>2, <2>1, <2>2, <2>3
  <2>5. /\ rcp'[q.r].cap = j /\ rcp'[q.r].exp = n /\ rcp'[q.r].status = rcp[q.r].status
        /\ \A r \in Recipients \ {q.r} : rcp'[r] = rcp[r]
    BY <2>1, <2>4 DEF recipientRow
  <2>6. env \in Active /\ rcp[q.r].status # "completed" /\ ~processing({q.r})
    BY <1>2 DEF reissuable, released
  <2>7. \A i \in Rows : i[1] = q.r => outbox[i].status \notin {"processing", "blocked"}
    <3> SUFFICES ASSUME NEW i \in Rows, i[1] = q.r
                 PROVE  outbox[i].status # "processing" /\ outbox[i].status # "blocked"
      OBVIOUS
    <3>1. i = <<q.r, i[2]>> /\ i[2] \in 1..MaxIssues
      BY DEF Rows
    <3>2. outbox[i].status # "processing"
      BY <2>6 DEF processing
    <3>3. outbox[i].status # "blocked"
      BY <1>2, <3>1 DEF reissuable
    <3> QED
      BY <3>2, <3>3
  <2>8. \A i \in Rows : outbox'[i] = IF i = <<q.r, j>> THEN NewRow("pending", n)
                                     ELSE IF i[1] = q.r /\ supersedable(outbox[i])
                                     THEN scrubbed(outbox[i]) ELSE outbox[i]
    BY <1>2, <2>2, <2>3
  <2> HIDE DEF q, k, row
  <2>9. ASSUME NEW i \in Rows
        PROVE  RowOK(outbox'[i], i[2], rcp'[i[1]].cap, rcp'[i[1]].exp)
    <3>1. i[1] \in Recipients /\ outbox[i] \in outboxRow
      BY DEF Rows, TypeInv, TypeOK
    <3>2. RowOK(outbox[i], i[2], rcp[i[1]].cap, rcp[i[1]].exp)
      BY DEF OutboxInv, RowsOK
    <3>3. CASE i = <<q.r, j>>
      <4>1. outbox'[i] = NewRow("pending", n) /\ i[1] = q.r /\ i[2] = j
        BY <2>8, <3>3
      <4>2. n \in Nat /\ n # 0
        BY <2>2
      <4> QED
        BY <2>5, <4>1, <4>2, QueuedRow DEF RowOK
    <3>4. CASE i # <<q.r, j>> /\ i[1] = q.r /\ supersedable(outbox[i])
      <4>1. outbox'[i] = scrubbed(outbox[i])
        BY <2>8, <3>4
      <4> QED
        BY <3>1, <4>1, ScrubbedRow DEF RowOK
    <3>5. CASE i # <<q.r, j>> /\ i[1] = q.r /\ ~supersedable(outbox[i])
      <4>1. outbox'[i] = outbox[i]
        BY <2>8, <3>5
      <4>2. ~openRow(outbox[i])
        BY <2>7, <3>5 DEF openRow, undelivered, supersedable
      <4> QED
        BY <3>2, <4>1, <4>2 DEF RowOK
    <3>6. CASE i[1] # q.r
      <4>1. i # <<q.r, j>>
        BY <3>6
      <4>2. outbox'[i] = outbox[i] /\ rcp'[i[1]] = rcp[i[1]]
        BY <2>5, <2>8, <3>1, <3>6, <4>1
      <4> QED
        BY <3>2, <4>2
    <3> QED
      BY <3>3, <3>4, <3>5, <3>6
  <2>10. RowsOK'
    BY <2>9 DEF RowsOK, RowOK, openRow, undelivered
  <2>11. Quiet' /\ AllRevoked'
    BY <1>2, <2>6 DEF Quiet, AllRevoked, Active, Terminal
  <2>12. CompletedRevoked'
    BY <2>5, <2>6 DEF CompletedRevoked, OutboxInv
  <2> QED
    BY <2>10, <2>11, <2>12 DEF OutboxInv
<1> QED
  BY <1>1, <1>2 DEF publishReissue

-----------------------------------------------------------------------------
\* Steps outside the publications and the delivery side.
LEMMA OutboxElsewhere ==
  ASSUME lapse \/ \E s \in Sessions :
           \/ beginSend(s) \/ beginRecipient(s) \/ beginVoid(s) \/ beginReissue(s)
           \/ drainExpiredEnvelopes(s) \/ Retry(s)
  PROVE  UNCHANGED <<env, rcp, outbox>>
PROOF
  BY DEF lapse, beginSend, beginRecipient, beginVoid, beginReissue, drainExpiredEnvelopes, Begin,
         Retry, recordVars

LEMMA OutboxStep ==
  ASSUME TypeInv, RoutingInv, OutboxInv, [Next]_vars
  PROVE  OutboxInv'
PROOF
<1>1. CASE UNCHANGED vars
  BY <1>1, OutboxUnchanged DEF vars
<1>2. ASSUME NEW s \in Sessions, session(s) PROVE OutboxInv'
  BY <1>2, OutboxElsewhere, OutboxUnchanged, OutboxSend, OutboxView, OutboxDecision,
     OutboxDecline, OutboxVoidExpiry, OutboxReissue DEF session
<1>3. CASE drain
  BY <1>3, OutboxDrain DEF drain
<1>4. CASE lapse
  BY <1>4, OutboxElsewhere, OutboxUnchanged
<1> QED
  BY <1>1, <1>2, <1>3, <1>4, OutboxTask, OutboxLease DEF Next

LEMMA OutboxInit ==
  ASSUME Init
  PROVE  OutboxInv
PROOF
<1>1. ~openRow(NoRow) /\ ~NoRow.sealed /\ ~NoRow.retryable
  BY DEF openRow, undelivered, NoRow
<1>2. \A i \in Rows : outbox[i] = NoRow
  BY DEF Init
<1>3. RowsOK /\ Quiet
  BY <1>1, <1>2 DEF RowsOK, RowOK, Quiet
<1> QED
  BY <1>3 DEF Init, OutboxInv, AllRevoked, CompletedRevoked, Terminal

LEMMA OutboxInvariant == Spec => []OutboxInv
PROOF
  BY TypeInvariant, RoutingInvariant, OutboxInit, OutboxStep, PTL DEF Spec

\* After any history of releases, reissues, failures, crashes and outlived
\* leases, an invitation still to be delivered is the one for the recipient's
\* current capability and expiry.
THEOREM OpenRowsCurrent == Spec => []OpenRowCurrent
PROOF
<1>1. OutboxInv => OpenRowCurrent
  BY DEF OutboxInv, RowsOK, RowOK, OpenRowCurrent
<1> QED
  BY <1>1, OutboxInvariant, PTL

\* However an envelope ends, no capability stays usable; and unless it
\* expired, no invitation and no ciphertext is left, under a lease or not.
THEOREM EndingsScrub == Spec => []TerminalScrubbed
PROOF
<1>1. OutboxInv => TerminalScrubbed
  <2> SUFFICES ASSUME OutboxInv, env \in Terminal PROVE TerminalScrubbed
    BY DEF TerminalScrubbed
  <2>1. \A r \in Recipients : rcp[r].cap # 0 => rcp[r].revoked
    BY DEF OutboxInv, AllRevoked
  <2>2. env # "expired" => \A i \in Rows : ~openRow(outbox[i])
    BY DEF OutboxInv, Quiet, Terminal
  <2>3. env # "expired" => \A i \in Rows : ~outbox[i].sealed /\ ~outbox[i].retryable
    BY <2>2 DEF OutboxInv, RowsOK, RowOK
  <2> QED
    BY <2>1, <2>2, <2>3 DEF TerminalScrubbed
<1> QED
  BY <1>1, OutboxInvariant, PTL
-----------------------------------------------------------------------------
(***************************************************************************)
(* The fence.  As long as no lease is outlived, every running task holds   *)
(* the lease of its row, which is not past its time, and is the only task  *)
(* of that row.  So a claim starts tasks on rows without one, and whatever *)
(* leaves leased rows alone leaves the tasks theirs.                       *)
(***************************************************************************)
Fence ==
  overruns = 0 =>
    /\ \A t \in tasks : holdsLease(t) /\ ~outbox[rowOf(t)].stale
    /\ \A t, u \in tasks : rowOf(t) = rowOf(u) => t = u

\* Rows under a lease are written by the drain, their task and time alone.
LeasesKept == \A i \in Rows : outbox[i].status = "processing" => outbox'[i] = outbox[i]

LEMMA FenceKept ==
  ASSUME TypeInv, Fence, LeasesKept, tasks' \subseteq tasks, UNCHANGED overruns
  PROVE  Fence'
PROOF
<1>1. \A t \in tasks : rowOf(t) \in Rows
  BY TaskRow
<1> SUFFICES ASSUME overruns = 0
             PROVE  /\ \A t \in tasks' : /\ outbox'[rowOf(t)].status = "processing"
                                         /\ outbox'[rowOf(t)].token = t.token
                                         /\ ~outbox'[rowOf(t)].stale
                    /\ \A t, u \in tasks' : rowOf(t) = rowOf(u) => t = u
  BY DEF Fence, holdsLease, rowOf
<1>2. \A t \in tasks : /\ outbox[rowOf(t)].status = "processing"
                       /\ outbox[rowOf(t)].token = t.token /\ ~outbox[rowOf(t)].stale
  BY DEF Fence, holdsLease
<1> QED
  BY <1>1, <1>2 DEF Fence, LeasesKept

LEMMA CleanupKeepsLeases ==
  ASSUME outbox' = terminalCleanup
  PROVE  LeasesKept
PROOF
  BY DEF terminalCleanup, undelivered, LeasesKept

\* No publication touches a leased row.
LEMMA SessionKeepsLeases ==
  ASSUME TypeInv, OutboxInv, NEW s \in Sessions, session(s)
  PROVE  LeasesKept /\ UNCHANGED <<tasks, overruns>>
PROOF
<1>1. CASE UNCHANGED outbox /\ UNCHANGED <<tasks, overruns>>
  BY <1>1 DEF LeasesKept
<1>2. CASE publishSend(s)
  <2>1. env = "ready" => \A i \in Rows : outbox[i].status # "processing"
    BY DEF OutboxInv, Quiet, openRow
  <2> QED
    BY <1>1, <1>2, <2>1 DEF publishSend, Refuse, Published, LeasesKept, recordVars, deliveryVars
<1>3. CASE publishApproved(s) \/ publishSigned(s)
  <2> DEFINE q == req[s]
  <2>1. ASSUME releaseEffects(q) PROVE LeasesKept
    BY <2>1 DEF releaseEffects, nextRows, LeasesKept
  <2>2. ASSUME publishDecision(s, q) PROVE LeasesKept /\ UNCHANGED <<tasks, overruns>>
    BY <2>1, <2>2, CleanupKeepsLeases
    DEF publishDecision, continueEffects, completeEffects, Published, LeasesKept, deliveryVars
  <2> QED
    BY <1>1, <1>3, <2>2
    DEF publishApproved, publishSigned, Refuse, AuditConflict, recordVars, deliveryVars
<1>4. CASE publishDeclined(s) \/ publishVoid(s) \/ publishEnvelopeExpiry(s)
  BY <1>1, <1>4, CleanupKeepsLeases
  DEF publishDeclined, publishVoid, publishEnvelopeExpiry, Refuse, AuditConflict, Published,
      recordVars, deliveryVars
<1>5. CASE publishReissue(s)
  <2>1. CASE Refuse(s) \/ AuditConflict(s)
    BY <1>1, <2>1 DEF Refuse, AuditConflict, recordVars, deliveryVars
  <2>2. CASE /\ reissuable(req[s].r) /\ Published(s, 1)
             /\ outbox' = [i \in Rows |->
                             IF i = <<req[s].r, rcp[req[s].r].cap + 1>> THEN NewRow("pending", audit + 1)
                             ELSE IF i[1] = req[s].r /\ supersedable(outbox[i]) THEN scrubbed(outbox[i])
                             ELSE outbox[i]]
    <3>1. \A i \in Rows : i[1] = req[s].r => outbox[i].status # "processing"
      BY <2>2 DEF reissuable, processing
    <3> QED
      BY <2>2, <3>1 DEF LeasesKept, Published, deliveryVars
  <2> QED
    BY <1>5, <2>1, <2>2 DEF publishReissue
<1> QED
  BY <1>1, <1>2, <1>3, <1>4, <1>5
  DEF session, beginSend, beginRecipient, beginVoid, beginReissue, drainExpiredEnvelopes, Begin,
      Retry, publishViewed, Refuse, AuditConflict, Published, recordVars, deliveryVars

\* What the drain claims has no task, and what it cleans up is not claimed.
LEMMA FenceDrain ==
  ASSUME TypeInv, Fence, NEW dead, NEW claimed, claimPendingInvitations(dead, claimed)
  PROVE  Fence'
PROOF
<1> DEFINE new(i) == [r |-> i[1], k |-> i[2], token |-> outbox[i].attempts + 1,
                      at |-> lapsed, pc |-> "claimed"]
<1>1. /\ dead \subseteq terminalCandidates /\ claimed \subseteq claimCandidates
      /\ outbox' = [i \in Rows |-> IF i \in dead THEN scrubbed(outbox[i])
                                   ELSE IF i \in claimed THEN claim(outbox[i]) ELSE outbox[i]]
      /\ tasks' = tasks \cup {new(i) : i \in claimed} /\ UNCHANGED overruns
  BY DEF claimPendingInvitations
<1>2. \A i \in claimed : i \in Rows /\ i \notin dead
  BY <1>1 DEF claimCandidates, terminalCandidates, leaseStale
<1>3. \A i \in dead \cup claimed : outbox[i].status = "processing" => outbox[i].stale
  BY <1>1 DEF claimCandidates, terminalCandidates, leaseStale
<1>4. \A i \in Rows : outbox[i] \in outboxRow
  BY DEF TypeInv, TypeOK
<1>5. \A i \in claimed : /\ outbox'[i].status = "processing" /\ ~outbox'[i].stale
                         /\ outbox'[i].token = new(i).token
  <2> SUFFICES ASSUME NEW i \in claimed
               PROVE  /\ outbox'[i].status = "processing" /\ ~outbox'[i].stale
                      /\ outbox'[i].token = outbox[i].attempts + 1
    OBVIOUS
  <2> DEFINE n == outbox[i].attempts + 1
             c == [outbox[i] EXCEPT !.status = "processing", !.attempts = n, !.token = n,
                                    !.stale = FALSE]
  <2>1. outbox'[i] = c
    BY <1>1, <1>2 DEF claim
  <2>2. outbox[i] \in outboxRow
    BY <1>2, <1>4
  <2> HIDE DEF n
  <2>3. c.status = "processing" /\ c.stale = FALSE /\ c.token = n
    BY <2>2 DEF outboxRow
  <2> QED
    BY <2>1, <2>3 DEF n
<1>6. \A i \in claimed : rowOf(new(i)) = i
  BY <1>2 DEF rowOf, Rows
<1>7. \A t \in tasks : rowOf(t) \in Rows
  BY TaskRow
<1> HIDE DEF new
<1> SUFFICES ASSUME overruns = 0
             PROVE  /\ \A t \in tasks' : /\ outbox'[rowOf(t)].status = "processing"
                                         /\ outbox'[rowOf(t)].token = t.token
                                         /\ ~outbox'[rowOf(t)].stale
                    /\ \A t, u \in tasks' : rowOf(t) = rowOf(u) => t = u
  BY <1>1 DEF Fence, holdsLease, rowOf
<1>8. \A t \in tasks : /\ outbox[rowOf(t)].status = "processing"
                       /\ outbox[rowOf(t)].token = t.token /\ ~outbox[rowOf(t)].stale
                       /\ rowOf(t) \notin dead \cup claimed
  BY <1>3 DEF Fence, holdsLease
<1>9. \A t \in tasks : outbox'[rowOf(t)] = outbox[rowOf(t)]
  BY <1>1, <1>7, <1>8
<1>10. \A t, u \in tasks : rowOf(t) = rowOf(u) => t = u
  BY DEF Fence
<1>11. ASSUME NEW t \in tasks'
       PROVE  t \in tasks \/ \E i \in claimed : t = new(i)
  BY <1>1
<1>12. ASSUME NEW t \in tasks'
       PROVE  /\ outbox'[rowOf(t)].status = "processing"
              /\ outbox'[rowOf(t)].token = t.token /\ ~outbox'[rowOf(t)].stale
  <2>1. CASE t \in tasks
    BY <1>8, <1>9, <2>1
  <2>2. ASSUME NEW i \in claimed, t = new(i)
        PROVE  /\ outbox'[rowOf(t)].status = "processing"
               /\ outbox'[rowOf(t)].token = t.token /\ ~outbox'[rowOf(t)].stale
    BY <1>5, <1>6, <2>2
  <2> QED
    BY <1>11, <2>1, <2>2
<1>13. \A t, u \in tasks' : rowOf(t) = rowOf(u) => t = u
  BY <1>6, <1>8, <1>10, <1>11
<1> QED
  BY <1>12, <1>13

LEMMA FenceTask ==
  ASSUME TypeInv, Fence, NEW t \in tasks, deliverClaim(t) \/ crash(t)
  PROVE  Fence'
PROOF
<1>0. \A u \in tasks : rowOf(u) \in Rows
  BY TaskRow
<1>1. CASE UNCHANGED <<outbox, overruns>> /\ tasks' \subseteq tasks
  BY <1>1, FenceKept DEF LeasesKept
<1>2. ASSUME NEW pc, UNCHANGED <<outbox, overruns>>, Step(t, pc)
      PROVE  Fence'
  <2> DEFINE v == [t EXCEPT !.pc = pc]
  <2>1. v.r = t.r /\ v.k = t.k /\ v.token = t.token
    BY DEF TypeInv, TypeOK, task
  <2>2. tasks' = (tasks \ {t}) \cup {v}
    BY <1>2 DEF Step
  <2> HIDE DEF v
  <2> QED
    BY <1>2, <2>1, <2>2 DEF Fence, holdsLease, rowOf
<1>3. CASE completeInvitationDelivery(t) \/ failInvitationDelivery(t)
  <2>1. tasks' = tasks \ {t} /\ UNCHANGED overruns
    BY <1>3 DEF completeInvitationDelivery, failInvitationDelivery
  <2>2. \A i \in Rows : i # rowOf(t) => outbox'[i] = outbox[i]
    BY <1>3 DEF completeInvitationDelivery, failInvitationDelivery, TypeInv, TypeOK
  <2> SUFFICES ASSUME overruns = 0
               PROVE  /\ \A u \in tasks' : /\ outbox'[rowOf(u)].status = "processing"
                                           /\ outbox'[rowOf(u)].token = u.token
                                           /\ ~outbox'[rowOf(u)].stale
                      /\ \A u, w \in tasks' : rowOf(u) = rowOf(w) => u = w
    BY <2>1 DEF Fence, holdsLease, rowOf
  <2>3. \A u \in tasks' : u \in tasks /\ rowOf(u) # rowOf(t)
    BY <2>1 DEF Fence
  <2>4. \A u \in tasks : /\ outbox[rowOf(u)].status = "processing"
                         /\ outbox[rowOf(u)].token = u.token /\ ~outbox[rowOf(u)].stale
    BY DEF Fence, holdsLease
  <2> QED
    BY <1>0, <2>2, <2>3, <2>4 DEF Fence
<1> QED
  BY <1>1, <1>2, <1>3 DEF deliverClaim, readClaimedInvitation, sendMail, crash, recordVars

LEMMA FenceLease ==
  ASSUME TypeInv, Fence, NEW i \in Rows, leaseExpires(i)
  PROVE  Fence'
PROOF
<1>1. overruns \in Nat /\ outbox \in [Rows -> outboxRow] /\ \A t \in tasks : rowOf(t) \in Rows
  BY TaskRow, SigningConstants DEF TypeInv, TypeOK
<1>2. CASE overruns' # 0
  BY <1>2 DEF Fence
<1>3. CASE overruns' = 0
  <2>1. orphaned(i) /\ overruns = 0 /\ UNCHANGED tasks
    BY <1>1, <1>3 DEF leaseExpires
  <2>2. \A t \in tasks : rowOf(t) # i
    BY <2>1 DEF orphaned, Fence
  <2>3. \A t \in tasks : outbox'[rowOf(t)] = outbox[rowOf(t)]
    BY <1>1, <2>2 DEF leaseExpires
  <2>4. \A t \in tasks : /\ outbox[rowOf(t)].status = "processing"
                         /\ outbox[rowOf(t)].token = t.token /\ ~outbox[rowOf(t)].stale
    BY <2>1 DEF Fence, holdsLease
  <2>5. \A t \in tasks : /\ outbox'[rowOf(t)].status = "processing"
                         /\ outbox'[rowOf(t)].token = t.token /\ ~outbox'[rowOf(t)].stale
    BY <2>3, <2>4
  <2> QED
    BY <2>1, <2>5 DEF Fence, holdsLease, rowOf
<1> QED
  BY <1>2, <1>3

LEMMA FenceStep ==
  ASSUME TypeInv, OutboxInv, Fence, [Next]_vars
  PROVE  Fence'
PROOF
<1>1. CASE lapse \/ UNCHANGED vars
  <2>1. UNCHANGED <<outbox, tasks, overruns>>
    BY <1>1 DEF lapse, vars, recordVars, deliveryVars
  <2> QED
    BY <2>1, FenceKept DEF LeasesKept
<1>2. ASSUME NEW s \in Sessions, session(s) PROVE Fence'
  BY <1>2, SessionKeepsLeases, FenceKept
<1> QED
  BY <1>1, <1>2, FenceDrain, FenceTask, FenceLease DEF Next, drain

LEMMA FenceInvariant == Spec => []Fence
PROOF
<1>1. Init => Fence
  BY DEF Init, Fence
<1> QED
  BY <1>1, FenceStep, TypeInvariant, OutboxInvariant, PTL DEF Spec

\* Unless a lease was outlived, a message on its way to the provider carries
\* the current capability, under the lease it was claimed with, and nothing
\* but an expiry has ended its envelope (claimPendingInvitations against the
\* fenced commands).
THEOREM SubmissionsFenced == Spec => []SubmissionFenced
PROOF
<1>1. TypeInv /\ OutboxInv /\ Fence => SubmissionFenced
  <2> SUFFICES ASSUME TypeInv, OutboxInv, Fence, overruns = 0, NEW t \in tasks
               PROVE  /\ holdsLease(t) /\ rcp[t.r].cap = t.k
                      /\ env \in Active \cup {"expired"}
    BY DEF SubmissionFenced
  <2>1. holdsLease(t)
    BY DEF Fence
  <2>2. rowOf(t) \in Rows /\ openRow(outbox[rowOf(t)])
    BY <2>1, TaskRow DEF holdsLease, openRow
  <2>3. rcp[t.r].cap = t.k
    BY <2>2 DEF OutboxInv, RowsOK, RowOK, rowOf
  <2>4. env \notin {"ready", "completed", "declined", "voided"}
    BY <2>2 DEF OutboxInv, Quiet
  <2>5. env \in Active \cup {"expired"}
    BY <2>4 DEF TypeInv, TypeOK, EnvelopeStatus, Active
  <2> QED
    BY <2>1, <2>3, <2>5
<1> QED
  BY <1>1, TypeInvariant, OutboxInvariant, FenceInvariant, PTL

=============================================================================
