--------------------------- MODULE EnvelopeDomain ---------------------------
(***************************************************************************)
(* The vocabulary of the envelope aggregate (src/lib/domain/envelope.ts)   *)
(* and the pure routing rules that decide what one recipient's decision    *)
(* does to the rest of the envelope                                        *)
(* (src/lib/domain/commands/recipient-decision-routing.ts).                *)
(***************************************************************************)
EXTENDS Integers, FiniteSets

CONSTANTS
  Recipients,     \* the recipient rows of one envelope
  Role,           \* recipient.role
  RoutingOrder    \* recipient.routing_order

EnvelopeStatus ==
  {"draft", "ready", "sent", "in_progress", "completed", "declined", "expired", "voided"}

Active == {"sent", "in_progress"}
Terminal == {"completed", "declined", "expired", "voided"}

\* A `prefill' recipient is rejected by the ready command and never occurs.
Roles == {"signer", "approver", "viewer", "cc"}
RecipientStatus == {"pending", "viewed", "completed", "declined"}

isActionableRecipientRole(role) == role \in {"signer", "approver"}
isPostSendInvitationRecipientRole(role) == isActionableRecipientRole(role) \/ role = "viewer"

Actionable == {r \in Recipients : isActionableRecipientRole(Role[r])}
Invited == {r \in Recipients : isPostSendInvitationRecipientRole(Role[r])}

\* What the ready command accepts as a recipient graph.
assertReadyInput ==
  /\ IsFiniteSet(Recipients)
  /\ Role \in [Recipients -> Roles]
  /\ RoutingOrder \in [Recipients -> Nat \ {0}]
  /\ Actionable # {}
  /\ \A v \in Recipients :
       Role[v] = "viewer" => \E r \in Actionable : RoutingOrder[r] = RoutingOrder[v]

ASSUME RecipientGraph == assertReadyInput

-----------------------------------------------------------------------------
(***************************************************************************)
(* Routing.  `st' maps every recipient to its status.                      *)
(***************************************************************************)

\* Actionable recipients other than the actor that have not completed.
remainingActionable(st, actor) ==
  {r \in Actionable : r # actor /\ st[r] # "completed"}

laterOrders(st, actor) ==
  {RoutingOrder[r] : r \in {q \in remainingActionable(st, actor) :
                              RoutingOrder[q] > RoutingOrder[actor]}}

Least(S) == CHOOSE n \in S : \A m \in S : n <= m

\* The invitation roles of one order that have not completed.
groupOf(st, actor, n) ==
  {r \in Invited : r # actor /\ st[r] # "completed" /\ RoutingOrder[r] = n}

NoOrder == 0

recipientDecisionRoutingSnapshot(st, actor) ==
  LET later == laterOrders(st, actor)
      next  == IF later = {} THEN NoOrder ELSE Least(later)
  IN  [currentGroupOutstanding |->
         Cardinality({r \in remainingActionable(st, actor) :
                        RoutingOrder[r] = RoutingOrder[actor]}),
       remainingActionableOutstanding |-> Cardinality(remainingActionable(st, actor)),
       nextRoutingOrder |-> next,
       nextGroupCount |-> IF next = NoOrder THEN 0 ELSE Cardinality(groupOf(st, actor, next))]

\* Slip: the envelope completes with the group.
planRecipientDecisionRouting_groupOnly(routing) ==
  IF routing.currentGroupOutstanding = 0
  THEN [kind |-> "complete", next |-> NoOrder, count |-> 0]
  ELSE [kind |-> "continue", next |-> NoOrder, count |-> 0]

planRecipientDecisionRouting(routing) ==
  IF routing.remainingActionableOutstanding = 0
  THEN [kind |-> "complete", next |-> NoOrder, count |-> 0]
  ELSE IF routing.currentGroupOutstanding = 0 /\ routing.nextRoutingOrder # NoOrder
  THEN [kind |-> "release", next |-> routing.nextRoutingOrder, count |-> routing.nextGroupCount]
  ELSE [kind |-> "continue", next |-> NoOrder, count |-> 0]

PlanFor(st, actor) ==
  planRecipientDecisionRouting(recipientDecisionRoutingSnapshot(st, actor))

\* The least order that holds an actionable recipient: the group a send opens.
initialRoutingOrder == Least({RoutingOrder[r] : r \in Actionable})
=============================================================================
