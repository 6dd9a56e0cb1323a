-------------------------- MODULE EnvelopeLifecycle --------------------------
(***************************************************************************)
(* What a sent envelope promises, whatever the interleaving of commands,   *)
(* retries, deliveries and drains beneath: recipients act in routing order,*)
(* exactly the groups whose turn has come hold a usable link, the envelope *)
(* completes with the last required action and with no other, and a        *)
(* terminal status is final.                                               *)
(***************************************************************************)
EXTENDS EnvelopeDomain

VARIABLES
  status,   \* envelope status
  acted,    \* the actionable recipients who approved or signed
  open      \* the recipients whose link has been opened

lifecycle == <<status, acted, open>>

\* The invited recipients no outstanding actionable recipient precedes.
Frontier(done) ==
  {r \in Invited : \A q \in Actionable \ done : RoutingOrder[r] <= RoutingOrder[q]}

MyTurn(r) ==
  /\ status \in Active
  /\ r \in Actionable \ acted
  /\ \A q \in Actionable \ acted : RoutingOrder[r] <= RoutingOrder[q]

LInit == status = "ready" /\ acted = {} /\ open = {}

Send ==
  /\ status = "ready"
  /\ status' = "sent"
  /\ open' = Frontier({})
  /\ UNCHANGED acted

\* The first time anyone looks.
View ==
  /\ status = "sent"
  /\ status' = "in_progress"
  /\ UNCHANGED <<acted, open>>

Act(r) ==
  /\ MyTurn(r)
  /\ acted' = acted \cup {r}
  /\ IF acted' = Actionable
     THEN status' = "completed" /\ UNCHANGED open
     ELSE status' = "in_progress" /\ open' = Frontier(acted')

Decline(r) == MyTurn(r) /\ status' = "declined" /\ UNCHANGED <<acted, open>>

Expire == status \in Active /\ status' = "expired" /\ UNCHANGED <<acted, open>>

Void == status \in Active \cup {"ready"} /\ status' = "voided" /\ UNCHANGED <<acted, open>>

LNext ==
  \/ Send \/ View \/ Expire \/ Void
  \/ \E r \in Actionable : Act(r) \/ Decline(r)

LSpec == LInit /\ [][LNext]_lifecycle
=============================================================================
