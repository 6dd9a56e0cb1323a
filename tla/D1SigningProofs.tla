------------------------- MODULE D1SigningProofs -------------------------
(***************************************************************************)
(* Proofs about D1Signing, for every recipient graph the ready command     *)
(* accepts, any number of sessions and all values of the bounds.           *)
(***************************************************************************)
EXTENDS D1Signing, FiniteSetTheorems, SequenceTheorems, WellFoundedInduction, TLAPS

-----------------------------------------------------------------------------
(***************************************************************************)
(* Facts about the routing operators of EnvelopeDomain.                    *)
(***************************************************************************)

\* A non-empty set of routing orders has a least element, which Least picks.
LEMMA LeastOfNaturals ==
  ASSUME NEW S \in SUBSET Nat, S # {}
  PROVE  Least(S) \in S /\ \A m \in S : Least(S) <= m
PROOF
<1>1. PICK x \in S : \A y \in S : ~(<<y, x>> \in OpToRel(<, Nat))
  BY NatLessThanWellFounded, WFMin
<1>2. ASSUME NEW y \in S, y < x PROVE FALSE
  <2>1. <<y, x>> \in Nat \X Nat
    OBVIOUS
  <2>2. <<y, x>>[1] < <<y, x>>[2]
    BY <1>2
  <2>3. <<y, x>> \in OpToRel(<, Nat)
    BY <2>1, <2>2, Zenon DEF OpToRel
  <2> QED
    BY <1>1, <2>3
<1>3. \A y \in S : x <= y
  BY <1>2
<1> QED
  BY <1>3 DEF Least

\* A set of recipients is finite, and its size says whether it is empty.
LEMMA CountedRecipients ==
  ASSUME NEW S \in SUBSET Recipients
  PROVE  Cardinality(S) \in Nat /\ (Cardinality(S) = 0 <=> S = {})
PROOF
<1>1. IsFiniteSet(S)
  BY RecipientGraph, FS_Subset DEF assertReadyInput
<1> QED
  BY <1>1, FS_CardinalityType, FS_EmptySet

\* Routing orders are positive, and an actionable recipient is invited.
LEMMA Orders ==
  /\ \A r \in Recipients : RoutingOrder[r] \in Nat \ {0}
  /\ Actionable \subseteq Invited
  /\ Invited \subseteq Recipients
PROOF
<1>1. \A r \in Recipients : RoutingOrder[r] \in Nat \ {0}
  BY RecipientGraph DEF assertReadyInput
<1>2. Actionable \subseteq Invited /\ Invited \subseteq Recipients
  BY DEF Actionable, Invited, isPostSendInvitationRecipientRole
<1> QED
  BY <1>1, <1>2

\* An invited recipient's order is the order of some actionable recipient.
LEMMA InvitedOrders ==
  ASSUME NEW v \in Invited
  PROVE  \E r \in Actionable : RoutingOrder[r] = RoutingOrder[v]
PROOF
<1>1. CASE isActionableRecipientRole(Role[v])
  BY <1>1 DEF Actionable, Invited
<1>2. CASE Role[v] = "viewer"
  BY <1>2, RecipientGraph DEF assertReadyInput, Invited
<1> QED
  BY <1>1, <1>2 DEF Invited, isPostSendInvitationRecipientRole

\* The send opens the least order that an actionable recipient has.
LEMMA InitialOrder ==
  /\ \E r \in Actionable : RoutingOrder[r] = initialRoutingOrder
  /\ \A r \in Invited : initialRoutingOrder <= RoutingOrder[r]
  /\ initialRoutingOrder \in Nat
PROOF
<1> DEFINE S == {RoutingOrder[r] : r \in Actionable}
<1>1. S \in SUBSET Nat /\ S # {}
  BY Orders, RecipientGraph DEF assertReadyInput
<1>2. Least(S) \in S /\ \A m \in S : Least(S) <= m
  BY <1>1, LeastOfNaturals
<1>3. initialRoutingOrder = Least(S)
  BY DEF initialRoutingOrder
<1>4. ASSUME NEW r \in Invited PROVE initialRoutingOrder <= RoutingOrder[r]
  <2>1. PICK a \in Actionable : RoutingOrder[a] = RoutingOrder[r]
    BY InvitedOrders
  <2> QED
    BY <1>2, <1>3, <2>1
<1> HIDE DEF S
<1>5. \E r \in Actionable : RoutingOrder[r] = initialRoutingOrder
  BY <1>2, <1>3 DEF S
<1>6. initialRoutingOrder \in Nat
  BY <1>1, <1>2, <1>3
<1> QED
  BY <1>4, <1>5, <1>6

\* What the three plans of planRecipientDecisionRouting mean.  A release names
\* the least order that outstanding recipients of later orders have.
LEMMA PlanMeaning ==
  ASSUME NEW st, NEW actor \in Recipients
  PROVE  LET plan == PlanFor(st, actor)
             rest == remainingActionable(st, actor)
         IN  /\ plan \in [kind : {"continue", "release", "complete"}, next : Nat, count : Nat]
             /\ plan.kind = "complete" <=> rest = {}
             /\ plan.kind = "release" =>
                  /\ \A r \in rest : RoutingOrder[r] # RoutingOrder[actor]
                  /\ plan.next > RoutingOrder[actor]
                  /\ \E r \in rest : RoutingOrder[r] = plan.next
                  /\ \A r \in rest : RoutingOrder[r] > RoutingOrder[actor]
                                       => plan.next <= RoutingOrder[r]
             /\ plan.kind = "continue" =>
                  \/ \E r \in rest : RoutingOrder[r] = RoutingOrder[actor]
                  \/ \A r \in rest : RoutingOrder[r] <= RoutingOrder[actor]
PROOF
<1> DEFINE rest == remainingActionable(st, actor)
           peers == {r \in rest : RoutingOrder[r] = RoutingOrder[actor]}
           later == laterOrders(st, actor)
           next == IF later = {} THEN NoOrder ELSE Least(later)
           group == groupOf(st, actor, next)
           count == IF next = NoOrder THEN 0 ELSE Cardinality(group)
           routing == recipientDecisionRoutingSnapshot(st, actor)
           plan == PlanFor(st, actor)
<1>1. rest \subseteq Recipients /\ peers \subseteq Recipients /\ group \subseteq Recipients
  BY DEF remainingActionable, Actionable, groupOf, Invited
<1>2. later = {RoutingOrder[r] : r \in {q \in rest : RoutingOrder[q] > RoutingOrder[actor]}}
  BY DEF laterOrders
<1>3. later \in SUBSET Nat
  BY <1>1, <1>2, Orders
<1>4. later # {} => next \in later /\ \A m \in later : next <= m
  BY <1>3, LeastOfNaturals
<1>5. next \in Nat /\ (next = NoOrder <=> later = {})
  <2>1. CASE later = {}
    BY <2>1 DEF NoOrder
  <2>2. CASE later # {}
    <3>1. PICK r \in rest : next = RoutingOrder[r] /\ RoutingOrder[r] > RoutingOrder[actor]
      BY <2>2, <1>4, <1>2
    <3> QED
      BY <2>2, <3>1, <1>1, Orders DEF NoOrder
  <2> QED
    BY <2>1, <2>2
<1>6. /\ Cardinality(rest) \in Nat /\ (Cardinality(rest) = 0 <=> rest = {})
      /\ Cardinality(peers) \in Nat /\ (Cardinality(peers) = 0 <=> peers = {})
      /\ Cardinality(group) \in Nat
  BY <1>1, CountedRecipients
<1>7. routing = [currentGroupOutstanding |-> Cardinality(peers),
                 remainingActionableOutstanding |-> Cardinality(rest),
                 nextRoutingOrder |-> next, nextGroupCount |-> count]
  BY DEF recipientDecisionRoutingSnapshot
<1>8. plan = IF Cardinality(rest) = 0
             THEN [kind |-> "complete", next |-> NoOrder, count |-> 0]
             ELSE IF Cardinality(peers) = 0 /\ next # NoOrder
             THEN [kind |-> "release", next |-> next, count |-> count]
             ELSE [kind |-> "continue", next |-> NoOrder, count |-> 0]
  <2> HIDE DEF peers, rest, next, count
  <2> QED
    BY <1>7 DEF PlanFor, planRecipientDecisionRouting
<1>9. \A r \in rest : RoutingOrder[r] > RoutingOrder[actor] <=> RoutingOrder[r] \in later
  BY <1>2, <1>1, Orders
<1>10. \A n \in later : \E r \in rest : n = RoutingOrder[r] /\ n > RoutingOrder[actor]
  BY <1>2
<1>11. \A r \in rest : r \in peers <=> RoutingOrder[r] = RoutingOrder[actor]
  OBVIOUS
<1>12. peers \subseteq rest
  OBVIOUS
<1> HIDE DEF peers, rest, next, count, later, plan, group
<1>13. count \in Nat
  BY <1>6 DEF count
<1>14. plan \in [kind : {"continue", "release", "complete"}, next : Nat, count : Nat]
  BY <1>8, <1>5, <1>13 DEF NoOrder
<1>15. plan.kind = "complete" <=> rest = {}
  BY <1>8, <1>6
<1>16. ASSUME plan.kind = "release"
       PROVE  /\ \A r \in rest : RoutingOrder[r] # RoutingOrder[actor]
              /\ plan.next > RoutingOrder[actor]
              /\ \E r \in rest : RoutingOrder[r] = plan.next
              /\ \A r \in rest : RoutingOrder[r] > RoutingOrder[actor]
                                   => plan.next <= RoutingOrder[r]
  <2>1. peers = {} /\ later # {} /\ plan.next = next
    BY <1>16, <1>8, <1>6, <1>5
  <2> QED
    BY <2>1, <1>4, <1>9, <1>10, <1>11
<1>17. ASSUME plan.kind = "continue"
       PROVE  \/ \E r \in rest : RoutingOrder[r] = RoutingOrder[actor]
              \/ \A r \in rest : RoutingOrder[r] <= RoutingOrder[actor]
  <2>1. peers # {} \/ later = {}
    BY <1>17, <1>8, <1>6, <1>5
  <2>2. CASE peers # {}
    BY <2>2, <1>11, <1>12
  <2>3. CASE later = {}
    BY <2>3, <1>9, <1>1, Orders
  <2> QED
    BY <2>1, <2>2, <2>3
<1> QED
  BY <1>14, <1>15, <1>16, <1>17 DEF plan, rest

-----------------------------------------------------------------------------
(***************************************************************************)
(* Types, and what a command in flight knows: whom it addresses, and, past *)
(* the read that told it, the status it found.                             *)
(***************************************************************************)
RecipientCommand == {"view", "approve", "sign", "decline", "reissue"}
Unended == {"ready", "sent", "in_progress"}

Plans == [kind : {"continue", "release", "complete"}, next : Nat, count : Nat]

Places == {"idle", "batch"} \cup UNION {{Reads[k][n] : n \in DOMAIN Reads[k]} : k \in Command}

Knows(q) ==
  /\ IF q.kind \in RecipientCommand THEN q.r \in Recipients ELSE q.r = Nobody
  /\ q.kind = "reissue" => q.cap < MaxIssues
  /\ q.kind = "expire" /\ q.pc # "envelope" => q.status \in Active
  /\ q.kind = "void" /\ q.pc # "idle" => q.status \in Unended
  /\ q.pc \in {"idle", "batch"} \cup {Reads[q.kind][n] : n \in DOMAIN Reads[q.kind]}

commandRequest ==
  [pc : Places, kind : Command, r : Recipients \cup {Nobody}, cap : 0..MaxIssues,
   status : EnvelopeStatus, at : Nat, plan : Plans, revoked : SUBSET Recipients, head : Nat,
   tries : Nat]

Requests == req \in [Sessions -> commandRequest] /\ \A s \in Sessions : Knows(req[s])

Tables ==
  /\ env \in Unended \cup Terminal
  /\ audit \in Seq(auditEvent) /\ audit # <<>>
  /\ rcp \in [Recipients -> recipientRow]
  /\ outbox \in [Rows -> outboxRow]
  /\ lapsed \in Nat
  /\ tasks \subseteq Rows \X Nat

(***************************************************************************)
(* A row of the outbox.  Its ciphertext is there as long as it may be      *)
(* retried; what has been issued has a row, and a capability that was      *)
(* replaced has a settled one.                                             *)
(***************************************************************************)
Settled(row) == ~row.sealed /\ row.status \in {"delivered", "failed"}

RowOK(row, k, cap) ==
  /\ row.sealed = row.retryable
  /\ row.status \in {"blocked", "pending", "processing"} => row.sealed
  /\ row.status \in {"none", "delivered"} => ~row.sealed
  /\ row.status = "processing" => row.attempts > 0
  /\ row.status = "none" <=> k > cap
  /\ k < cap => Settled(row)

RowsOK == \A i \in Rows : RowOK(outbox[i], i[2], rcp[i[1]].cap)

\* Scrubbing settles a row that was sent, or is still to be sent.
LEMMA ScrubSettles ==
  ASSUME NEW row \in outboxRow, row.status \in {"pending", "delivered", "failed"},
         row.sealed = row.retryable, row.status = "delivered" => ~row.sealed
  PROVE  LET new == IF undelivered(row) THEN scrubbed(row) ELSE row
         IN  new \in outboxRow /\ Settled(new) /\ ~new.retryable
PROOF
<1>1. CASE undelivered(row)
  BY <1>1 DEF outboxRow, undelivered, scrubbed, Settled
<1>2. CASE ~undelivered(row)
  BY <1>2 DEF outboxRow, undelivered, Settled
<1> QED
  BY <1>1, <1>2

(***************************************************************************)
(* Routing.                                                                *)
(***************************************************************************)
\* While an envelope is active, a link is open exactly when no outstanding
\* actionable recipient precedes its recipient.
ReleasedExactly ==
  env \in Active =>
    \A r \in Invited :
      rcp[r].exp # 0 <=>
        \A q \in Actionable : rcp[q].status # "completed" => RoutingOrder[r] <= RoutingOrder[q]

Unsent == env = "ready" =>
  \A r \in Recipients :
    rcp[r].status = "pending" /\ rcp[r].cap = 0 /\ rcp[r].exp = 0 /\ ~rcp[r].revoked

Untouched == env \in Active =>
  \A r \in Invited :
    /\ rcp[r].cap # 0
    /\ rcp[r].exp = 0 => rcp[r].status = "pending" /\ ~rcp[r].revoked

OnlyInvited == \A r \in Recipients : rcp[r].exp # 0 \/ rcp[r].cap # 0 => r \in Invited

OnlyActionable == \A r \in Recipients : rcp[r].status = "completed" => r \in Actionable

RoutingInv == Unsent /\ Untouched /\ OnlyInvited /\ OnlyActionable /\ ReleasedExactly

\* Before the end nobody has declined, and only who has completed is revoked.
Unfinished == env \in Unended =>
  \A r \in Recipients :
    /\ rcp[r].status # "declined"
    /\ rcp[r].revoked => rcp[r].status = "completed"

Inv ==
  /\ Tables /\ Requests /\ ChainLinear /\ RowsOK /\ RoutingInv /\ Unfinished
  /\ TerminalQuiet /\ RevocationEvidenceTrue

-----------------------------------------------------------------------------
(***************************************************************************)
(* Commands in flight.                                                     *)
(***************************************************************************)
script(kind) == {Reads[kind][n] : n \in DOMAIN Reads[kind]}

LEMMA Scripts ==
  /\ \A kind \in Command : /\ Reads[kind][1] \in script(kind)
                           /\ Len(Reads[kind]) \in Nat \ {0}
                           /\ DOMAIN Reads[kind] = 1..Len(Reads[kind])
  /\ Reads["expire"][1] = "envelope"
  /\ \A kind \in Command : script(kind) \subseteq Places
PROOF
<1>1. \A kind \in Command : /\ Len(Reads[kind]) \in Nat \ {0}
                            /\ DOMAIN Reads[kind] = 1..Len(Reads[kind])
  <2>1. ASSUME NEW a, NEW b
        PROVE  Len(<<a, b>>) = 2 /\ DOMAIN <<a, b>> = 1..2
    OBVIOUS
  <2>2. ASSUME NEW a, NEW b, NEW c
        PROVE  Len(<<a, b, c>>) = 3 /\ DOMAIN <<a, b, c>> = 1..3
    OBVIOUS
  <2>3. ASSUME NEW a, NEW b, NEW c, NEW d
        PROVE  Len(<<a, b, c, d>>) = 4 /\ DOMAIN <<a, b, c, d>> = 1..4
    OBVIOUS
  <2>4. \A kind \in {"view", "decline", "void"} : Reads[kind] = <<"row", "head">>
    BY DEF Reads
  <2>5. /\ Reads["send"] = <<"row", "head", "recipients">>
        /\ \A kind \in {"approve", "sign"} : Reads[kind] = <<"row", "routing", "head">>
    BY DEF Reads
  <2>6. /\ Reads["reissue"] = <<"envelope", "row", "outbox", "head">>
        /\ Reads["expire"] = <<"envelope", "eligibility", "revocable", "head">>
    BY DEF Reads
  <2> QED
    BY <2>1, <2>2, <2>3, <2>4, <2>5, <2>6 DEF Command
<1>2. \A kind \in Command : Reads[kind][1] \in script(kind)
  BY <1>1 DEF script
<1>3. Reads["expire"][1] = "envelope"
  BY DEF Reads
<1>4. \A kind \in Command : script(kind) \subseteq Places
  BY DEF script, Places
<1> QED
  BY <1>1, <1>2, <1>3, <1>4

\* After a read comes another one of the command's, or its batch.
LEMMA AfterPlace ==
  ASSUME NEW kind \in Command, NEW read \in script(kind)
  PROVE  After(kind, read) \in {"batch"} \cup script(kind)
PROOF
<1> DEFINE places == Reads[kind]
           n == CHOOSE i \in DOMAIN places : places[i] = read
<1>1. \E i \in DOMAIN places : places[i] = read
  BY DEF script
<1>2. n \in DOMAIN places
  BY <1>1
<1>3. Len(places) \in Nat /\ DOMAIN places = 1..Len(places)
  BY Scripts
<1>4. After(kind, read) = IF n = Len(places) THEN "batch" ELSE places[n + 1]
  BY DEF After
<1> HIDE DEF n
<1>5. n # Len(places) => n + 1 \in DOMAIN places
  BY <1>2, <1>3
<1>6. n # Len(places) => places[n + 1] \in script(kind)
  BY <1>5 DEF script
<1> QED
  BY <1>4, <1>6

LEMMA NextRequest ==
  ASSUME Requests, NEW s \in Sessions, NEW q \in commandRequest, Knows(q),
         req' = [req EXCEPT ![s] = q]
  PROVE  Requests'
PROOF
<1>1. req' \in [Sessions -> commandRequest]
  BY DEF Requests
<1>2. \A t \in Sessions : req'[t] = IF t = s THEN q ELSE req[t]
  BY DEF Requests
<1>3. \A t \in Sessions : Knows(req'[t])
  BY <1>2 DEF Requests
<1> QED
  BY <1>1, <1>3 DEF Requests, Knows

LEMMA IdleKnown ==
  ASSUME D1Constants
  PROVE  Idle \in commandRequest /\ Knows(Idle)
PROOF
<1>1. NoPlan \in Plans
  BY DEF NoPlan, Plans, NoOrder
<1>2. "idle" \in Places /\ "void" \in Command /\ "draft" \in EnvelopeStatus
  BY DEF Places, Command, EnvelopeStatus
<1>3. 0 \in 0..MaxIssues
  BY DEF D1Constants
<1> QED
  BY <1>1, <1>2, <1>3 DEF Idle, commandRequest, Knows, RecipientCommand

LEMMA Begun ==
  ASSUME D1Constants, Requests, NEW s \in Sessions, NEW kind \in Command,
         NEW r, IF kind \in RecipientCommand THEN r \in Recipients ELSE r = Nobody,
         NEW cap \in 0..MaxIssues, kind = "reissue" => cap < MaxIssues,
         NEW status \in EnvelopeStatus, kind = "void" => status \in Unended,
         NEW at \in Nat, NEW tries \in Nat,
         begin(s, kind, r, cap, status, at, tries)
  PROVE  Requests'
PROOF
<1> DEFINE q == [pc |-> Reads[kind][1], kind |-> kind, r |-> r, cap |-> cap, status |-> status,
                 at |-> at, plan |-> NoPlan, revoked |-> {}, head |-> 0, tries |-> tries]
<1>1. req' = [req EXCEPT ![s] = q]
  <2> DEFINE e1 == [Idle EXCEPT !.pc = Reads[kind][1]]
             e2 == [e1 EXCEPT !.kind = kind]
             e3 == [e2 EXCEPT !.r = r]
             e4 == [e3 EXCEPT !.cap = cap]
             e5 == [e4 EXCEPT !.status = status]
             e6 == [e5 EXCEPT !.at = at]
             e7 == [e6 EXCEPT !.tries = tries]
  <2>1. req' = [req EXCEPT ![s] = e7]
    BY DEF begin
  <2> HIDE DEF e1, e2, e3, e4, e5, e6, e7
  <2>2. e1 = [pc |-> Reads[kind][1], kind |-> "void", r |-> Nobody, cap |-> 0, status |-> "draft",
                at |-> 0, plan |-> NoPlan, revoked |-> {}, head |-> 0, tries |-> 0]
    BY DEF e1, Idle
  <2>3. e2 = [pc |-> Reads[kind][1], kind |-> kind, r |-> Nobody, cap |-> 0, status |-> "draft",
                at |-> 0, plan |-> NoPlan, revoked |-> {}, head |-> 0, tries |-> 0]
    BY <2>2 DEF e2
  <2>4. e3 = [pc |-> Reads[kind][1], kind |-> kind, r |-> r, cap |-> 0, status |-> "draft",
                at |-> 0, plan |-> NoPlan, revoked |-> {}, head |-> 0, tries |-> 0]
    BY <2>3 DEF e3
  <2>5. e4 = [pc |-> Reads[kind][1], kind |-> kind, r |-> r, cap |-> cap, status |-> "draft",
                at |-> 0, plan |-> NoPlan, revoked |-> {}, head |-> 0, tries |-> 0]
    BY <2>4 DEF e4
  <2>6. e5 = [pc |-> Reads[kind][1], kind |-> kind, r |-> r, cap |-> cap, status |-> status,
                at |-> 0, plan |-> NoPlan, revoked |-> {}, head |-> 0, tries |-> 0]
    BY <2>5 DEF e5
  <2>7. e6 = [pc |-> Reads[kind][1], kind |-> kind, r |-> r, cap |-> cap, status |-> status,
                at |-> at, plan |-> NoPlan, revoked |-> {}, head |-> 0, tries |-> 0]
    BY <2>6 DEF e6
  <2>8. e7 = q
    BY <2>7 DEF e7
  <2> QED
    BY <2>1, <2>8
<1>2. Reads[kind][1] \in Places /\ Reads[kind][1] \in script(kind) /\ NoPlan \in Plans
  BY Scripts DEF NoPlan, Plans, NoOrder
<1>3. q \in commandRequest
  BY <1>2 DEF commandRequest
<1>4. Knows(q)
  BY <1>2, Scripts DEF Knows, script
<1> HIDE DEF q
<1> QED
  BY <1>1, <1>3, <1>4, NextRequest

\* A command that goes on after a read has learned what the read told it.
LEMMA Gone ==
  ASSUME D1Constants, Requests, NEW s \in Sessions, NEW holds, NEW q \in commandRequest,
         req[s].pc \notin {"idle", "batch"},
         q.pc = req[s].pc, q.kind = req[s].kind, q.r = req[s].r,
         holds => /\ q.kind = "reissue" => q.cap < MaxIssues
                  /\ q.kind = "expire" => q.status \in Active
                  /\ q.kind = "void" => q.status \in Unended,
         Goes(s, holds, q)
  PROVE  Requests'
PROOF
<1> DEFINE p == [q EXCEPT !.pc = After(q.kind, req[s].pc)]
<1>1. req[s] \in commandRequest /\ Knows(req[s])
  BY DEF Requests
<1>2. req[s].pc \in script(q.kind) /\ q.kind \in Command
  BY <1>1 DEF Knows, script, commandRequest
<1>3. PICK place \in {"batch"} \cup script(q.kind) : place = After(q.kind, req[s].pc)
  BY <1>2, AfterPlace
<1>4. place \in Places
  BY <1>2, <1>3, Scripts DEF Places
<1>5. p \in commandRequest
  BY <1>3, <1>4 DEF commandRequest
<1>6. ASSUME holds PROVE Knows(p)
  <2>1. /\ p.kind = q.kind /\ p.r = q.r /\ p.cap = q.cap /\ p.status = q.status /\ p.pc = place
    BY <1>3 DEF commandRequest
  <2>2. IF q.kind \in RecipientCommand THEN q.r \in Recipients ELSE q.r = Nobody
    BY <1>1 DEF Knows
  <2> HIDE DEF p
  <2> QED
    BY <1>3, <1>6, <2>1, <2>2 DEF Knows, script
<1>7. req' = [req EXCEPT ![s] = IF holds THEN p ELSE Idle]
  BY DEF Goes
<1> HIDE DEF p
<1>8. CASE holds
  BY <1>5, <1>6, <1>7, <1>8, NextRequest
<1>9. CASE ~holds
  BY <1>7, <1>9, IdleKnown, NextRequest
<1> QED
  BY <1>8, <1>9

LEMMA RequestPrepared ==
  ASSUME D1Constants, Tables, Requests, NEW s \in Sessions, prepare(s)
  PROVE  Requests'
PROOF
<1> DEFINE q == req[s]
<1>1. /\ q \in commandRequest /\ Knows(q)
      /\ q.kind = "reissue" => q.cap < MaxIssues
      /\ q.kind = "expire" /\ q.pc # "envelope" => q.status \in Active
      /\ q.kind = "void" /\ q.pc # "idle" => q.status \in Unended
  BY DEF Requests, Knows
<1>2. q.pc \in {"envelope", "row", "routing", "eligibility", "revocable", "outbox", "head",
                "recipients"}
  BY DEF prepare, readEnvelope, readRow, readRouting, readEligibility, readRevocable, readOutbox,
         readAuditHead, readRecipients, reading
<1>3. q.pc \notin {"idle", "batch"} /\ (q.pc # "envelope" <=> ~reading(s, "envelope"))
  BY <1>2 DEF reading
<1>4. \A actor : revocable(actor) \in SUBSET Recipients
  BY DEF revocable
<1>5. CASE readEnvelope(s)
  <2>1. PICK status \in EnvelopeStatus :
          status = IF q.kind = "expire" THEN env ELSE q.status
    BY <1>1 DEF commandRequest, Tables, Unended, Terminal, EnvelopeStatus
  <2> DEFINE p == [q EXCEPT !.status = status]
  <2>2. Goes(s, env \in Active, p)
    BY <1>5, <2>1 DEF readEnvelope
  <2>3. /\ p \in commandRequest /\ p.pc = q.pc /\ p.kind = q.kind /\ p.r = q.r /\ p.cap = q.cap
        /\ p.status = status
    BY <1>1 DEF commandRequest
  <2>4. env \in Active /\ p.kind = "expire" => p.status \in Active
    BY <2>1, <2>3
  <2>5. p.kind = "void" => p.status \in Unended
    BY <1>1, <1>2, <2>1, <2>3
  <2> HIDE DEF p, q
  <2> QED
    BY <1>1, <1>3, <2>2, <2>3, <2>4, <2>5, Gone DEF q
<1>6. ASSUME NEW holds, NEW p \in commandRequest, Goes(s, holds, p), q.pc # "envelope",
             p.pc = q.pc, p.kind = q.kind, p.r = q.r, p.status = q.status,
             holds /\ p.kind = "reissue" => p.cap < MaxIssues
      PROVE  Requests'
  BY <1>1, <1>3, <1>6, Gone
<1>7. ASSUME NEW holds, Goes(s, holds, q), q.pc # "envelope" PROVE Requests'
  BY <1>1, <1>6, <1>7
<1>8. ASSUME NEW holds, NEW R \in SUBSET Recipients, Goes(s, holds, [q EXCEPT !.revoked = R]),
             q.pc # "envelope"
      PROVE  Requests'
  <2> DEFINE p == [q EXCEPT !.revoked = R]
  <2>1. /\ p \in commandRequest /\ p.pc = q.pc /\ p.kind = q.kind /\ p.r = q.r /\ p.cap = q.cap
        /\ p.status = q.status
    BY <1>1 DEF commandRequest
  <2> HIDE DEF p
  <2> QED
    BY <1>1, <1>6, <1>8, <2>1 DEF p
<1>9. CASE readRow(s)
  <2>1. q.pc # "envelope" /\ q.pc = "row"
    BY <1>9 DEF readRow, reading
  <2>2. CASE q.kind \in {"decline", "void"}
    BY <1>4, <1>8, <1>9, <2>1, <2>2 DEF readRow
  <2>3. CASE q.kind \in {"send", "view", "approve", "sign"}
    BY <1>7, <1>9, <2>1, <2>3 DEF readRow
  <2>4. CASE q.kind = "reissue"
    <3>1. PICK holds \in BOOLEAN : Goes(s, holds, [q EXCEPT !.cap = rcp[q.r].cap])
                                   /\ (holds => rcp[q.r].cap \in 1..(MaxIssues - 1))
      BY <1>9, <2>4 DEF readRow
    <3>2. q.r \in Recipients
      BY <1>1, <2>4 DEF Knows, RecipientCommand
    <3>3. PICK k \in 0..MaxIssues : k = rcp[q.r].cap
      BY <3>2 DEF Tables, recipientRow
    <3> DEFINE p == [q EXCEPT !.cap = k]
    <3>4. /\ p \in commandRequest /\ p.pc = q.pc /\ p.kind = q.kind /\ p.r = q.r /\ p.cap = k
          /\ p.status = q.status
      BY <1>1 DEF commandRequest
    <3>5. holds => k < MaxIssues
      BY <3>1, <3>3 DEF D1Constants
    <3>6. Goes(s, holds, p)
      BY <3>1, <3>3
    <3> HIDE DEF p
    <3> QED
      BY <1>6, <2>1, <3>4, <3>5, <3>6
  <2> QED
    BY <1>9, <2>2, <2>3, <2>4 DEF readRow
<1>10. CASE readRouting(s)
  <2>1. q.pc # "envelope"
    BY <1>10 DEF readRouting, reading
  <2>2. PICK plan : plan = PlanFor(Statuses, q.r) /\ Goes(s, TRUE, [q EXCEPT !.plan = plan])
    BY <1>10 DEF readRouting
  <2>3. q.kind \in {"approve", "sign"}
    <3>1. "routing" \in script(q.kind)
      BY <1>1, <1>10 DEF readRouting, reading, Knows, script
    <3> QED
      BY <1>1, <3>1 DEF script, Reads, Command, commandRequest
  <2>4. plan \in Plans
    BY <1>1, <2>2, <2>3, PlanMeaning DEF Knows, RecipientCommand, Plans
  <2> DEFINE p == [q EXCEPT !.plan = plan]
  <2>5. /\ p \in commandRequest /\ p.pc = q.pc /\ p.kind = q.kind /\ p.r = q.r /\ p.cap = q.cap
        /\ p.status = q.status
    BY <1>1, <2>4 DEF commandRequest
  <2>6. Goes(s, TRUE, p)
    BY <2>2
  <2> HIDE DEF p
  <2> QED
    BY <1>1, <1>6, <2>1, <2>5, <2>6
<1>11. CASE readEligibility(s)
  BY <1>7, <1>11 DEF readEligibility, reading
<1>12. CASE readRevocable(s)
  BY <1>4, <1>8, <1>12 DEF readRevocable, reading
<1>13. CASE readOutbox(s)
  BY <1>7, <1>13 DEF readOutbox, reading
<1>14. CASE readAuditHead(s)
  <2>1. q.pc # "envelope"
    BY <1>14 DEF readAuditHead, reading
  <2>2. PICK n \in Nat : n = head
    BY DEF Tables, head
  <2> DEFINE p == [q EXCEPT !.head = n]
  <2>3. /\ p \in commandRequest /\ p.pc = q.pc /\ p.kind = q.kind /\ p.r = q.r /\ p.cap = q.cap
        /\ p.status = q.status
    BY <1>1 DEF commandRequest
  <2>4. Goes(s, TRUE, p)
    BY <1>14, <2>2 DEF readAuditHead
  <2> HIDE DEF p
  <2> QED
    BY <1>1, <1>6, <2>1, <2>3, <2>4
<1>15. CASE readRecipients(s)
  BY <1>7, <1>15 DEF readRecipients, reading
<1> QED
  BY <1>5, <1>9, <1>10, <1>11, <1>12, <1>13, <1>14, <1>15 DEF prepare

LEMMA RequestBegun ==
  ASSUME D1Constants, Tables, Requests, NEW s \in Sessions, request(s)
  PROVE  Requests'
PROOF
<1>1. /\ lapsed \in Nat /\ 1 \in Nat /\ 0 \in 0..MaxIssues /\ 0 < MaxIssues
      /\ Unended \subseteq EnvelopeStatus /\ "draft" \in EnvelopeStatus
  BY DEF Tables, D1Constants, Unended, EnvelopeStatus
<1>2. ASSUME NEW kind \in {"view", "approve", "sign", "decline"}, NEW i \in Rows,
             begin(s, kind, i[1], i[2], "draft", lapsed, 1)
      PROVE  Requests'
  <2>1. /\ i[1] \in Recipients /\ i[2] \in 0..MaxIssues
        /\ kind \in Command /\ kind \in RecipientCommand /\ kind \notin {"reissue", "void"}
    BY DEF Rows, Command, RecipientCommand
  <2> QED
    BY <1>1, <1>2, <2>1, Begun
<1>3. ASSUME NEW r \in Recipients, begin(s, "reissue", r, 0, "draft", lapsed, 1)
      PROVE  Requests'
  BY <1>1, <1>3, Begun DEF Command, RecipientCommand
<1>4. ASSUME NEW status \in Unended, begin(s, "void", Nobody, 0, status, lapsed, 1)
      PROVE  Requests'
  BY <1>1, <1>4, Begun DEF Command, RecipientCommand
<1>5. ASSUME NEW kind \in {"send", "expire"}, begin(s, kind, Nobody, 0, "draft", lapsed, 1)
      PROVE  Requests'
  <2>1. kind \in Command /\ kind \notin RecipientCommand /\ kind \notin {"reissue", "void"}
    BY DEF Command, RecipientCommand
  <2> QED
    BY <1>1, <1>5, <2>1, Begun
<1> QED
  BY <1>2, <1>3, <1>4, <1>5 DEF request, links, Unended

LEMMA RequestAborted ==
  ASSUME D1Constants, Tables, Requests, NEW s \in Sessions, req[s].pc = "batch", abort(s)
  PROVE  Requests'
PROOF
<1> DEFINE q == req[s]
<1>1. q \in commandRequest /\ Knows(q)
  BY DEF Requests
<1>2. CASE req' = [req EXCEPT ![s] = Idle]
  BY <1>2, IdleKnown, NextRequest
<1>3. CASE begin(s, q.kind, q.r, IF q.kind = "reissue" THEN 0 ELSE q.cap,
                 IF q.kind = "void" THEN q.status ELSE "draft",
                 IF q.kind = "expire" THEN q.at ELSE lapsed, q.tries + 1)
  <2>1. PICK cap \in 0..MaxIssues : /\ cap = IF q.kind = "reissue" THEN 0 ELSE q.cap
                                    /\ q.kind = "reissue" => cap < MaxIssues
    BY <1>1 DEF commandRequest, D1Constants
  <2>2. PICK status \in EnvelopeStatus : /\ status = IF q.kind = "void" THEN q.status ELSE "draft"
                                         /\ q.kind = "void" => status \in Unended
    BY <1>1 DEF commandRequest, Knows, EnvelopeStatus
  <2>3. PICK at \in Nat : at = IF q.kind = "expire" THEN q.at ELSE lapsed
    BY <1>1 DEF commandRequest, Tables
  <2>4. PICK tries \in Nat : tries = q.tries + 1
    BY <1>1 DEF commandRequest
  <2>5. q.kind \in Command /\ IF q.kind \in RecipientCommand THEN q.r \in Recipients ELSE q.r = Nobody
    BY <1>1 DEF commandRequest, Knows
  <2>6. begin(s, q.kind, q.r, cap, status, at, tries)
    BY <1>3, <2>1, <2>2, <2>3, <2>4
  <2> HIDE DEF q
  <2> QED
    BY <2>1, <2>2, <2>5, <2>6, Begun
<1> QED
  BY <1>2, <1>3 DEF abort

-----------------------------------------------------------------------------
(***************************************************************************)
(* A batch appends its events after the last one, from which its command   *)
(* was prepared.                                                           *)
(***************************************************************************)
LEMMA Appended ==
  ASSUME D1Constants, Tables, Requests, ChainLinear, NEW s \in Sessions,
         NEW kinds \in Seq(Command \cup {"completed"}), kinds # <<>>,
         req[s].head = head, appended(s, kinds)
  PROVE  /\ Requests' /\ ChainLinear'
         /\ audit' \in Seq(auditEvent) /\ audit' # <<>>
         /\ audit'[Len(audit')].revoked = req[s].revoked
         /\ lapsed' = lapsed /\ tasks' = tasks
PROOF
<1>2. PICK m \in Nat \ {0} : m = Len(kinds) /\ DOMAIN kinds = 1..m
  BY EmptySeq, LenProperties
<1> DEFINE q == req[s]
           event(n) == [kind |-> kinds[n], r |-> q.r, previous |-> q.head + n - 1,
                        revoked |-> q.revoked]
           events == [n \in 1..m |-> event(n)]
<1>1. q \in commandRequest
  BY DEF Requests
<1>3. \A n \in 1..m : kinds[n] \in Command \cup {"completed"}
  BY <1>2
<1>4. PICK h \in Nat : h = head /\ h = Len(audit) /\ h = q.head
  BY DEF Tables, head
<1>5. \A n \in 1..m : h + n - 1 \in Nat
  BY <1>2, <1>4
<1>6. \A n \in 1..m : event(n) \in auditEvent
  BY <1>1, <1>3, <1>4, <1>5 DEF auditEvent, commandRequest
<1>7. audit' = audit \o events
  BY <1>2 DEF appended
<1>8. \A n \in 1..m : events[n] = event(n)
  OBVIOUS
<1>9. /\ \A n \in 1..m : event(n).previous = h + n - 1
      /\ event(m).revoked = q.revoked
  BY <1>4
<1>10. events \in Seq(auditEvent) /\ Len(events) = m
  <2>1. events \in [1..m -> auditEvent]
    BY <1>6
  <2> HIDE DEF events, event
  <2> QED
    BY <1>2, <2>1
<1> HIDE DEF events, event, q
<1>11. audit \in Seq(auditEvent)
  BY DEF Tables
<1>12. /\ audit' \in Seq(auditEvent) /\ Len(audit') = h + m
       /\ \A n \in 1..(h + m) : audit'[n] = IF n <= h THEN audit[n] ELSE events[n - h]
  <2>1. /\ audit \o events \in Seq(auditEvent)
        /\ Len(audit \o events) = Len(audit) + Len(events)
        /\ \A n \in 1..(Len(audit) + Len(events)) :
             (audit \o events)[n] = IF n <= Len(audit) THEN audit[n] ELSE events[n - Len(audit)]
    BY <1>10, <1>11, ConcatProperties, Zenon
  <2> QED
    BY <1>4, <1>7, <1>10, <2>1
<1>13. \A n \in 1..h : audit'[n] = audit[n]
  <2>1. \A n \in 1..h : n \in 1..(h + m) /\ n <= h
    BY <1>2
  <2> QED
    BY <1>12, <2>1
<1>14. \A n \in 1..m : audit'[h + n] = event(n)
  <2> SUFFICES ASSUME NEW n \in 1..m PROVE audit'[h + n] = event(n)
    OBVIOUS
  <2>1. h + n \in 1..(h + m) /\ ~(h + n <= h) /\ (h + n) - h = n
    BY <1>2, <1>4
  <2> QED
    BY <1>8, <1>12, <2>1
<1>15. DOMAIN audit' = 1..(h + m) /\ DOMAIN audit = 1..h
  BY <1>4, <1>11, <1>12, LenProperties
<1>16. ASSUME NEW n \in DOMAIN audit' PROVE audit'[n].previous = n - 1
  <2>1. CASE n \in 1..h
    BY <1>13, <1>15, <2>1 DEF ChainLinear
  <2>2. CASE n \notin 1..h
    <3>1. n - h \in 1..m /\ h + (n - h) = n /\ n \in Nat
      BY <1>2, <1>4, <1>15, <2>2
    <3>2. event(n - h).previous = h + (n - h) - 1
      BY <1>9, <3>1
    <3> QED
      BY <1>14, <3>1, <3>2
  <2> QED
    BY <2>1, <2>2
<1>17. ChainLinear'
  BY <1>16 DEF ChainLinear
<1>18. audit'[Len(audit')].revoked = q.revoked
  BY <1>2, <1>9, <1>12, <1>14
<1>19. audit' # <<>>
  BY <1>2, <1>4, <1>12
<1>20. Requests'
  BY IdleKnown, NextRequest DEF appended
<1> QED
  BY <1>12, <1>17, <1>18, <1>19, <1>20 DEF appended, q

\* What a command has done so far, its own state included.
LEMMA TablesKept ==
  ASSUME Inv, UNCHANGED tables, Requests', lapsed' \in Nat, tasks' \subseteq Rows \X Nat
  PROVE  Inv'
PROOF
<1>1. env' = env /\ audit' = audit /\ rcp' = rcp /\ outbox' = outbox
  BY DEF tables
<1>2. Tables' /\ ChainLinear' /\ RowsOK' /\ Unfinished'
  BY <1>1 DEF Inv, Tables, ChainLinear, RowsOK, Unfinished
<1>3. RoutingInv'
  BY <1>1 DEF Inv, RoutingInv, Unsent, Untouched, OnlyInvited, OnlyActionable, ReleasedExactly
<1>4. TerminalQuiet' /\ RevocationEvidenceTrue'
  BY <1>1 DEF Inv, TerminalQuiet, RevocationEvidenceTrue, undelivered, head
<1> QED
  BY <1>2, <1>3, <1>4 DEF Inv

LEMMA InvPrepared ==
  ASSUME D1Constants, Inv, NEW s \in Sessions, request(s) \/ prepare(s)
  PROVE  UNCHANGED tables /\ Inv'
PROOF
<1>1. Requests'
  BY RequestBegun, RequestPrepared DEF Inv
<1>2. UNCHANGED <<tables, lapsed, tasks>>
  <2>1. CASE request(s)
    BY <2>1 DEF request
  <2>2. CASE prepare(s)
    BY <2>2
    DEF prepare, readEnvelope, readRow, readRouting, readEligibility, readRevocable, readOutbox,
        readAuditHead, readRecipients, Goes
  <2> QED
    BY <2>1, <2>2
<1> QED
  BY <1>1, <1>2, TablesKept DEF Inv, Tables

LEMMA InvAborted ==
  ASSUME D1Constants, Inv, NEW s \in Sessions, NEW kind, publishing(s, kind), abort(s)
  PROVE  UNCHANGED tables /\ Inv'
PROOF
<1>1. Requests'
  BY RequestAborted DEF Inv, publishing, reading
<1>2. UNCHANGED <<tables, lapsed, tasks>>
  BY DEF abort
<1> QED
  BY <1>1, <1>2, TablesKept DEF Inv, Tables

LEMMA InvLapse ==
  ASSUME Inv, lapse
  PROVE  UNCHANGED tables /\ Inv'
PROOF
<1>1. UNCHANGED <<tables, tasks, req>> /\ lapsed' \in Nat
  BY DEF lapse
<1>2. Requests'
  BY <1>1 DEF Inv, Requests, Knows
<1> QED
  BY <1>1, <1>2, TablesKept DEF Inv, Tables

-----------------------------------------------------------------------------
(***************************************************************************)
(* Sending.                                                                *)
(***************************************************************************)
SentRows ==
  /\ \A r \in Invited :
       /\ rcp'[r].cap = 1 /\ rcp'[r].status = rcp[r].status /\ rcp'[r].revoked = rcp[r].revoked
       /\ rcp'[r].exp # 0 <=> RoutingOrder[r] = initialRoutingOrder
  /\ \A r \in Recipients \ Invited : rcp'[r] = rcp[r]

\* The recipients of a send that found the envelope ready.
LEMMA RoutingSent ==
  ASSUME Tables, RoutingInv, Unfinished, env = "ready", env' = "sent", SentRows
  PROVE  RoutingInv' /\ Unfinished'
PROOF
<1>1. \A r \in Recipients :
        rcp[r].status = "pending" /\ rcp[r].cap = 0 /\ rcp[r].exp = 0 /\ ~rcp[r].revoked
  BY DEF RoutingInv, Unsent
<1>2. Unsent' /\ Untouched'
  BY <1>1, Orders DEF Unsent, Untouched, SentRows
<1>3. OnlyInvited' /\ OnlyActionable'
  BY <1>1 DEF OnlyInvited, OnlyActionable, SentRows
<1>4. ReleasedExactly'
  <2> SUFFICES ASSUME NEW r \in Invited
               PROVE  rcp'[r].exp # 0 <=> \A q \in Actionable : RoutingOrder[r] <= RoutingOrder[q]
    BY <1>1, Orders DEF ReleasedExactly, SentRows
  <2>1. rcp'[r].exp # 0 <=> RoutingOrder[r] = initialRoutingOrder
    BY DEF SentRows
  <2>2. RoutingOrder[r] \in Nat
    BY Orders
  <2> QED
    BY <2>1, <2>2, InitialOrder, Orders
<1>5. Unfinished'
  BY <1>1 DEF Unfinished, SentRows
<1> QED
  BY <1>2, <1>3, <1>4, <1>5 DEF RoutingInv

LEMMA InvSent ==
  ASSUME D1Constants, Inv, NEW s \in Sessions, publishSend(s)
  PROVE  /\ Inv'
         /\ \/ UNCHANGED tables
            \/ env = "ready" /\ env' = "sent" /\ SentRows
PROOF
<1> DEFINE q == req[s]
           initial(r) == RoutingOrder[r] = initialRoutingOrder
<1>1. CASE publishing(s, "send") /\ abort(s)
  BY <1>1, InvAborted
<1>2. CASE /\ env = "ready" /\ q.head = head /\ env' = "sent"
           /\ \A r \in Recipients : rcp[r].status = "pending" /\ rcp[r].cap = 0
           /\ rcp' = [r \in Recipients |->
                        IF r \in Invited
                        THEN [rcp[r] EXCEPT !.cap = 1, !.exp = IF initial(r) THEN head + 1 ELSE 0]
                        ELSE rcp[r]]
           /\ outbox' = [i \in Rows |->
                           IF i[2] = 1 /\ i[1] \in Invited
                           THEN NewRow(IF initial(i[1]) THEN "pending" ELSE "blocked")
                           ELSE outbox[i]]
           /\ appended(s, <<"send">>)
  <2>1. PICK n \in Nat \ {0} : n = head + 1
    BY DEF Inv, Tables, head
  <2>2. \A r \in Recipients : rcp[r] \in recipientRow
    BY DEF Inv, Tables
  <2>3. 1 \in 0..MaxIssues
    BY DEF D1Constants
  <2>4. ASSUME NEW r \in Invited
        PROVE  /\ rcp'[r] \in recipientRow
               /\ rcp'[r].cap = 1 /\ rcp'[r].status = rcp[r].status
               /\ rcp'[r].revoked = rcp[r].revoked
               /\ rcp'[r].exp # 0 <=> initial(r)
    <3>1. PICK exp \in Nat : exp = (IF initial(r) THEN n ELSE 0) /\ (exp # 0 <=> initial(r))
      OBVIOUS
    <3>2. r \in Recipients
      BY Orders
    <3>3. rcp'[r] = [rcp[r] EXCEPT !.cap = 1, !.exp = exp]
      BY <1>2, <2>1, <3>1, <3>2
    <3> QED
      BY <2>2, <2>3, <3>1, <3>2, <3>3 DEF recipientRow
  <2>5. \A r \in Recipients \ Invited : rcp'[r] = rcp[r]
    BY <1>2
  <2>6. SentRows
    BY <2>4, <2>5 DEF SentRows
  <2>7. rcp' \in [Recipients -> recipientRow]
    <3>1. \A r \in Recipients : rcp'[r] \in recipientRow
      BY <2>2, <2>4, <2>5
    <3>2. rcp' = [r \in Recipients |-> rcp'[r]]
      BY <1>2
    <3> QED
      BY <3>1, <3>2
  <2>8. \A status \in {"pending", "blocked"} :
          /\ NewRow(status) \in outboxRow
          /\ \A k \in Nat : k = 1 => RowOK(NewRow(status), k, 1)
    BY DEF NewRow, outboxRow, RowOK
  <2>9. ASSUME NEW i \in Rows
        PROVE  outbox'[i] \in outboxRow /\ RowOK(outbox'[i], i[2], rcp'[i[1]].cap)
    <3>1. i[1] \in Recipients /\ i[2] \in Nat \ {0}
      BY DEF Rows, D1Constants
    <3>2. outbox[i] \in outboxRow /\ RowOK(outbox[i], i[2], 0)
      BY <1>2, <3>1 DEF Inv, Tables, RowsOK
    <3>3. CASE i[2] = 1 /\ i[1] \in Invited
      <4>1. PICK status \in {"pending", "blocked"} : outbox'[i] = NewRow(status)
        BY <1>2, <3>3
      <4> QED
        BY <2>4, <2>8, <3>1, <3>3, <4>1
    <3>4. CASE i[1] \in Invited /\ i[2] # 1
      <4>1. outbox'[i] = outbox[i] /\ rcp'[i[1]].cap = 1
        BY <1>2, <2>4, <3>4
      <4>2. outbox[i].status = "none"
        BY <3>1, <3>2 DEF RowOK
      <4> QED
        BY <3>1, <3>2, <3>4, <4>1, <4>2 DEF RowOK
    <3>5. CASE i[1] \notin Invited
      BY <1>2, <2>5, <3>1, <3>2, <3>5
    <3> QED
      BY <3>3, <3>4, <3>5
  <2>10. outbox' \in [Rows -> outboxRow] /\ RowsOK'
    <3>1. outbox' = [i \in Rows |-> outbox'[i]]
      BY <1>2
    <3> QED
      BY <2>9, <3>1 DEF RowsOK
  <2>11. <<"send">> \in Seq(Command \cup {"completed"}) /\ <<"send">> # <<>>
    BY DEF Command
  <2>12. /\ Requests' /\ ChainLinear'
         /\ audit' \in Seq(auditEvent) /\ audit' # <<>> /\ lapsed' = lapsed /\ tasks' = tasks
    BY <1>2, <2>11, Appended DEF Inv
  <2>13. Tables'
    BY <1>2, <2>7, <2>10, <2>12 DEF Inv, Tables, Unended
  <2>14. RoutingInv' /\ Unfinished'
    BY <1>2, <2>6, RoutingSent DEF Inv
  <2>15. TerminalQuiet' /\ RevocationEvidenceTrue'
    BY <1>2 DEF TerminalQuiet, RevocationEvidenceTrue, Terminal
  <2> QED
    BY <1>2, <2>6, <2>10, <2>12, <2>13, <2>14, <2>15 DEF Inv
<1> QED
  BY <1>1, <1>2 DEF publishSend, stillReady, headMatches

-----------------------------------------------------------------------------
(***************************************************************************)
(* Views and reissues.  They keep who has a link and who has completed;    *)
(* and, of a recipient whose link is still closed, everything.             *)
(***************************************************************************)
SameLinks ==
  \A r \in Recipients :
    /\ rcp'[r].exp = 0 <=> rcp[r].exp = 0
    /\ rcp'[r].status = "completed" <=> rcp[r].status = "completed"

SameClosed ==
  \A r \in Recipients :
    /\ rcp'[r].cap = 0 <=> rcp[r].cap = 0
    /\ rcp[r].exp = 0 => rcp'[r] = rcp[r]

LEMMA RoutingKept ==
  ASSUME RoutingInv, env \in Active, env' \in Active, SameLinks, SameClosed
  PROVE  RoutingInv'
PROOF
<1>1. Unsent'
  BY DEF Unsent, Active
<1>2. Untouched'
  BY Orders DEF RoutingInv, Untouched, SameLinks, SameClosed
<1>3. OnlyInvited' /\ OnlyActionable'
  BY DEF RoutingInv, OnlyInvited, OnlyActionable, SameLinks, SameClosed
<1>4. ReleasedExactly'
  BY Orders DEF RoutingInv, ReleasedExactly, SameLinks
<1> QED
  BY <1>1, <1>2, <1>3, <1>4 DEF RoutingInv

\* A recipient's row written, the others not.
LEMMA RowWritten ==
  ASSUME NEW rows \in [Recipients -> recipientRow], NEW r \in Recipients, NEW row \in recipientRow
  PROVE  /\ [rows EXCEPT ![r] = row] \in [Recipients -> recipientRow]
         /\ \A p \in Recipients : [rows EXCEPT ![r] = row][p] = IF p = r THEN row ELSE rows[p]
PROOF
  OBVIOUS

\* The recipient a command of theirs addresses.
LEMMA Addressed ==
  ASSUME Tables, Requests, NEW s \in Sessions, req[s].kind \in RecipientCommand
  PROVE  req[s].r \in Recipients /\ rcp[req[s].r] \in recipientRow
PROOF
  BY DEF Tables, Requests, Knows

\* The first event of a sent envelope moves it to `in_progress'.
LEMMA OpenedActive ==
  ASSUME env \in Active
  PROVE  opened = "in_progress" /\ opened \in Active
PROOF
  BY DEF opened, Active

\* Nothing is claimed of the end of an envelope that goes on.
LEMMA GoesOn ==
  ASSUME env' \in Active
  PROVE  TerminalQuiet' /\ RevocationEvidenceTrue' /\ env' \in Unended
PROOF
  BY DEF TerminalQuiet, RevocationEvidenceTrue, Terminal, Active, Unended

LEMMA InvViewed ==
  ASSUME D1Constants, Inv, NEW s \in Sessions, publishViewed(s)
  PROVE  /\ Inv'
         /\ UNCHANGED tables \/ (env \in Active /\ env' = "in_progress" /\ SameLinks)
PROOF
<1> DEFINE q == req[s]
           row == [rcp[q.r] EXCEPT !.status = "viewed"]
<1>1. CASE publishing(s, "view") /\ abort(s)
  BY <1>1, InvAborted
<1>2. CASE /\ publishing(s, "view") /\ q.head = head
           /\ liveEligible(q, {"signer", "approver", "viewer"}, {"pending"})
           /\ rcp' = [rcp EXCEPT ![q.r].status = "viewed"]
           /\ env' = opened /\ UNCHANGED outbox
           /\ appended(s, <<"view">>)
  <2>1. q.r \in Recipients /\ rcp[q.r] \in recipientRow /\ rcp \in [Recipients -> recipientRow]
    BY <1>2, Addressed DEF Inv, publishing, RecipientCommand, Tables
  <2>2. /\ env \in Active /\ rcp[q.r].exp # 0 /\ ~rcp[q.r].revoked
        /\ rcp[q.r].status = "pending"
    BY <1>2 DEF liveEligible, live
  <2>3. rcp' = [rcp EXCEPT ![q.r] = row]
    BY <1>2, <2>1
  <2>4. /\ row \in recipientRow /\ row.status = "viewed"
        /\ row.cap = rcp[q.r].cap /\ row.exp = rcp[q.r].exp /\ row.revoked = rcp[q.r].revoked
    BY <2>1 DEF recipientRow, RecipientStatus
  <2>5. env' = "in_progress" /\ env' \in Active
    BY <1>2, <2>2, OpenedActive
  <2>6. <<"view">> \in Seq(Command \cup {"completed"}) /\ <<"view">> # <<>>
    BY DEF Command
  <2>7. /\ Requests' /\ ChainLinear'
        /\ audit' \in Seq(auditEvent) /\ audit' # <<>> /\ lapsed' = lapsed /\ tasks' = tasks
    BY <1>2, <2>6, Appended DEF Inv
  <2> HIDE DEF q, row
  <2>8. /\ rcp' \in [Recipients -> recipientRow]
        /\ \A r \in Recipients : rcp'[r] = IF r = q.r THEN row ELSE rcp[r]
    BY <2>1, <2>3, <2>4, RowWritten
  <2>9. SameLinks /\ SameClosed
    BY <2>2, <2>4, <2>8 DEF SameLinks, SameClosed
  <2>10. Tables'
    BY <1>2, <2>5, <2>7, <2>8, GoesOn DEF Inv, Tables
  <2>11. RowsOK'
    <3>1. \A i \in Rows : rcp'[i[1]].cap = rcp[i[1]].cap
      BY <2>4, <2>8 DEF Rows
    <3> QED
      BY <1>2, <3>1 DEF Inv, RowsOK
  <2>12. Unfinished'
    BY <2>2, <2>4, <2>5, <2>8 DEF Inv, Unfinished, Unended, Active
  <2>13. RoutingInv'
    BY <2>2, <2>5, <2>9, RoutingKept DEF Inv
  <2> QED
    BY <2>2, <2>5, <2>7, <2>9, <2>10, <2>11, <2>12, <2>13, GoesOn DEF Inv
<1> QED
  BY <1>1, <1>2 DEF publishViewed, headMatches

LEMMA InvReissued ==
  ASSUME D1Constants, Inv, NEW s \in Sessions, publishReissue(s)
  PROVE  /\ Inv'
         /\ UNCHANGED tables \/ (env \in Active /\ env' = env /\ SameLinks)
PROOF
<1> DEFINE q == req[s]
<1>1. CASE publishing(s, "reissue") /\ abort(s)
  BY <1>1, InvAborted
<1>2. CASE /\ publishing(s, "reissue") /\ q.head <= head /\ q.head + 1 > head
           /\ env \in Active /\ env' = env
           /\ rcp[q.r].status \in {"pending", "viewed"}
           /\ rcp[q.r].exp # 0 /\ rcp[q.r].cap = q.cap /\ ~rcp[q.r].revoked
           /\ ~processing({q.r}) /\ ~blocked(q.r)
           /\ rcp' = [rcp EXCEPT ![q.r].cap = q.cap + 1, ![q.r].exp = head + 1]
           /\ outbox' = [i \in Rows |->
                           IF i = <<q.r, q.cap + 1>> THEN NewRow("pending")
                           ELSE IF i[1] = q.r /\ undelivered(outbox[i]) THEN scrubbed(outbox[i])
                           ELSE outbox[i]]
           /\ appended(s, <<"reissue">>)
  <2>1. q.r \in Recipients /\ rcp[q.r] \in recipientRow /\ rcp \in [Recipients -> recipientRow]
    BY <1>2, Addressed DEF Inv, publishing, RecipientCommand, Tables
  <2>2. q.cap \in Nat /\ q.cap < MaxIssues /\ q.head \in Nat
    <3>1. q \in commandRequest /\ Knows(q) /\ q.kind = "reissue"
      BY <1>2 DEF Inv, Requests, publishing
    <3> QED
      BY <3>1 DEF commandRequest, Knows, D1Constants
  <2>3. PICK h \in Nat : h = head
    BY DEF Inv, Tables, head
  <2>4. q.head = head
    BY <1>2, <2>2, <2>3
  <2>5. PICK k \in 1..MaxIssues : k = q.cap + 1
    BY <2>2 DEF D1Constants
  <2>6. PICK n \in Nat \ {0} : n = head + 1
    BY <2>3
  <2> DEFINE row0 == [rcp[q.r] EXCEPT !.cap = k]
             row == [row0 EXCEPT !.exp = n]
  <2>7. rcp' = [rcp EXCEPT ![q.r] = row]
    BY <1>2, <2>1, <2>5, <2>6
  <2>8. /\ row \in recipientRow /\ row.cap = k /\ row.exp # 0
        /\ row.status = rcp[q.r].status /\ row.revoked = rcp[q.r].revoked
    <3>1. /\ row0 \in recipientRow /\ row0.cap = k
          /\ row0.status = rcp[q.r].status /\ row0.revoked = rcp[q.r].revoked
      BY <2>1 DEF recipientRow
    <3> HIDE DEF row0
    <3> QED
      BY <3>1 DEF recipientRow
  <2>9. /\ outbox \in [Rows -> outboxRow]
        /\ outbox' = [i \in Rows |->
                        IF i = <<q.r, k>> THEN NewRow("pending")
                        ELSE IF i[1] = q.r /\ undelivered(outbox[i]) THEN scrubbed(outbox[i])
                        ELSE outbox[i]]
    BY <1>2, <2>5 DEF Inv, Tables
  <2>10. <<"reissue">> \in Seq(Command \cup {"completed"}) /\ <<"reissue">> # <<>>
    BY DEF Command
  <2>11. /\ Requests' /\ ChainLinear'
         /\ audit' \in Seq(auditEvent) /\ audit' # <<>> /\ lapsed' = lapsed /\ tasks' = tasks
    BY <1>2, <2>4, <2>10, Appended DEF Inv
  <2> HIDE DEF q, row
  <2>12. /\ rcp' \in [Recipients -> recipientRow]
         /\ \A r \in Recipients : rcp'[r] = IF r = q.r THEN row ELSE rcp[r]
    BY <2>1, <2>7, <2>8, RowWritten
  <2>13. k # 0 /\ rcp[q.r].exp # 0 /\ rcp[q.r].cap # 0
    BY <1>2, <2>1, <2>5 DEF Inv, RoutingInv, OnlyInvited, Untouched, q
  <2>14. SameLinks /\ SameClosed
    BY <2>8, <2>12, <2>13 DEF SameLinks, SameClosed
  <2>15. ASSUME NEW i \in Rows
         PROVE  outbox'[i] \in outboxRow /\ RowOK(outbox'[i], i[2], rcp'[i[1]].cap)
    <3>1. /\ i[1] \in Recipients /\ i[2] \in 1..MaxIssues /\ i = <<i[1], i[2]>>
          /\ i[2] \in Nat /\ k \in Nat
      BY <2>5 DEF Rows, D1Constants
    <3>2. outbox[i] \in outboxRow /\ RowOK(outbox[i], i[2], rcp[i[1]].cap)
      BY <2>9 DEF Inv, RowsOK
    <3>3. CASE i[1] # q.r
      BY <2>9, <2>12, <3>1, <3>2, <3>3
    <3>4. CASE i = <<q.r, k>>
      <4>1. outbox'[i] = NewRow("pending") /\ rcp'[i[1]].cap = k /\ i[2] = k
        BY <2>8, <2>9, <2>12, <3>1, <3>4
      <4> QED
        BY <3>1, <4>1 DEF NewRow, outboxRow, RowOK
    <3>5. CASE i[1] = q.r /\ i[2] # k
      <4>1. rcp'[i[1]].cap = k /\ rcp[i[1]].cap = q.cap
        BY <1>2, <2>8, <2>12, <3>1, <3>5 DEF q
      <4>2. outbox'[i] = IF undelivered(outbox[i]) THEN scrubbed(outbox[i]) ELSE outbox[i]
        BY <2>9, <3>5
      <4>3. outbox[i].status \notin {"blocked", "processing"}
        BY <1>2, <3>1, <3>5 DEF processing, blocked, q
      <4>4. CASE i[2] < k
        <5>1. ~(i[2] > q.cap)
          BY <2>2, <2>5, <3>1, <4>4
        <5>2. outbox[i].status \in {"pending", "delivered", "failed"}
          BY <3>2, <4>1, <4>3, <5>1 DEF RowOK, outboxRow
        <5>3. /\ outbox[i].sealed = outbox[i].retryable
              /\ outbox[i].status = "delivered" => ~outbox[i].sealed
          BY <3>2 DEF RowOK
        <5>4. outbox'[i] \in outboxRow /\ Settled(outbox'[i]) /\ ~outbox'[i].retryable
          BY <3>2, <4>2, <5>2, <5>3, ScrubSettles
        <5> QED
          BY <3>1, <4>1, <4>4, <5>4 DEF RowOK, Settled, outboxRow
      <4>5. CASE i[2] > k
        <5>1. i[2] > q.cap
          BY <2>2, <2>5, <3>1, <4>5
        <5>2. outbox[i].status = "none" /\ ~outbox[i].retryable /\ ~outbox[i].sealed
          BY <3>2, <4>1, <5>1 DEF RowOK, outboxRow
        <5>3. outbox'[i] = outbox[i]
          BY <4>2, <5>2 DEF undelivered
        <5> QED
          BY <3>1, <3>2, <4>1, <4>5, <5>2, <5>3 DEF RowOK
      <4> QED
        BY <3>1, <3>5, <4>4, <4>5
    <3> QED
      BY <3>1, <3>3, <3>4, <3>5
  <2>16. outbox' \in [Rows -> outboxRow] /\ RowsOK'
    <3>1. outbox' = [i \in Rows |-> outbox'[i]]
      BY <2>9
    <3> QED
      BY <2>15, <3>1 DEF RowsOK
  <2>17. env' \in Active
    BY <1>2
  <2>18. Tables'
    BY <2>11, <2>12, <2>16, <2>17, GoesOn DEF Inv, Tables
  <2>19. Unfinished'
    BY <1>2, <2>8, <2>12 DEF Inv, Unfinished, q
  <2>20. RoutingInv'
    BY <1>2, <2>14, <2>17, RoutingKept DEF Inv
  <2> QED
    BY <1>2, <2>11, <2>14, <2>16, <2>17, <2>18, <2>19, <2>20, GoesOn DEF Inv
<1> QED
  BY <1>1, <1>2 DEF publishReissue, reissueFence, sequenceFree

-----------------------------------------------------------------------------
(***************************************************************************)
(* Endings.                                                                *)
(***************************************************************************)
\* What the terminal cleanup leaves: a row under a lease, and settled ones.
LEMMA Cleanup ==
  ASSUME outbox \in [Rows -> outboxRow], RowsOK
  PROVE  /\ terminalCleanup \in [Rows -> outboxRow]
         /\ \A i \in Rows :
              /\ RowOK(terminalCleanup[i], i[2], rcp[i[1]].cap)
              /\ undelivered(terminalCleanup[i]) \/ terminalCleanup[i].sealed =>
                   /\ outbox[i].status = "processing"
                   /\ terminalCleanup[i].status = "processing"
                   /\ terminalCleanup[i].attempts > 0
PROOF
<1>1. ASSUME NEW i \in Rows
      PROVE  LET row == terminalCleanup[i]
             IN  /\ row \in outboxRow /\ RowOK(row, i[2], rcp[i[1]].cap)
                 /\ undelivered(row) \/ row.sealed =>
                      /\ outbox[i].status = "processing"
                      /\ row.status = "processing" /\ row.attempts > 0
  <2>1. outbox[i] \in outboxRow /\ RowOK(outbox[i], i[2], rcp[i[1]].cap)
    BY DEF RowsOK
  <2>2. CASE undelivered(outbox[i])
    <3>1. terminalCleanup[i] = scrubbed(outbox[i])
      BY <2>2 DEF terminalCleanup
    <3>2. /\ scrubbed(outbox[i]) \in outboxRow
          /\ scrubbed(outbox[i]).status = "failed"
          /\ ~scrubbed(outbox[i]).sealed /\ ~scrubbed(outbox[i]).retryable
      BY <2>1 DEF scrubbed, outboxRow
    <3>3. outbox[i].status # "none"
      BY <2>2 DEF undelivered
    <3> HIDE DEF scrubbed
    <3> QED
      BY <2>1, <3>1, <3>2, <3>3 DEF RowOK, undelivered, Settled, outboxRow
  <2>3. CASE ~undelivered(outbox[i])
    <3>1. terminalCleanup[i] = outbox[i]
      BY <2>3 DEF terminalCleanup
    <3>2. outbox[i].sealed => outbox[i].status = "processing" /\ outbox[i].attempts > 0
      BY <2>1, <2>3 DEF RowOK, undelivered, outboxRow
    <3> QED
      BY <2>1, <2>3, <3>1, <3>2
  <2> QED
    BY <2>2, <2>3
<1>2. terminalCleanup = [i \in Rows |-> terminalCleanup[i]]
  BY DEF terminalCleanup
<1> QED
  BY <1>1, <1>2

LEMMA Revoked ==
  ASSUME NEW rows \in [Recipients -> recipientRow], NEW R
  PROVE  /\ revoke(rows, R) \in [Recipients -> recipientRow]
         /\ \A r \in Recipients :
              /\ revoke(rows, R)[r].status = rows[r].status
              /\ revoke(rows, R)[r].cap = rows[r].cap
              /\ revoke(rows, R)[r].exp = rows[r].exp
              /\ revoke(rows, R)[r].revoked <=> rows[r].revoked \/ r \in R
PROOF
<1>1. ASSUME NEW r \in Recipients
      PROVE  /\ revoke(rows, R)[r] \in recipientRow
             /\ revoke(rows, R)[r].status = rows[r].status
             /\ revoke(rows, R)[r].cap = rows[r].cap
             /\ revoke(rows, R)[r].exp = rows[r].exp
             /\ revoke(rows, R)[r].revoked <=> rows[r].revoked \/ r \in R
  <2>1. rows[r] \in recipientRow
    OBVIOUS
  <2>2. PICK b \in BOOLEAN : b = (rows[r].revoked \/ r \in R)
    OBVIOUS
  <2>3. revoke(rows, R)[r] = [rows[r] EXCEPT !.revoked = b]
    BY <2>2 DEF revoke
  <2> QED
    BY <2>1, <2>2, <2>3 DEF recipientRow
<1>2. revoke(rows, R) = [r \in Recipients |-> revoke(rows, R)[r]]
  BY DEF revoke
<1> QED
  BY <1>1, <1>2

\* Rows of an envelope that ends: the recipients keep their capabilities and
\* links, the outbox is cleaned up, and only an expiry leaves a lease alone.
LEMMA EndedRows ==
  ASSUME Tables, RowsOK, RoutingInv, env' \in Terminal,
         rcp' \in [Recipients -> recipientRow],
         \A r \in Recipients : /\ rcp'[r].cap = rcp[r].cap /\ rcp'[r].exp = rcp[r].exp
                               /\ rcp'[r].status = "completed" => r \in Actionable,
         outbox' = terminalCleanup,
         env' # "expired" => \A i \in Rows : ~terminalCleanup[i].sealed \/ ~processing(Recipients)
  PROVE  /\ outbox' \in [Rows -> outboxRow] /\ RowsOK'
         /\ RoutingInv' /\ Unfinished' /\ TerminalQuiet'
PROOF
<1>1. /\ terminalCleanup \in [Rows -> outboxRow]
      /\ \A i \in Rows :
           /\ RowOK(terminalCleanup[i], i[2], rcp[i[1]].cap)
           /\ undelivered(terminalCleanup[i]) \/ terminalCleanup[i].sealed =>
                /\ outbox[i].status = "processing"
                /\ terminalCleanup[i].status = "processing"
                /\ terminalCleanup[i].attempts > 0
  BY Cleanup DEF Tables
<1>2. \A i \in Rows : i[1] \in Recipients
  BY DEF Rows
<1>3. RowsOK'
  BY <1>1, <1>2 DEF RowsOK
<1>4. RoutingInv'
  BY DEF RoutingInv, Unsent, Untouched, OnlyInvited, OnlyActionable, ReleasedExactly, Terminal,
         Active
<1>5. Unfinished'
  BY DEF Unfinished, Unended, Terminal
<1>6. TerminalQuiet'
  <2> SUFFICES ASSUME NEW i \in Rows,
                      undelivered(terminalCleanup[i]) \/ terminalCleanup[i].sealed
               PROVE  /\ env' = "expired" /\ terminalCleanup[i].attempts > 0
                      /\ terminalCleanup[i].status \in {"processing", "failed"}
    BY DEF TerminalQuiet, undelivered
  <2>1. outbox[i].status = "processing" /\ processing(Recipients)
    BY <1>1, <1>2 DEF processing
  <2>2. terminalCleanup[i].sealed
    BY <1>1 DEF RowOK
  <2> QED
    BY <1>1, <2>1, <2>2
<1> QED
  BY <1>1, <1>3, <1>4, <1>5, <1>6

\* Who may decline, void or let expire, as their triggers find it.
LEMMA EndingEligible ==
  ASSUME Tables, Requests, NEW s \in Sessions, req[s].pc = "batch"
  PROVE  /\ /\ req[s].kind = "decline"
            /\ liveEligible(req[s], {"signer", "approver"}, {"pending", "viewed"})
            => /\ env \in Active /\ req[s].r \in Actionable
               /\ rcp[req[s].r].exp # 0 /\ rcp[req[s].r].status # "completed"
         /\ req[s].kind = "void" /\ env = req[s].status => env \in Unended /\ req[s].r = Nobody
         /\ req[s].kind = "expire" /\ env = req[s].status => env \in Active /\ req[s].r = Nobody
PROOF
<1>1. Knows(req[s])
  BY DEF Requests
<1>2. req[s].kind = "decline" => req[s].r \in Recipients
  BY <1>1 DEF Knows, RecipientCommand
<1>3. ASSUME req[s].kind = "decline",
             liveEligible(req[s], {"signer", "approver"}, {"pending", "viewed"})
      PROVE  /\ env \in Active /\ req[s].r \in Actionable
             /\ rcp[req[s].r].exp # 0 /\ rcp[req[s].r].status # "completed"
  BY <1>2, <1>3 DEF liveEligible, live, Actionable, isActionableRecipientRole
<1>4. req[s].kind \in {"void", "expire"} => req[s].r = Nobody
  BY <1>1 DEF Knows, RecipientCommand
<1>5. req[s].kind = "void" => req[s].status \in Unended
  BY <1>1 DEF Knows
<1>6. req[s].kind = "expire" => req[s].status \in Active
  BY <1>1 DEF Knows
<1> QED
  BY <1>3, <1>4, <1>5, <1>6

\* A decline, a void or an expiry whose evidence held.
Ended(s, kind, status) ==
  LET q == req[s]
      declined == [rcp EXCEPT ![q.r].status = "declined", ![q.r].revoked = TRUE]
  IN  /\ publishing(s, kind) /\ q.head = head
      /\ q.revoked = revocable(q.r)
      /\ kind # "expire" => ~processing(Recipients)
      /\ env' = status
      /\ rcp' = revoke(IF kind = "decline" THEN declined ELSE rcp, q.revoked)
      /\ outbox' = terminalCleanup
      /\ appended(s, <<kind>>)

\* Whose row an ending writes: the actor's, if they declined.
LEMMA EndedRecipients ==
  ASSUME Tables, NEW s \in Sessions, NEW kind, NEW status, Ended(s, kind, status),
         kind = "decline" => req[s].r \in Recipients
  PROVE  /\ rcp' \in [Recipients -> recipientRow]
         /\ \A r \in Recipients :
              /\ rcp'[r].cap = rcp[r].cap /\ rcp'[r].exp = rcp[r].exp
              /\ rcp'[r].status = IF kind = "decline" /\ r = req[s].r THEN "declined"
                                  ELSE rcp[r].status
              /\ r \in req[s].revoked => rcp'[r].revoked
PROOF
<1> DEFINE q == req[s]
           row0 == [rcp[q.r] EXCEPT !.status = "declined"]
           row == [row0 EXCEPT !.revoked = TRUE]
           rows == [rcp EXCEPT ![q.r] = row]
<1>1. rcp \in [Recipients -> recipientRow]
  BY DEF Tables
<1>2. CASE kind # "decline"
  <2>1. rcp' = revoke(rcp, q.revoked)
    BY <1>2 DEF Ended
  <2> QED
    BY <1>1, <1>2, <2>1, Revoked
<1>3. CASE kind = "decline"
  <2>1. q.r \in Recipients /\ rcp[q.r] \in recipientRow
    BY <1>1, <1>3
  <2>2. rcp' = revoke(rows, q.revoked)
    <3>1. [rcp EXCEPT ![q.r].status = "declined", ![q.r].revoked = TRUE] = rows
      BY <1>1, <2>1
    <3> QED
      BY <1>3, <3>1, Zenon DEF Ended
  <2>3. /\ row \in recipientRow /\ row.status = "declined"
        /\ row.cap = rcp[q.r].cap /\ row.exp = rcp[q.r].exp
    <3>1. /\ row0 \in recipientRow /\ row0.status = "declined"
          /\ row0.cap = rcp[q.r].cap /\ row0.exp = rcp[q.r].exp
      BY <2>1 DEF recipientRow, RecipientStatus
    <3> HIDE DEF row0
    <3> QED
      BY <3>1 DEF recipientRow
  <2> HIDE DEF q, row
  <2>4. /\ rows \in [Recipients -> recipientRow]
        /\ \A p \in Recipients : rows[p] = IF p = q.r THEN row ELSE rcp[p]
    BY <1>1, <2>1, <2>3, RowWritten
  <2> HIDE DEF rows
  <2> QED
    BY <1>3, <2>2, <2>3, <2>4, Revoked DEF q
<1> QED
  BY <1>2, <1>3

LEMMA InvEnded ==
  ASSUME D1Constants, Inv, NEW s \in Sessions,
         NEW kind \in {"decline", "void", "expire"}, NEW status \in {"declined", "voided", "expired"},
         kind = "expire" <=> status = "expired",
         Ended(s, kind, status), env \in Unended,
         kind = "decline" => req[s].r \in Actionable /\ rcp[req[s].r].status # "completed",
         kind # "decline" => req[s].r = Nobody
  PROVE  Inv' /\ SameLinks
PROOF
<1> DEFINE q == req[s]
<1>1. kind = "decline" => q.r \in Recipients /\ q.r \in Actionable
  BY Orders
<1>2. /\ rcp' \in [Recipients -> recipientRow]
      /\ \A r \in Recipients :
           /\ rcp'[r].cap = rcp[r].cap /\ rcp'[r].exp = rcp[r].exp
           /\ rcp'[r].status = IF kind = "decline" /\ r = q.r THEN "declined" ELSE rcp[r].status
           /\ r \in q.revoked => rcp'[r].revoked
  BY <1>1, EndedRecipients DEF Inv
<1>3. env' = status /\ env' \in Terminal /\ outbox' = terminalCleanup
  BY DEF Ended, Terminal
<1>4. \A r \in Recipients : rcp'[r].status = "completed" => r \in Actionable
  BY <1>2 DEF Inv, RoutingInv, OnlyActionable
<1>5. env' # "expired" => ~processing(Recipients)
  BY <1>3 DEF Ended
<1>6. /\ outbox' \in [Rows -> outboxRow] /\ RowsOK'
      /\ RoutingInv' /\ Unfinished' /\ TerminalQuiet'
  BY <1>2, <1>3, <1>4, <1>5, EndedRows DEF Inv
<1>7. <<kind>> \in Seq(Command \cup {"completed"}) /\ <<kind>> # <<>>
  BY DEF Command
<1>8. /\ Requests' /\ ChainLinear' /\ audit' \in Seq(auditEvent) /\ audit' # <<>>
      /\ audit'[Len(audit')].revoked = q.revoked /\ lapsed' = lapsed /\ tasks' = tasks
  BY <1>7, Appended DEF Inv, Ended
<1>9. Tables'
  BY <1>2, <1>3, <1>6, <1>8 DEF Inv, Tables
<1>10. SameLinks
  BY <1>2 DEF SameLinks
<1>11. RevocationEvidenceTrue'
  <2> DEFINE unfinished == {r \in Invited : rcp'[r].status \in {"pending", "viewed"} /\ rcp'[r].cap # 0}
  <2>1. q.revoked = {r \in Recipients : r # q.r /\ rcp[r].status # "completed" /\ rcp[r].cap # 0
                                         /\ ~rcp[r].revoked}
    BY DEF Ended, revocable
  <2>2. \A r \in Recipients :
          /\ rcp[r].cap # 0 => r \in Invited
          /\ rcp[r].status \in {"pending", "viewed", "completed"}
          /\ rcp[r].revoked => rcp[r].status = "completed"
    BY DEF Inv, Unfinished, RoutingInv, OnlyInvited, Tables, recipientRow, RecipientStatus
  <2>3. ASSUME NEW r \in Recipients
        PROVE  r \in q.revoked <=> r \in unfinished
    <3>1. CASE r = q.r
      <4>1. kind = "decline"
        BY <3>1 DEF D1Constants
      <4> QED
        BY <1>2, <2>1, <3>1, <4>1
    <3>2. CASE r # q.r
      BY <1>2, <2>1, <2>2, <3>2
    <3> QED
      BY <3>1, <3>2
  <2>4. q.revoked = unfinished
    <3>1. q.revoked \subseteq Recipients /\ unfinished \subseteq Recipients
      BY <2>1, Orders
    <3> HIDE DEF q, unfinished
    <3> QED
      BY <2>3, <3>1
  <2>5. \A r \in unfinished : rcp'[r].revoked
    BY <1>2, <2>4, Orders
  <2> HIDE DEF q
  <2> QED
    BY <1>8, <2>4, <2>5 DEF RevocationEvidenceTrue, head
<1> QED
  BY <1>6, <1>8, <1>9, <1>10, <1>11 DEF Inv

LEMMA InvTerminated ==
  ASSUME D1Constants, Inv, NEW s \in Sessions,
         publishDeclined(s) \/ publishVoid(s) \/ publishEnvelopeExpiry(s)
  PROVE  /\ Inv'
         /\ \/ UNCHANGED tables
            \/ /\ SameLinks
               /\ \/ env \in Active /\ env' = "expired"
                  \/ env \in Active \cup {"ready"} /\ env' = "voided"
                  \/ /\ env \in Active /\ env' = "declined"
                     /\ \E r \in Actionable : rcp[r].exp # 0 /\ rcp[r].status # "completed"
PROOF
<1> DEFINE q == req[s]
<1>1. ASSUME NEW kind, publishing(s, kind), abort(s) PROVE Inv' /\ UNCHANGED tables
  BY <1>1, InvAborted
<1>2. Tables /\ Requests
  BY DEF Inv
<1>3. Active \subseteq Unended /\ Unended \subseteq Active \cup {"ready"}
  BY DEF Active, Unended
<1>4. CASE publishDeclined(s)
  <2>1. CASE /\ Ended(s, "decline", "declined")
             /\ liveEligible(q, {"signer", "approver"}, {"pending", "viewed"})
    <3>1. q.kind = "decline" /\ q.pc = "batch"
      BY <2>1 DEF Ended, publishing, reading
    <3>2. /\ env \in Active /\ q.r \in Actionable
          /\ rcp[q.r].exp # 0 /\ rcp[q.r].status # "completed"
      BY <1>2, <2>1, <3>1, EndingEligible
    <3> QED
      BY <1>3, <2>1, <3>2, InvEnded DEF Ended
  <2> QED
    BY <1>1, <1>4, <2>1
    DEF publishDeclined, publishTerminal, Ended, headMatches, evidenceHolds, terminalFence,
        publishing
<1>5. CASE publishVoid(s)
  <2>1. CASE Ended(s, "void", "voided") /\ env = q.status
    <3>1. q.kind = "void" /\ q.pc = "batch"
      BY <2>1 DEF Ended, publishing, reading
    <3>2. env \in Unended /\ q.r = Nobody
      BY <1>2, <2>1, <3>1, EndingEligible
    <3> QED
      BY <1>3, <2>1, <3>2, InvEnded DEF Ended
  <2> QED
    BY <1>1, <1>5, <2>1
    DEF publishVoid, publishTerminal, Ended, headMatches, evidenceHolds, terminalFence, publishing
<1>6. CASE publishEnvelopeExpiry(s)
  <2>1. CASE Ended(s, "expire", "expired") /\ env = q.status
    <3>1. q.kind = "expire" /\ q.pc = "batch"
      BY <2>1 DEF Ended, publishing, reading
    <3>2. env \in Active /\ q.r = Nobody
      BY <1>2, <2>1, <3>1, EndingEligible
    <3> QED
      BY <1>3, <2>1, <3>2, InvEnded DEF Ended
  <2> QED
    BY <1>1, <1>6, <2>1
    DEF publishEnvelopeExpiry, publishTerminal, Ended, headMatches, evidenceHolds, terminalFence,
        publishing
<1> QED
  BY <1>4, <1>5, <1>6

-----------------------------------------------------------------------------
(***************************************************************************)
(* Decisions.  `Decides' is what the triggers of a decision's batch have   *)
(* checked when it writes.                                                 *)
(***************************************************************************)
Decides(q) ==
  /\ q.r \in Actionable
  /\ rcp[q.r].status # "completed" /\ rcp[q.r].exp # 0
  /\ env \in Active
  /\ q.plan \in Plans /\ routingHolds(q)

\* No outstanding recipient precedes one whose link is open.
LEMMA LiveActor ==
  ASSUME RoutingInv, NEW r \in Invited, rcp[r].exp # 0, env \in Active
  PROVE  \A q \in Actionable : rcp[q].status # "completed" => RoutingOrder[r] <= RoutingOrder[q]
PROOF
  BY DEF RoutingInv, ReleasedExactly

\* The outstanding actionable recipients besides the actor come no earlier
\* than the actor, and the plan says which of them come next.
LEMMA Outstanding ==
  ASSUME RoutingInv, NEW q, Decides(q)
  PROVE  LET rest == {r \in Actionable : r # q.r /\ rcp[r].status # "completed"}
         IN  /\ \A r \in rest : RoutingOrder[q.r] <= RoutingOrder[r]
             /\ q.plan.kind \in {"continue", "release", "complete"}
             /\ q.plan.kind = "complete" <=> rest = {}
             /\ q.plan.kind = "release" =>
                  /\ q.plan.next \in Nat
                  /\ q.plan.next > RoutingOrder[q.r]
                  /\ \E r \in rest : RoutingOrder[r] = q.plan.next
                  /\ \A r \in rest : q.plan.next <= RoutingOrder[r]
             /\ q.plan.kind = "continue" =>
                  \E r \in rest : RoutingOrder[r] = RoutingOrder[q.r]
PROOF
<1> DEFINE rest == {r \in Actionable : r # q.r /\ rcp[r].status # "completed"}
           left == remainingActionable(Statuses, q.r)
           own == {r \in left : RoutingOrder[r] = RoutingOrder[q.r]}
           later == laterOrders(Statuses, q.r)
<1>1. left = rest
  BY Orders DEF remainingActionable, Statuses
<1>2. q.r \in Recipients /\ q.r \in Invited /\ rest \subseteq Recipients
  BY Orders DEF Decides
<1>3. \A r \in rest : RoutingOrder[q.r] <= RoutingOrder[r]
  BY <1>2, LiveActor DEF Decides
<1>4. \A r \in Recipients : RoutingOrder[r] \in Nat
  BY Orders
<1>5. later = {RoutingOrder[r] : r \in {p \in rest : RoutingOrder[p] > RoutingOrder[q.r]}}
  BY <1>1 DEF laterOrders
<1>6. later \in SUBSET Nat
  BY <1>2, <1>4, <1>5
<1>7. /\ q.plan.kind = "complete" <=> left = {}
      /\ q.plan.kind = "release" => own = {} /\ later # {} /\ Least(later) = q.plan.next
      /\ q.plan.kind = "continue" => own # {}
      /\ q.plan.kind \in {"continue", "release", "complete"} /\ q.plan.next \in Nat
  BY DEF Decides, routingHolds, Plans
<1>8. ASSUME q.plan.kind = "release"
      PROVE  /\ q.plan.next > RoutingOrder[q.r]
             /\ \E r \in rest : RoutingOrder[r] = q.plan.next
             /\ \A r \in rest : q.plan.next <= RoutingOrder[r]
  <2>1. q.plan.next \in later /\ \A n \in later : q.plan.next <= n
    BY <1>6, <1>7, <1>8, LeastOfNaturals
  <2>2. \E r \in rest : RoutingOrder[r] = q.plan.next /\ q.plan.next > RoutingOrder[q.r]
    BY <1>5, <2>1
  <2>3. ASSUME NEW r \in rest PROVE q.plan.next <= RoutingOrder[r]
    <3>1. RoutingOrder[r] # RoutingOrder[q.r]
      BY <1>1, <1>7, <1>8
    <3>2. RoutingOrder[r] > RoutingOrder[q.r]
      BY <1>2, <1>3, <1>4, <3>1
    <3> QED
      BY <1>5, <2>1, <3>2
  <2> QED
    BY <2>2, <2>3
<1>9. q.plan.kind = "continue" => \E r \in rest : RoutingOrder[r] = RoutingOrder[q.r]
  BY <1>1, <1>7
<1> QED
  BY <1>1, <1>3, <1>7, <1>8, <1>9

\* The recipients a release opens are all those of the next order, and no
\* invited recipient has an order between the actor's and the next.
LEMMA NextGroup ==
  ASSUME RoutingInv, NEW q, Decides(q), q.plan.kind = "release"
  PROVE  /\ nextGroup(q) = {r \in Invited : RoutingOrder[r] = q.plan.next}
         /\ \A r \in Invited : /\ rcp[r].exp # 0 <=> RoutingOrder[r] <= RoutingOrder[q.r]
                               /\ RoutingOrder[r] <= RoutingOrder[q.r] \/ q.plan.next <= RoutingOrder[r]
PROOF
<1> DEFINE rest == {r \in Actionable : r # q.r /\ rcp[r].status # "completed"}
<1>1. /\ q.plan.next \in Nat /\ q.plan.next > RoutingOrder[q.r]
      /\ \A r \in rest : q.plan.next <= RoutingOrder[r]
      /\ \A r \in rest : RoutingOrder[q.r] <= RoutingOrder[r]
  BY Outstanding
<1>2. /\ q.r \in Actionable /\ q.r \in Invited /\ rcp[q.r].status # "completed"
      /\ \A r \in Invited : RoutingOrder[r] \in Nat
      /\ Actionable \subseteq Invited /\ Invited \subseteq Recipients
  BY Orders DEF Decides
<1>3. \A r \in Invited :
        rcp[r].exp # 0 <=>
          \A a \in Actionable : rcp[a].status # "completed" => RoutingOrder[r] <= RoutingOrder[a]
  BY DEF RoutingInv, ReleasedExactly, Decides
<1>4. \A a \in Actionable : rcp[a].status # "completed" => a = q.r \/ a \in rest
  OBVIOUS
<1>5. \A a \in rest : a \in Actionable
  OBVIOUS
<1>6. \A a \in Actionable : a # q.r /\ rcp[a].status # "completed" => a \in rest
  OBVIOUS
<1> HIDE DEF rest
<1>7. \A r \in Invited : rcp[r].exp # 0 <=> RoutingOrder[r] <= RoutingOrder[q.r]
  BY <1>1, <1>2, <1>3, <1>4, <1>5
<1>8. \A r \in Invited : rcp[r].exp = 0 =>
        rcp[r].cap # 0 /\ rcp[r].status = "pending" /\ ~rcp[r].revoked
  BY DEF RoutingInv, Untouched, Decides
<1>9. ASSUME NEW r \in Invited, ~(RoutingOrder[r] <= RoutingOrder[q.r])
      PROVE  q.plan.next <= RoutingOrder[r]
  <2>1. PICK a \in Actionable : RoutingOrder[a] = RoutingOrder[r]
    BY InvitedOrders
  <2>2. a \in Invited /\ rcp[a].exp = 0
    BY <1>2, <1>7, <1>9, <2>1
  <2>3. a # q.r /\ rcp[a].status # "completed"
    BY <1>2, <1>8, <1>9, <2>1, <2>2
  <2> QED
    BY <1>1, <1>6, <2>1, <2>3
<1>10. \A r \in Invited : RoutingOrder[r] = q.plan.next =>
         r # q.r /\ rcp[r].exp = 0 /\ rcp[r].status # "completed"
  BY <1>1, <1>2, <1>7, <1>8
<1>11. nextGroup(q) = {r \in Invited : RoutingOrder[r] = q.plan.next}
  BY <1>8, <1>10 DEF nextGroup
<1> QED
  BY <1>7, <1>9, <1>11

\* The recipients after a decision: the actor completed and without a link
\* to use, the links of the group opened, everything else as it was.
DecidedRows(q, group, n) ==
  /\ rcp' \in [Recipients -> recipientRow]
  /\ \A r \in Recipients :
       /\ rcp'[r].cap = rcp[r].cap
       /\ rcp'[r].exp = IF r \in group THEN n ELSE rcp[r].exp
       /\ rcp'[r].status = IF r = q.r THEN "completed" ELSE rcp[r].status
       /\ r # q.r => rcp'[r].revoked = rcp[r].revoked

LEMMA RoutingDecided ==
  ASSUME RoutingInv, NEW q, Decides(q), q.plan.kind # "complete", env' \in Active,
         NEW n \in Nat \ {0}, DecidedRows(q, nextGroup(q), n)
  PROVE  RoutingInv'
PROOF
<1> DEFINE rest == {r \in Actionable : r # q.r /\ rcp[r].status # "completed"}
           group == nextGroup(q)
<1>1. q.r \in Recipients /\ q.r \in Actionable /\ q.r \in Invited /\ rcp[q.r].exp # 0
  BY Orders DEF Decides
<1>2. group \subseteq Invited /\ q.r \notin group
  BY DEF nextGroup
<1>3. Unsent'
  BY DEF Unsent, Active
<1>4. Untouched'
  BY <1>1, <1>2, Orders DEF RoutingInv, Untouched, DecidedRows, Decides
<1>5. OnlyInvited' /\ OnlyActionable'
  BY <1>1, <1>2, Orders DEF RoutingInv, OnlyInvited, OnlyActionable, DecidedRows
<1>6. ReleasedExactly'
  <2> SUFFICES ASSUME NEW r \in Invited
               PROVE  rcp'[r].exp # 0 <=>
                        \A p \in Actionable : rcp'[p].status # "completed" =>
                          RoutingOrder[r] <= RoutingOrder[p]
    BY DEF ReleasedExactly
  <2>1. \A p \in Actionable : rcp'[p].status # "completed" <=> p \in rest
    BY Orders DEF DecidedRows
  <2>2. /\ RoutingOrder[r] \in Nat /\ RoutingOrder[q.r] \in Nat /\ r \in Recipients
        /\ \A p \in rest : RoutingOrder[p] \in Nat /\ p \in Actionable
    BY <1>1, Orders
  <2>3. CASE q.plan.kind = "continue"
    <3>1. rcp'[r].exp = rcp[r].exp
      BY <2>2, <2>3 DEF nextGroup, DecidedRows
    <3>2. PICK p \in rest : RoutingOrder[p] = RoutingOrder[q.r]
      BY <2>3, Outstanding
    <3>3. rcp[r].exp # 0 <=>
            \A a \in Actionable : rcp[a].status # "completed" => RoutingOrder[r] <= RoutingOrder[a]
      BY DEF RoutingInv, ReleasedExactly, Decides
    <3>4. \A a \in Actionable : rcp[a].status # "completed" <=> a \in rest \/ a = q.r
      BY DEF Decides
    <3> HIDE DEF rest
    <3> QED
      BY <1>1, <2>1, <2>2, <3>1, <3>2, <3>3, <3>4
  <2>4. CASE q.plan.kind = "release"
    <3>1. r \in group <=> RoutingOrder[r] = q.plan.next
      BY <2>4, NextGroup
    <3>2. /\ q.plan.next \in Nat /\ q.plan.next > RoutingOrder[q.r]
          /\ \A p \in rest : q.plan.next <= RoutingOrder[p]
          /\ \E p \in rest : RoutingOrder[p] = q.plan.next
      BY <2>4, Outstanding
    <3>3. /\ rcp[r].exp # 0 <=> RoutingOrder[r] <= RoutingOrder[q.r]
          /\ RoutingOrder[r] <= RoutingOrder[q.r] \/ q.plan.next <= RoutingOrder[r]
      BY <2>4, NextGroup
    <3>4. rcp'[r].exp = IF r \in group THEN n ELSE rcp[r].exp
      BY <2>2 DEF DecidedRows
    <3> HIDE DEF rest, group
    <3>5. rcp'[r].exp # 0 <=> RoutingOrder[r] <= q.plan.next
      BY <2>2, <3>1, <3>2, <3>3, <3>4
    <3>6. (\A p \in rest : RoutingOrder[r] <= RoutingOrder[p]) <=> RoutingOrder[r] <= q.plan.next
      BY <2>2, <3>2
    <3> QED
      BY <2>1, <2>2, <3>5, <3>6
  <2>5. q.plan.kind \in {"continue", "release"}
    BY Outstanding
  <2> QED
    BY <2>3, <2>4, <2>5
<1> QED
  BY <1>3, <1>4, <1>5, <1>6 DEF RoutingInv

\* The rows of the outbox a release makes pending.
LEMMA ReleasedOutbox ==
  ASSUME outbox \in [Rows -> outboxRow], RowsOK, NEW q,
         \A r \in Recipients : rcp'[r].cap = rcp[r].cap,
         outbox' = [i \in Rows |-> IF i \in nextRows(q)
                                   THEN [outbox[i] EXCEPT !.status = "pending"]
                                   ELSE outbox[i]]
  PROVE  outbox' \in [Rows -> outboxRow] /\ RowsOK'
PROOF
<1>1. ASSUME NEW i \in Rows
      PROVE  outbox'[i] \in outboxRow /\ RowOK(outbox'[i], i[2], rcp'[i[1]].cap)
  <2>1. outbox[i] \in outboxRow /\ RowOK(outbox[i], i[2], rcp[i[1]].cap)
    BY DEF RowsOK
  <2>2. rcp'[i[1]].cap = rcp[i[1]].cap
    BY DEF Rows
  <2>3. CASE i \in nextRows(q)
    <3>1. outbox'[i] = [outbox[i] EXCEPT !.status = "pending"]
      BY <2>3
    <3>2. outbox[i].status = "blocked"
      BY <2>3 DEF nextRows
    <3> QED
      BY <2>1, <2>2, <3>1, <3>2 DEF RowOK, outboxRow, Settled
  <2>4. CASE i \notin nextRows(q)
    BY <2>1, <2>2, <2>4
  <2> QED
    BY <2>3, <2>4
<1>2. outbox' = [i \in Rows |-> outbox'[i]]
  OBVIOUS
<1> QED
  BY <1>1, <1>2 DEF RowsOK

completedActor(r) == [rcp EXCEPT ![r].status = "completed", ![r].revoked = TRUE]

LEMMA ActorRow ==
  ASSUME Tables, NEW r \in Recipients
  PROVE  /\ completedActor(r) \in [Recipients -> recipientRow]
         /\ \A p \in Recipients \ {r} : completedActor(r)[p] = rcp[p]
         /\ completedActor(r)[r].status = "completed"
         /\ completedActor(r)[r].cap = rcp[r].cap /\ completedActor(r)[r].exp = rcp[r].exp
PROOF
<1> DEFINE row0 == [rcp[r] EXCEPT !.status = "completed"]
           row == [row0 EXCEPT !.revoked = TRUE]
<1>1. rcp \in [Recipients -> recipientRow] /\ rcp[r] \in recipientRow
  BY DEF Tables
<1>2. completedActor(r) = [rcp EXCEPT ![r] = row]
  BY <1>1 DEF completedActor
<1>3. /\ row \in recipientRow /\ row.status = "completed"
      /\ row.cap = rcp[r].cap /\ row.exp = rcp[r].exp
  <2>1. /\ row0 \in recipientRow /\ row0.status = "completed"
        /\ row0.cap = rcp[r].cap /\ row0.exp = rcp[r].exp
    BY <1>1 DEF recipientRow, RecipientStatus
  <2> HIDE DEF row0
  <2> QED
    BY <2>1 DEF recipientRow
<1> HIDE DEF row
<1>4. /\ completedActor(r) \in [Recipients -> recipientRow]
      /\ \A p \in Recipients : completedActor(r)[p] = IF p = r THEN row ELSE rcp[p]
  BY <1>1, <1>2, <1>3, RowWritten
<1> QED
  BY <1>3, <1>4

\* What a decision leaves of the recipients if it does not complete.
LEMMA DecidedRecipients ==
  ASSUME Tables, NEW q, q.r \in Recipients, NEW group, q.r \notin group, NEW n \in Nat,
         rcp' = [r \in Recipients |->
                   IF r \in group THEN [rcp[r] EXCEPT !.exp = n] ELSE completedActor(q.r)[r]]
  PROVE  DecidedRows(q, group, n)
PROOF
<1>1. \A r \in Recipients : rcp[r] \in recipientRow
  BY DEF Tables
<1>2. ASSUME NEW r \in Recipients
      PROVE  /\ rcp'[r] \in recipientRow /\ rcp'[r].cap = rcp[r].cap
             /\ rcp'[r].exp = IF r \in group THEN n ELSE rcp[r].exp
             /\ rcp'[r].status = IF r = q.r THEN "completed" ELSE rcp[r].status
             /\ r # q.r => rcp'[r].revoked = rcp[r].revoked
  <2>1. CASE r \in group
    <3>1. rcp'[r] = [rcp[r] EXCEPT !.exp = n] /\ r # q.r /\ rcp[r] \in recipientRow
      BY <1>1, <2>1
    <3> QED
      BY <2>1, <3>1 DEF recipientRow
  <2>2. CASE r \notin group
    <3>1. rcp'[r] = completedActor(q.r)[r]
      BY <2>2
    <3> QED
      BY <2>2, <3>1, ActorRow
  <2> QED
    BY <2>1, <2>2
<1>3. rcp' = [r \in Recipients |-> rcp'[r]]
  OBVIOUS
<1>4. rcp' \in [Recipients -> recipientRow]
  BY <1>2, <1>3
<1> QED
  BY <1>2, <1>4 DEF DecidedRows

\* A decision as the lifecycle sees it: the actor, live and outstanding, has
\* completed, and the envelope has if no other actionable recipient is left.
Decided(actor) ==
  /\ env \in Active /\ rcp[actor].exp # 0 /\ rcp[actor].status # "completed"
  /\ \A r \in Actionable : rcp'[r].status = "completed" <=> rcp[r].status = "completed" \/ r = actor
  /\ IF \A r \in Actionable : rcp'[r].status = "completed"
     THEN env' = "completed" /\ \A r \in Recipients : rcp'[r].exp = rcp[r].exp
     ELSE env' = "in_progress"

\* What the batch of a decision does once its triggers let it.
Decision(s, kind) ==
  LET q == req[s]
      complete == q.plan.kind = "complete"
  IN  /\ Decides(q) /\ q.head = head /\ completionSafe(q)
      /\ env' = IF complete THEN "completed" ELSE opened
      /\ rcp' = IF complete THEN revoke(completedActor(q.r), revocable(q.r))
                ELSE [r \in Recipients |->
                        IF r \in nextGroup(q) THEN [rcp[r] EXCEPT !.exp = head + 1]
                        ELSE completedActor(q.r)[r]]
      /\ outbox' = IF complete THEN terminalCleanup
                   ELSE [i \in Rows |-> IF i \in nextRows(q)
                                        THEN [outbox[i] EXCEPT !.status = "pending"]
                                        ELSE outbox[i]]
      /\ appended(s, IF complete THEN <<kind, "completed">> ELSE <<kind>>)

LEMMA InvContinued ==
  ASSUME D1Constants, Inv, NEW s \in Sessions, NEW kind \in Command, Decision(s, kind),
         req[s].plan.kind # "complete"
  PROVE  Inv' /\ Decided(req[s].r)
PROOF
<1> DEFINE q == req[s]
           rest == {r \in Actionable : r # q.r /\ rcp[r].status # "completed"}
<1>1. /\ Decides(q) /\ q.head = head /\ env' = opened
      /\ outbox' = [i \in Rows |-> IF i \in nextRows(q)
                                   THEN [outbox[i] EXCEPT !.status = "pending"]
                                   ELSE outbox[i]]
      /\ appended(s, <<kind>>)
  BY DEF Decision
<1>2. rcp' = [r \in Recipients |->
                IF r \in nextGroup(q) THEN [rcp[r] EXCEPT !.exp = head + 1]
                ELSE completedActor(q.r)[r]]
  BY DEF Decision
<1>3. PICK n \in Nat \ {0} : n = head + 1
  BY DEF Inv, Tables, head
<1>4. q.r \in Recipients /\ q.r \in Actionable /\ q.r \notin nextGroup(q)
  BY <1>1, Orders DEF Decides, nextGroup
<1>5. DecidedRows(q, nextGroup(q), n)
  <2>1. rcp' = [r \in Recipients |->
                  IF r \in nextGroup(q) THEN [rcp[r] EXCEPT !.exp = n]
                  ELSE completedActor(q.r)[r]]
    BY <1>2, <1>3
  <2> HIDE DEF q
  <2> QED
    BY <1>3, <1>4, <2>1, DecidedRecipients DEF Inv
<1>6. env' = "in_progress" /\ env' \in Active /\ env \in Active
  BY <1>1, OpenedActive DEF Decides
<1>7. <<kind>> \in Seq(Command \cup {"completed"}) /\ <<kind>> # <<>>
  OBVIOUS
<1>8. /\ Requests' /\ ChainLinear' /\ audit' \in Seq(auditEvent) /\ audit' # <<>>
      /\ lapsed' = lapsed /\ tasks' = tasks
  BY <1>1, <1>7, Appended DEF Inv
<1>9. outbox' \in [Rows -> outboxRow] /\ RowsOK'
  <2>1. \A r \in Recipients : rcp'[r].cap = rcp[r].cap
    BY <1>5 DEF DecidedRows
  <2> HIDE DEF q
  <2> QED
    BY <1>1, <2>1, ReleasedOutbox DEF Inv, Tables
<1>10. Tables'
  BY <1>5, <1>6, <1>8, <1>9, GoesOn DEF Inv, Tables, DecidedRows
<1>11. Unfinished'
  BY <1>5, <1>6 DEF Inv, Unfinished, Unended, Active, DecidedRows
<1>12. RoutingInv'
  BY <1>1, <1>5, <1>6, RoutingDecided DEF Inv
<1>13. rest # {}
  BY <1>1, Outstanding DEF Inv
<1>14. Decided(q.r)
  <2>1. \A r \in Actionable :
          rcp'[r].status = "completed" <=> rcp[r].status = "completed" \/ r = q.r
    BY <1>5, Orders DEF DecidedRows
  <2>2. \E r \in Actionable : rcp'[r].status # "completed"
    BY <1>13, <2>1
  <2> QED
    BY <1>1, <1>6, <2>1, <2>2 DEF Decided, Decides
<1> QED
  BY <1>6, <1>8, <1>9, <1>10, <1>11, <1>12, <1>14, GoesOn DEF Inv

LEMMA InvCompleted ==
  ASSUME D1Constants, Inv, NEW s \in Sessions, NEW kind \in Command, Decision(s, kind),
         req[s].plan.kind = "complete"
  PROVE  Inv' /\ Decided(req[s].r)
PROOF
<1> DEFINE q == req[s]
           rest == {r \in Actionable : r # q.r /\ rcp[r].status # "completed"}
<1>1. /\ Decides(q) /\ q.head = head /\ env' = "completed"
      /\ ~processing(Recipients)
      /\ outbox' = terminalCleanup
      /\ appended(s, <<kind, "completed">>)
  BY DEF Decision, completionSafe
<1>2. rcp' = revoke(completedActor(q.r), revocable(q.r))
  BY DEF Decision
<1>3. q.r \in Recipients /\ q.r \in Actionable
  BY <1>1, Orders DEF Decides
<1>4. /\ rcp' \in [Recipients -> recipientRow]
      /\ \A r \in Recipients :
           /\ rcp'[r].cap = rcp[r].cap /\ rcp'[r].exp = rcp[r].exp
           /\ rcp'[r].status = IF r = q.r THEN "completed" ELSE rcp[r].status
  BY <1>2, <1>3, ActorRow, Revoked DEF Inv
<1>5. env' \in Terminal /\ env' \notin {"declined", "voided", "expired"}
  BY <1>1 DEF Terminal
<1>6. <<kind, "completed">> \in Seq(Command \cup {"completed"}) /\ <<kind, "completed">> # <<>>
  OBVIOUS
<1>7. /\ Requests' /\ ChainLinear' /\ audit' \in Seq(auditEvent) /\ audit' # <<>>
      /\ lapsed' = lapsed /\ tasks' = tasks
  BY <1>1, <1>6, Appended DEF Inv
<1>8. \A r \in Recipients : rcp'[r].status = "completed" => r \in Actionable
  BY <1>3, <1>4 DEF Inv, RoutingInv, OnlyActionable
<1>9. /\ outbox' \in [Rows -> outboxRow] /\ RowsOK'
      /\ RoutingInv' /\ Unfinished' /\ TerminalQuiet'
  BY <1>1, <1>4, <1>5, <1>8, EndedRows DEF Inv
<1>10. Tables'
  BY <1>4, <1>5, <1>7, <1>9 DEF Inv, Tables
<1>11. RevocationEvidenceTrue'
  BY <1>5 DEF RevocationEvidenceTrue
<1>12. rest = {}
  BY <1>1, Outstanding DEF Inv
<1>13. Decided(q.r)
  <2>1. \A r \in Actionable :
          rcp'[r].status = "completed" <=> rcp[r].status = "completed" \/ r = q.r
    BY <1>4, Orders
  <2>2. \A r \in Actionable : rcp'[r].status = "completed"
    BY <1>12, <2>1
  <2> QED
    BY <1>1, <1>4, <2>1, <2>2 DEF Decided, Decides
<1> QED
  BY <1>7, <1>9, <1>10, <1>11, <1>13 DEF Inv

LEMMA InvDecided ==
  ASSUME D1Constants, Inv, NEW s \in Sessions, publishApproved(s) \/ publishSign(s)
  PROVE  /\ Inv'
         /\ UNCHANGED tables \/ \E actor \in Actionable : Decided(actor)
PROOF
<1> DEFINE q == req[s]
<1>1. ASSUME NEW kind, publishing(s, kind), abort(s) PROVE Inv' /\ UNCHANGED tables
  BY <1>1, InvAborted
<1>2. ASSUME NEW kind \in {"approve", "sign"}, NEW role \in {"approver", "signer"},
             publishDecision(s, kind, role), ~(publishing(s, kind) /\ abort(s))
      PROVE  Decision(s, kind) /\ kind \in Command
  <2>1. /\ publishing(s, kind) /\ liveEligible(q, {role}, {"viewed"}) /\ q.head = head
        /\ routingHolds(q) /\ completionSafe(q)
    BY <1>2 DEF publishDecision, headMatches
  <2>2. q \in commandRequest /\ q.r \in Recipients
    BY <2>1, Addressed DEF Inv, Requests, publishing, RecipientCommand
  <2>3. Decides(q)
    <3>1. /\ rcp[q.r].status = "viewed" /\ rcp[q.r].exp # 0 /\ env \in Active
          /\ Role[q.r] \in {"signer", "approver"}
      BY <2>1 DEF liveEligible, live
    <3>2. q.r \in Actionable
      BY <2>2, <3>1 DEF Actionable, isActionableRecipientRole
    <3>3. q.plan \in Plans
      BY <2>2 DEF commandRequest
    <3> QED
      BY <2>1, <3>1, <3>2, <3>3 DEF Decides
  <2> HIDE DEF q
  <2>4. Decision(s, kind)
    BY <1>2, <2>1, <2>3 DEF publishDecision, Decision, completedActor, q
  <2> QED
    BY <2>4 DEF Command
<1>3. ASSUME NEW kind \in Command, Decision(s, kind)
      PROVE  Inv' /\ \E actor \in Actionable : Decided(actor)
  <2>1. q.r \in Actionable
    BY <1>3 DEF Decision, Decides
  <2> QED
    BY <1>3, <2>1, InvContinued, InvCompleted
<1> QED
  BY <1>1, <1>2, <1>3 DEF publishApproved, publishSign

-----------------------------------------------------------------------------
(***************************************************************************)
(* Delivery.  It writes the outbox only.                                   *)
(***************************************************************************)
\* A row as delivery may rewrite it.
Rewritten(old, row) ==
  \/ row = old
  \/ /\ row.status \in {"delivered", "failed"} /\ ~row.sealed /\ ~row.retryable
     /\ old.status # "none"
  \/ /\ env \in Active /\ old.sealed
     /\ row.status = "processing" /\ row.sealed /\ row.retryable /\ row.attempts > 0
  \/ /\ old.status = "processing"
     /\ row.status = "failed" /\ row.sealed /\ row.retryable /\ row.attempts = old.attempts

LEMMA OutboxStep ==
  ASSUME Inv, UNCHANGED <<env, audit, rcp, lapsed, req>>, tasks' \subseteq Rows \X Nat,
         outbox' \in [Rows -> outboxRow],
         \A i \in Rows : Rewritten(outbox[i], outbox'[i])
  PROVE  Inv'
PROOF
<1>1. ASSUME NEW i \in Rows
      PROVE  /\ RowOK(outbox'[i], i[2], rcp[i[1]].cap)
             /\ env \in Terminal /\ (undelivered(outbox'[i]) \/ outbox'[i].sealed) =>
                  /\ env = "expired" /\ outbox'[i].attempts > 0
                  /\ outbox'[i].status \in {"processing", "failed"}
  <2>1. RowOK(outbox[i], i[2], rcp[i[1]].cap) /\ outbox[i] \in outboxRow /\ outbox'[i] \in outboxRow
    BY DEF Inv, Tables, RowsOK
  <2>2. env \in Terminal /\ (undelivered(outbox[i]) \/ outbox[i].sealed) =>
          /\ env = "expired" /\ outbox[i].attempts > 0
          /\ outbox[i].status \in {"processing", "failed"}
    BY DEF Inv, TerminalQuiet
  <2>3. CASE outbox'[i] = outbox[i]
    BY <2>1, <2>2, <2>3
  <2>4. CASE /\ outbox'[i].status \in {"delivered", "failed"} /\ ~outbox'[i].sealed
             /\ ~outbox'[i].retryable /\ outbox[i].status # "none"
    BY <2>1, <2>4 DEF RowOK, Settled, undelivered, outboxRow
  <2>5. CASE /\ env \in Active /\ outbox[i].sealed
             /\ outbox'[i].status = "processing" /\ outbox'[i].sealed /\ outbox'[i].retryable
             /\ outbox'[i].attempts > 0
    <3>1. env \notin Terminal
      BY <2>5 DEF Active, Terminal
    <3>2. outbox[i].status # "none" /\ ~(i[2] < rcp[i[1]].cap)
      BY <2>1, <2>5 DEF RowOK, Settled
    <3> QED
      BY <2>1, <2>5, <3>1, <3>2 DEF RowOK, outboxRow
  <2>6. CASE /\ outbox[i].status = "processing"
             /\ outbox'[i].status = "failed" /\ outbox'[i].sealed /\ outbox'[i].retryable
             /\ outbox'[i].attempts = outbox[i].attempts
    <3>1. outbox[i].sealed /\ outbox[i].attempts > 0 /\ ~(i[2] < rcp[i[1]].cap)
      BY <2>1, <2>6 DEF RowOK, Settled
    <3> QED
      BY <2>1, <2>2, <2>6, <3>1 DEF RowOK, outboxRow
  <2> QED
    BY <2>3, <2>4, <2>5, <2>6 DEF Rewritten
<1>2. RowsOK' /\ TerminalQuiet'
  BY <1>1 DEF RowsOK, TerminalQuiet, undelivered
<1>3. Tables' /\ Requests' /\ ChainLinear' /\ Unfinished'
  BY DEF Inv, Tables, Requests, Knows, ChainLinear, Unfinished
<1>4. RoutingInv'
  BY DEF Inv, RoutingInv, Unsent, Untouched, OnlyInvited, OnlyActionable, ReleasedExactly
<1>5. RevocationEvidenceTrue'
  BY DEF Inv, RevocationEvidenceTrue, head
<1> QED
  BY <1>2, <1>3, <1>4, <1>5 DEF Inv

\* What scrubbing a row that was issued makes of it.
LEMMA Scrubbed ==
  ASSUME NEW row \in outboxRow, row.status # "none"
  PROVE  /\ scrubbed(row) \in outboxRow /\ Rewritten(row, scrubbed(row))
         /\ [scrubbed(row) EXCEPT !.status = "delivered"] \in outboxRow
         /\ Rewritten(row, [scrubbed(row) EXCEPT !.status = "delivered"])
PROOF
<1>1. /\ scrubbed(row) \in outboxRow /\ scrubbed(row).status = "failed"
      /\ ~scrubbed(row).sealed /\ ~scrubbed(row).retryable
  BY DEF scrubbed, outboxRow
<1> DEFINE settled == [scrubbed(row) EXCEPT !.status = "delivered"]
<1>2. /\ settled \in outboxRow /\ settled.status = "delivered"
      /\ ~settled.sealed /\ ~settled.retryable
  BY <1>1 DEF outboxRow
<1> HIDE DEF settled
<1>3. Rewritten(row, settled)
  BY <1>2 DEF Rewritten
<1> QED
  BY <1>1, <1>2, <1>3 DEF Rewritten, settled

LEMMA InvClaimed ==
  ASSUME Inv, claimPendingInvitations
  PROVE  Inv' /\ UNCHANGED <<env, rcp>>
PROOF
<1>1. PICK dead \in SUBSET terminalCandidates, claimed \in SUBSET claimCandidates :
        /\ outbox' = [i \in Rows |->
                        IF i \in dead THEN scrubbed(outbox[i])
                        ELSE IF i \in claimed
                        THEN [outbox[i] EXCEPT !.status = "processing", !.attempts = outbox[i].attempts + 1]
                        ELSE outbox[i]]
        /\ tasks' = tasks \cup {<<i, outbox[i].attempts + 1>> : i \in claimed}
        /\ UNCHANGED <<env, audit, rcp, lapsed, req>>
  BY DEF claimPendingInvitations
<1>2. \A i \in Rows : outbox[i] \in outboxRow /\ RowOK(outbox[i], i[2], rcp[i[1]].cap)
  BY DEF Inv, Tables, RowsOK
<1>3. claimed \subseteq Rows /\ dead \subseteq Rows
  BY DEF claimCandidates, terminalCandidates
<1>4. \A i \in Rows : outbox[i].attempts \in Nat /\ outbox[i].attempts + 1 \in Nat
  BY <1>2 DEF outboxRow
<1>5. tasks' \subseteq Rows \X Nat
  <2>1. tasks \subseteq Rows \X Nat
    BY DEF Inv, Tables
  <2>2. tasks' = tasks \cup {<<i, outbox[i].attempts + 1>> : i \in claimed}
    BY <1>1
  <2>3. \A i \in claimed : <<i, outbox[i].attempts + 1>> \in Rows \X Nat
    BY <1>3, <1>4
  <2> HIDE DEF Rows
  <2> QED
    BY <2>1, <2>2, <2>3, Zenon
<1>6. ASSUME NEW i \in Rows
      PROVE  outbox'[i] \in outboxRow /\ Rewritten(outbox[i], outbox'[i])
  <2>1. CASE i \in dead
    <3>1. outbox'[i] = scrubbed(outbox[i])
      BY <1>1, <2>1
    <3>2. outbox[i].status # "none"
      BY <1>2, <2>1 DEF terminalCandidates, RowOK
    <3> QED
      BY <1>2, <3>1, <3>2, Scrubbed
  <2>2. CASE i \notin dead /\ i \in claimed
    <3>1. PICK n \in Nat \ {0} : n = outbox[i].attempts + 1
      BY <1>4
    <3> DEFINE row0 == [outbox[i] EXCEPT !.status = "processing"]
               row == [row0 EXCEPT !.attempts = n]
    <3>2. outbox'[i] = row
      BY <1>1, <2>2, <3>1
    <3>3. env \in Active /\ outbox[i].retryable /\ outbox[i].sealed
      BY <1>2, <2>2 DEF claimCandidates, deliverable, RowOK, outboxRow
    <3>4. row0 \in outboxRow /\ row0.status = "processing" /\ row0.sealed /\ row0.retryable
      BY <1>2, <3>3 DEF outboxRow
    <3> HIDE DEF row0
    <3>5. row \in outboxRow /\ row.status = "processing" /\ row.sealed /\ row.retryable
          /\ row.attempts > 0
      BY <3>1, <3>4 DEF outboxRow
    <3> HIDE DEF row
    <3> QED
      BY <3>2, <3>3, <3>5 DEF Rewritten
  <2>3. CASE i \notin dead /\ i \notin claimed
    BY <1>1, <1>2, <2>3 DEF Rewritten
  <2> QED
    BY <2>1, <2>2, <2>3
<1>7. outbox' \in [Rows -> outboxRow]
  <2>1. outbox' = [i \in Rows |-> outbox'[i]]
    BY <1>1
  <2> QED
    BY <1>6, <2>1
<1> QED
  BY <1>1, <1>5, <1>6, <1>7, OutboxStep

LEMMA InvDelivered ==
  ASSUME Inv, NEW t \in tasks, finishDelivery(t)
  PROVE  Inv' /\ UNCHANGED <<env, rcp>>
PROOF
<1>1. UNCHANGED <<env, audit, rcp, lapsed, req>> /\ tasks' \subseteq Rows \X Nat
  BY DEF finishDelivery, Inv, Tables
<1>2. outbox \in [Rows -> outboxRow] /\ t[1] \in Rows /\ outbox[t[1]] \in outboxRow
  BY DEF Inv, Tables
<1>3. ASSUME NEW row \in outboxRow, Rewritten(outbox[t[1]], row), outbox' = [outbox EXCEPT ![t[1]] = row]
      PROVE  Inv'
  <2>1. outbox' \in [Rows -> outboxRow]
    BY <1>2, <1>3
  <2>2. \A i \in Rows : outbox'[i] = IF i = t[1] THEN row ELSE outbox[i]
    BY <1>2, <1>3
  <2>3. \A i \in Rows : Rewritten(outbox[i], outbox'[i])
    BY <1>3, <2>2 DEF Rewritten
  <2> QED
    BY <1>1, <2>1, <2>3, OutboxStep
<1>4. CASE UNCHANGED outbox
  BY <1>1, <1>2, <1>4, OutboxStep DEF Rewritten
<1>5. CASE holdsLease(t)
  <2>1. outbox[t[1]].status = "processing" /\ outbox[t[1]].status # "none"
    BY <1>5 DEF holdsLease
  <2>2. outbox[t[1]].sealed /\ outbox[t[1]].retryable
    BY <1>2, <2>1 DEF Inv, RowsOK, RowOK, outboxRow
  <2>3. CASE outbox' = [outbox EXCEPT ![t[1]] = [scrubbed(outbox[t[1]]) EXCEPT !.status = "delivered"]]
    BY <1>1, <1>2, <1>3, <2>1, <2>3, Scrubbed
  <2>4. CASE outbox' = [outbox EXCEPT ![t[1]].status = "failed"]
    <3> DEFINE row == [outbox[t[1]] EXCEPT !.status = "failed"]
    <3>1. outbox' = [outbox EXCEPT ![t[1]] = row]
      BY <1>2, <2>4
    <3>2. row \in outboxRow /\ row.status = "failed" /\ row.sealed /\ row.retryable
          /\ row.attempts = outbox[t[1]].attempts
      BY <1>2, <2>2 DEF outboxRow
    <3> HIDE DEF row
    <3>3. Rewritten(outbox[t[1]], row)
      BY <2>1, <3>2 DEF Rewritten
    <3> QED
      BY <1>1, <1>3, <3>1, <3>2, <3>3
  <2>5. CASE outbox' = [outbox EXCEPT ![t[1]] = scrubbed(outbox[t[1]])]
    BY <1>1, <1>2, <1>3, <2>1, <2>5, Scrubbed
  <2> QED
    BY <1>4, <2>3, <2>4, <2>5 DEF finishDelivery
<1> QED
  BY <1>1, <1>4, <1>5 DEF finishDelivery

-----------------------------------------------------------------------------
LEMMA InvInit ==
  ASSUME D1Constants, Init
  PROVE  Inv
PROOF
<1> DEFINE event == [kind |-> "ready", r |-> Nobody, previous |-> 0, revoked |-> {}]
<1>1. audit = <<event>> /\ event \in auditEvent
  BY DEF Init, auditEvent
<1>2. event.previous = 0
  OBVIOUS
<1> HIDE DEF event
<1>3. audit \in Seq(auditEvent) /\ audit # <<>> /\ ChainLinear
  BY <1>1, <1>2 DEF ChainLinear
<1>4. /\ env = "ready" /\ lapsed = 0 /\ tasks = {} /\ outbox = [i \in Rows |-> NoRow]
      /\ rcp = [r \in Recipients |-> [status |-> "pending", cap |-> 0, exp |-> 0, revoked |-> FALSE]]
      /\ req = [s \in Sessions |-> Idle]
  BY DEF Init
<1>5. rcp \in [Recipients -> recipientRow]
  BY <1>4 DEF recipientRow, RecipientStatus, D1Constants
<1>6. NoRow \in outboxRow /\ \A k \in 1..MaxIssues : RowOK(NoRow, k, 0)
  BY DEF NoRow, outboxRow, RowOK, D1Constants
<1>7. outbox \in [Rows -> outboxRow] /\ RowsOK
  BY <1>4, <1>6 DEF RowsOK, Rows
<1>8. Tables
  BY <1>3, <1>4, <1>5, <1>7 DEF Tables, Unended
<1>9. Requests
  BY <1>4, IdleKnown DEF Requests
<1>10. RoutingInv /\ Unfinished
  BY <1>4 DEF RoutingInv, Unsent, Untouched, OnlyInvited, OnlyActionable, ReleasedExactly,
              Unfinished, Active
<1>11. TerminalQuiet /\ RevocationEvidenceTrue
  BY <1>4 DEF TerminalQuiet, RevocationEvidenceTrue, Terminal
<1> QED
  BY <1>3, <1>7, <1>8, <1>9, <1>10, <1>11 DEF Inv

LEMMA InvStep ==
  ASSUME D1Constants, Inv, [Next]_vars
  PROVE  Inv'
PROOF
<1>1. CASE UNCHANGED vars
  <2>1. Requests' /\ UNCHANGED tables /\ lapsed' \in Nat /\ tasks' \subseteq Rows \X Nat
    BY <1>1 DEF vars, tables, Inv, Requests, Knows, Tables
  <2> QED
    BY <2>1, TablesKept
<1>2. ASSUME NEW s \in Sessions, request(s) \/ prepare(s) \/ publish(s) PROVE Inv'
  BY <1>2, InvPrepared, InvSent, InvViewed, InvDecided, InvTerminated, InvReissued DEF publish
<1> QED
  BY <1>1, <1>2, InvClaimed, InvDelivered, InvLapse DEF Next

LEMMA Invariant == ASSUME D1Constants PROVE Spec => []Inv
PROOF
<1>1. Init => Inv
  BY InvInit
<1>2. Inv /\ [Next]_vars => Inv'
  BY InvStep
<1> QED
  BY <1>1, <1>2, PTL DEF Spec

-----------------------------------------------------------------------------
\* However the separate reads of concurrent commands are torn, every event of
\* an envelope names the event before it: on D1 too its hash chain neither
\* forks nor skips.
THEOREM ChainNeverForks == ASSUME D1Constants PROVE Spec => []ChainLinear
PROOF
<1>1. Inv => ChainLinear
  BY DEF Inv
<1> QED
  BY <1>1, Invariant, PTL

\* The payload of a terminal event is true when the batch has run, although
\* the recipients it names were read before it: they are exactly the invited
\* recipients who had not finished, and every one of them is revoked.
THEOREM EvidenceIsTrue == ASSUME D1Constants PROVE Spec => []RevocationEvidenceTrue
PROOF
<1>1. Inv => RevocationEvidenceTrue
  BY DEF Inv
<1> QED
  BY <1>1, Invariant, PTL

\* Once an envelope has ended no invitation of it will be sent and no sealed
\* capability is left, but for the row whose worker an expiry did not wait for.
THEOREM EndedIsQuiet == ASSUME D1Constants PROVE Spec => []TerminalQuiet
PROOF
<1>1. Inv => TerminalQuiet
  BY DEF Inv
<1> QED
  BY <1>1, Invariant, PTL

\* A capability that was replaced is never sealed in the outbox again and its
\* row is settled, whatever a worker that claimed the row before does after.
THEOREM ReplacedIsDestroyed == ASSUME D1Constants PROVE Spec => []ReplacedLinkDestroyed
PROOF
<1>1. Inv => ReplacedLinkDestroyed
  BY DEF Inv, RowsOK, RowOK, Settled, ReplacedLinkDestroyed
<1> QED
  BY <1>1, Invariant, PTL

\* While an envelope is active, an invited recipient's link is open exactly
\* when no outstanding signer or approver precedes them in the routing order,
\* although the trigger checks the routing against rows the command read
\* earlier.
THEOREM RoutingExact == ASSUME D1Constants PROVE Spec => []ReleasedExactly
PROOF
<1>1. Inv => ReleasedExactly
  BY DEF Inv, RoutingInv
<1> QED
  BY <1>1, Invariant, PTL

-----------------------------------------------------------------------------
(***************************************************************************)
(* D1Signing implements EnvelopeLifecycle.                                 *)
(***************************************************************************)
Acted == {r \in Actionable : rcp[r].status = "completed"}
Opened == {r \in Recipients : rcp[r].exp # 0}

Frontier(done) ==
  {r \in Invited : \A q \in Actionable \ done : RoutingOrder[r] <= RoutingOrder[q]}

\* The lifecycle's vocabulary is the one of the envelope.
LEMMA SameDomain ==
  /\ Lifecycle!Actionable = Actionable
  /\ Lifecycle!Active = Active
  /\ \A done : Lifecycle!Frontier(done) = Frontier(done)
PROOF
<1>1. Lifecycle!Actionable = Actionable
  BY DEF Lifecycle!Actionable, Actionable, Lifecycle!isActionableRecipientRole,
         isActionableRecipientRole
<1>2. Lifecycle!Invited = Invited
  BY DEF Lifecycle!Invited, Invited, Lifecycle!isPostSendInvitationRecipientRole,
         isPostSendInvitationRecipientRole, Lifecycle!isActionableRecipientRole,
         isActionableRecipientRole
<1>3. Lifecycle!Active = Active
  BY DEF Lifecycle!Active, Active
<1> QED
  BY <1>1, <1>2, <1>3 DEF Lifecycle!Frontier, Frontier

\* The routing invariant, in the lifecycle's terms.
LEMMA OpenedIsFrontier ==
  /\ RoutingInv /\ env \in Active => Opened = Frontier(Acted)
  /\ RoutingInv' /\ env' \in Active => Opened' = Frontier(Acted')
PROOF
  BY Orders DEF RoutingInv, OnlyInvited, ReleasedExactly, Opened, Frontier, Acted

\* A step that changes none of the three is a stutter.
LEMMA LifecycleStutter ==
  ASSUME env' = env, Acted' = Acted, Opened' = Opened
  PROVE  UNCHANGED Lifecycle!lifecycle
PROOF
  BY DEF Lifecycle!lifecycle, Acted, Opened

\* What may happen in the lifecycle, in the envelope's terms.
Unmoved == env' = env /\ Acted' = Acted /\ Opened' = Opened

Ends(status) == env' = status /\ Acted' = Acted /\ Opened' = Opened

Turn(r) ==
  /\ env \in Active
  /\ r \in Actionable \ Acted
  /\ \A q \in Actionable \ Acted : RoutingOrder[r] <= RoutingOrder[q]

LifecycleStep ==
  \/ Unmoved
  \/ env = "ready" /\ env' = "sent" /\ Opened' = Frontier({}) /\ Acted' = Acted
  \/ env = "sent" /\ Ends("in_progress")
  \/ env \in Active /\ Ends("expired")
  \/ env \in Active \cup {"ready"} /\ Ends("voided")
  \/ \E r \in Actionable : Turn(r) /\ Ends("declined")
  \/ \E r \in Actionable :
       /\ Turn(r)
       /\ Acted' = Acted \cup {r}
       /\ IF Acted' = Actionable
          THEN env' = "completed" /\ Opened' = Opened
          ELSE env' = "in_progress" /\ Opened' = Frontier(Acted')

LEMMA LifecycleStepIsStep ==
  ASSUME LifecycleStep
  PROVE  [Lifecycle!LNext]_(Lifecycle!lifecycle)
PROOF
<1>1. CASE Unmoved
  BY <1>1, LifecycleStutter DEF Unmoved
<1>2. CASE env = "ready" /\ env' = "sent" /\ Opened' = Frontier({}) /\ Acted' = Acted
  BY <1>2, SameDomain DEF Lifecycle!LNext, Lifecycle!Send, Acted, Opened
<1>3. CASE env = "sent" /\ Ends("in_progress")
  BY <1>3 DEF Lifecycle!LNext, Lifecycle!View, Ends, Acted, Opened
<1>4. CASE env \in Active /\ Ends("expired")
  BY <1>4, SameDomain DEF Lifecycle!LNext, Lifecycle!Expire, Ends, Acted, Opened
<1>5. CASE env \in Active \cup {"ready"} /\ Ends("voided")
  BY <1>5, SameDomain DEF Lifecycle!LNext, Lifecycle!Void, Ends, Acted, Opened
<1>6. ASSUME NEW r \in Actionable, Turn(r) PROVE Lifecycle!MyTurn(r)
  BY <1>6, SameDomain DEF Lifecycle!MyTurn, Turn, Acted
<1>7. ASSUME NEW r \in Actionable, Turn(r), Ends("declined")
      PROVE  Lifecycle!LNext
  BY <1>6, <1>7, SameDomain DEF Lifecycle!LNext, Lifecycle!Decline, Ends, Acted, Opened
<1>8. ASSUME NEW r \in Actionable, Turn(r), Acted' = Acted \cup {r},
             IF Acted' = Actionable
             THEN env' = "completed" /\ Opened' = Opened
             ELSE env' = "in_progress" /\ Opened' = Frontier(Acted')
      PROVE  Lifecycle!LNext
  <2>1. Lifecycle!Act(r)
    BY <1>6, <1>8, SameDomain DEF Lifecycle!Act, Acted, Opened
  <2> QED
    BY <2>1, SameDomain DEF Lifecycle!LNext
<1> QED
  BY <1>1, <1>2, <1>3, <1>4, <1>5, <1>7, <1>8 DEF LifecycleStep

\* Rows that keep their completion and their links.
LEMMA SameSets ==
  ASSUME SameLinks
  PROVE  Acted' = Acted /\ Opened' = Opened
PROOF
  BY Orders DEF SameLinks, Acted, Opened

LEMMA UnchangedSets ==
  ASSUME UNCHANGED <<env, rcp>>
  PROVE  LifecycleStep
PROOF
  BY DEF LifecycleStep, Unmoved, Acted, Opened

\* A recipient with an open link that has not completed is next in turn.
LEMMA LiveTurn ==
  ASSUME RoutingInv, env \in Active, NEW r \in Actionable,
         rcp[r].exp # 0, rcp[r].status # "completed"
  PROVE  Turn(r)
PROOF
<1>1. r \in Invited
  BY Orders
<1> QED
  BY <1>1, LiveActor DEF Turn, Acted

LEMMA SendLifecycle ==
  ASSUME Inv, Inv', env = "ready", env' = "sent", SentRows
  PROVE  LifecycleStep
PROOF
<1>1. \A r \in Recipients : rcp[r].status = "pending" /\ rcp'[r].status = "pending"
  BY DEF Inv, RoutingInv, Unsent, SentRows
<1>2. Acted = {} /\ Acted' = {}
  BY <1>1, Orders DEF Acted
<1>3. env' \in Active
  BY DEF Active
<1> QED
  BY <1>2, <1>3, OpenedIsFrontier DEF LifecycleStep, Inv

LEMMA DecisionLifecycle ==
  ASSUME Inv, Inv', NEW r \in Actionable, Decided(r)
  PROVE  LifecycleStep
PROOF
<1>1. Turn(r)
  BY LiveTurn DEF Decided, Inv
<1>2. Acted' = Acted \cup {r}
  BY DEF Decided, Acted
<1>3. Acted' = Actionable <=> \A p \in Actionable : rcp'[p].status = "completed"
  BY DEF Acted
<1>4. CASE Acted' = Actionable
  <2>1. env' = "completed" /\ Opened' = Opened
    BY <1>3, <1>4 DEF Decided, Opened
  <2> QED
    BY <1>1, <1>2, <1>4, <2>1 DEF LifecycleStep
<1>5. CASE Acted' # Actionable
  <2>1. env' = "in_progress" /\ env' \in Active
    BY <1>3, <1>5 DEF Decided, Active
  <2>2. Opened' = Frontier(Acted')
    BY <2>1, OpenedIsFrontier DEF Inv
  <2> QED
    BY <1>1, <1>2, <1>5, <2>1, <2>2 DEF LifecycleStep
<1> QED
  BY <1>4, <1>5

LEMMA CommandLifecycle ==
  ASSUME D1Constants, Inv, Inv', NEW s \in Sessions, publish(s)
  PROVE  LifecycleStep
PROOF
<1>1. CASE UNCHANGED tables
  BY <1>1, UnchangedSets DEF tables
<1>2. CASE publishSend(s)
  BY <1>1, <1>2, InvSent, SendLifecycle
<1>3. CASE publishViewed(s) \/ publishReissue(s)
  <2>1. env \in Active => env = "sent" \/ env = "in_progress"
    BY DEF Active
  <2> QED
    BY <1>1, <1>3, <2>1, InvViewed, InvReissued, SameSets DEF LifecycleStep, Unmoved, Ends
<1>4. CASE publishApproved(s) \/ publishSign(s)
  BY <1>1, <1>4, InvDecided, DecisionLifecycle
<1>5. CASE publishDeclined(s) \/ publishVoid(s) \/ publishEnvelopeExpiry(s)
  <2>1. CASE SameLinks /\ env \in Active /\ env' = "expired"
    BY <2>1, SameSets DEF LifecycleStep, Ends
  <2>2. CASE SameLinks /\ env \in Active \cup {"ready"} /\ env' = "voided"
    BY <2>2, SameSets DEF LifecycleStep, Ends
  <2>3. CASE /\ SameLinks /\ env \in Active /\ env' = "declined"
             /\ \E r \in Actionable : rcp[r].exp # 0 /\ rcp[r].status # "completed"
    BY <2>3, SameSets, LiveTurn DEF LifecycleStep, Ends, Inv
  <2> QED
    BY <1>1, <1>5, <2>1, <2>2, <2>3, InvTerminated
<1> QED
  BY <1>2, <1>3, <1>4, <1>5 DEF publish

LEMMA NextLifecycle ==
  ASSUME D1Constants, Inv, Inv', [Next]_vars
  PROVE  [Lifecycle!LNext]_(Lifecycle!lifecycle)
PROOF
<1>1. CASE UNCHANGED vars
  BY <1>1, UnchangedSets, LifecycleStepIsStep DEF vars
<1>2. ASSUME NEW s \in Sessions, request(s) \/ prepare(s) PROVE LifecycleStep
  BY <1>2, InvPrepared, UnchangedSets DEF tables
<1>3. CASE lapse
  BY <1>3, InvLapse, UnchangedSets, LifecycleStepIsStep DEF tables
<1>4. CASE claimPendingInvitations \/ \E t \in tasks : finishDelivery(t)
  BY <1>4, InvClaimed, InvDelivered, UnchangedSets, LifecycleStepIsStep
<1> QED
  BY <1>1, <1>2, <1>3, <1>4, CommandLifecycle, LifecycleStepIsStep DEF Next

\* The D1 stores, with neither transactions nor locks, take only the steps
\* of EnvelopeLifecycle, the specification the PostgreSQL stores implement:
\* recipients act in their turn, exactly the groups whose turn has come are
\* open, the last action completes the envelope, and an ended one stays so.
THEOREM LifecycleImplemented == ASSUME D1Constants PROVE Spec => ImplementsLifecycle
PROOF
<1>1. Init => Lifecycle!LInit
  BY Orders DEF Init, Lifecycle!LInit
<1>2. Inv /\ Inv' /\ [Next]_vars => [Lifecycle!LNext]_(Lifecycle!lifecycle)
  BY NextLifecycle
<1> QED
  BY <1>1, <1>2, Invariant, PTL DEF Spec, ImplementsLifecycle, Lifecycle!LSpec
=============================================================================
