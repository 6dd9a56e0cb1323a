------------------------ MODULE D1InstanceMembership -------------------------
(***************************************************************************)
(* Members and invitations of an instance in the D1 store, which has no    *)
(* locks: a command reads a gate in one batch and writes in the next, and  *)
(* what changed in between is caught by the statements' predicates and by  *)
(* the triggers of the schema, which abort the whole batch.  When a batch  *)
(* does not apply, the gate is read once more for the answer.              *)
(***************************************************************************)
EXTENDS Naturals, Sequences, FiniteSets

CONSTANTS
  Users, Invitations,
  Requests,       \* the commands clients may send, each under its idempotency key
  Founders,       \* active owners at the start; none before the bootstrap
  MaxPending,     \* MAX_PENDING_INSTANCE_INVITATIONS
  MaxConcurrent,  \* bound: commands at the same time
  MaxCommands,    \* bound: commands
  MaxTime         \* bound: the clock

Roles == {"owner", "admin", "member"}
Kinds == {"bootstrap", "create", "accept", "revoke", "set_role", "set_status"}

\* What the service lets through to the store.
wellFormed(r) ==
  /\ r.kind \in Kinds /\ r.actor \in Users
  /\ r.kind \in {"create", "accept", "revoke"} => r.subject \in Invitations
  /\ r.kind = "create" => r.arg \in Roles /\ r.to \in Users
  /\ r.kind \in {"set_role", "set_status"} => r.subject \in Users
  /\ r.kind = "set_role" => r.arg \in Roles
  /\ r.kind = "set_status" => r.arg \in {"active", "suspended"}

D1InstanceConstants ==
  /\ Users \subseteq Nat \ {0} /\ Founders \subseteq Users
  /\ IsFiniteSet(Invitations)
  /\ \A r \in Requests : wellFormed(r)
  /\ {MaxPending, MaxConcurrent, MaxCommands, MaxTime} \subseteq Nat

VARIABLES
  members,      \* instance_member; role "none" where there is no row
  invitations,  \* instance_invitation
  revocations,  \* revoked_by_user_id and revoked_at of every invitation
  founder,      \* instance_bootstrap.owner_user_id, 0 before
  log,          \* receipts of the three command tables
  calls, now, begun

rows == <<members, invitations, revocations, founder, log>>
vars == <<rows, calls, now, begun>>

None == 0
NoMember == [role |-> "none", status |-> "none", updated |-> 0]
NoInvitation == [status |-> "absent", role |-> "none", by |-> None, to |-> None,
                 expires |-> 0, acceptedBy |-> None]

isMember(u) == members[u].role # "none"
owners == {u \in Users : members[u].role = "owner" /\ members[u].status = "active"}
live(i, time) == invitations[i].status = "pending" /\ invitations[i].expires > time
standing(m) == [role |-> m.role, status |-> m.status]

Init ==
  /\ members = [u \in Users |->
       IF u \in Founders THEN [role |-> "owner", status |-> "active", updated |-> 0]
       ELSE NoMember]
  /\ invitations = [i \in Invitations |-> NoInvitation]
  /\ revocations = [i \in Invitations |-> <<None, 0>>]
  /\ founder = IF Founders = {} THEN None ELSE CHOOSE u \in Founders : TRUE
  /\ log = <<>> /\ calls = {} /\ now = 0 /\ begun = 0

\* The service reads the clock and the store begins with its gate.
begin(r) ==
  /\ begun < MaxCommands /\ Cardinality(calls) < MaxConcurrent
  /\ begun' = begun + 1
  /\ calls' = calls \cup {[id |-> begun', req |-> r, at |-> now, pc |-> "gate", seen |-> NoMember]}
  /\ UNCHANGED <<rows, now>>

end(t) == calls' = calls \ {t} /\ UNCHANGED <<now, begun>>

-----------------------------------------------------------------------------
(***************************************************************************)
(* The gates.                                                              *)
(***************************************************************************)

table(kind) ==
  CASE kind = "bootstrap" -> "bootstrap"
    [] kind \in {"create", "accept", "revoke"} -> "invitation"
    [] OTHER -> "member"

\* The receipt's primary key is taken.
receipt(t) ==
  \E n \in DOMAIN log : /\ log[n].actor = t.req.actor /\ log[n].key = t.req.key
                        /\ table(log[n].kind) = table(t.req.kind)

\* An active owner, or an active admin where only a member is concerned.
entitled(m, role) ==
  m.status = "active" /\ (m.role = "owner" \/ (m.role = "admin" /\ role = "member"))

pendingCount(time) == Cardinality({i \in Invitations : live(i, time)})

bootstrapGate(t) == ~receipt(t) /\ founder = None /\ \A u \in Users : ~isMember(u)

createGate(t) ==
  /\ entitled(members[t.req.actor], t.req.arg) /\ ~receipt(t)
  /\ pendingCount(t.at) < MaxPending

acceptGate(t) ==
  /\ ~receipt(t) /\ ~isMember(t.req.actor)
  /\ live(t.req.subject, t.at) /\ invitations[t.req.subject].to = t.req.actor

revokeGate(t) ==
  /\ ~receipt(t) /\ entitled(members[t.req.actor], invitations[t.req.subject].role)
  /\ invitations[t.req.subject].status = "pending"

requested(t) == IF t.req.kind = "set_role" THEN t.req.arg ELSE "member"

\* What a change makes of the row the gate saw.
changed(t) ==
  IF t.req.kind = "set_role" THEN [t.seen EXCEPT !.role = t.req.arg, !.updated = t.at]
  ELSE [t.seen EXCEPT !.status = t.req.arg, !.updated = t.at]

unseats(t) == changed(t).role # "owner" \/ changed(t).status # "active"

memberGate(t) ==
  LET u == t.req.subject
      s == [t EXCEPT !.seen = members[u]]
  IN  /\ ~receipt(t) /\ isMember(u)
      /\ t.req.kind = "set_status" => u # t.req.actor
      /\ entitled(members[t.req.actor], members[u].role)
      /\ entitled(members[t.req.actor], requested(t))
      /\ ~(u \in owners /\ unseats(s) /\ owners \ {u} = {})
      /\ t.at >= members[u].updated

gate(t) ==
  LET passes == CASE t.req.kind = "bootstrap" -> bootstrapGate(t)
                  [] t.req.kind = "create" -> createGate(t)
                  [] t.req.kind = "accept" -> acceptGate(t)
                  [] t.req.kind = "revoke" -> revokeGate(t)
                  [] OTHER -> memberGate(t)
      seen == IF table(t.req.kind) = "member" THEN members[t.req.subject] ELSE NoMember
  IN  /\ t.pc = "gate" /\ UNCHANGED rows
      /\ IF passes
         THEN /\ calls' = (calls \ {t}) \cup {[t EXCEPT !.pc = "batch", !.seen = seen]}
              /\ UNCHANGED <<now, begun>>
         ELSE end(t)

-----------------------------------------------------------------------------
(***************************************************************************)
(* The batches.  One that is not admitted is rolled back as a whole.       *)
(***************************************************************************)

entry(t, user, before, after) ==
  [kind |-> t.req.kind, actor |-> t.req.actor, key |-> t.req.key, at |-> t.at,
   subject |-> t.req.subject, user |-> user, before |-> before, after |-> after]

record(t, user, before, after) == log' = Append(log, entry(t, user, before, after))

batchOf(t, kind) == t.pc = "batch" /\ t.req.kind = kind
reject(t, admitted) == ~admitted /\ UNCHANGED rows

\* The member is inserted only into an empty instance, the singleton row and
\* the receipt from what the statement before left.  A founder who has since
\* lost the owner's role gets a receipt of the earlier bootstrap.
bootstrapBatch(t) ==
  LET u == t.req.actor
      m == [role |-> "owner", status |-> "active", updated |-> t.at]
      empty == founder = None /\ \A v \in Users : ~isMember(v)
      receiptOnly == founder = u /\ members[u].role # "owner"
  IN  /\ batchOf(t, "bootstrap") /\ end(t)
      /\ \/ /\ ~receipt(t) /\ empty
            /\ members' = [members EXCEPT ![u] = m] /\ founder' = u
            /\ record(t, u, standing(members[u]), standing(m))
            /\ UNCHANGED <<invitations, revocations>>
         \/ /\ ~receipt(t) /\ receiptOnly
            /\ record(t, None, standing(NoMember), standing(NoMember))
            /\ UNCHANGED <<members, invitations, revocations, founder>>
         \/ reject(t, ~receipt(t) /\ (empty \/ receiptOnly))

\* Slip: the create evidence does not look at the actor again.
createEvidence_stale(t) == pendingCount(t.at) < MaxPending
\* Slip: the create evidence does not count.
createEvidence_uncounted(t) == entitled(members[t.req.actor], t.req.arg)

\* instance_invitation_command_evidence_guard for a create, after the insert.
createEvidence(t) ==
  entitled(members[t.req.actor], t.req.arg) /\ pendingCount(t.at) < MaxPending

createBatch(t) ==
  LET r == t.req
      admitted == ~receipt(t) /\ invitations[r.subject].status = "absent" /\ createEvidence(t)
  IN  /\ batchOf(t, "create") /\ end(t)
      /\ \/ /\ admitted
            /\ invitations' = [invitations EXCEPT ![r.subject] =
                 [status |-> "pending", role |-> r.arg, by |-> r.actor, to |-> r.to,
                  expires |-> t.at + 1, acceptedBy |-> None]]
            /\ record(t, None, standing(NoMember), standing(NoMember))
            /\ UNCHANGED <<members, revocations, founder>>
         \/ reject(t, admitted)

\* The predicates of the member's insert; without it the update finds no
\* change to build on and the accept evidence aborts.
enrols(t) ==
  /\ live(t.req.subject, t.at) /\ invitations[t.req.subject].to = t.req.actor
  /\ ~isMember(t.req.actor)
  /\ ~\E i \in Invitations : invitations[i].acceptedBy = t.req.actor

acceptBatch(t) ==
  LET u == t.req.actor
      i == t.req.subject
      m == [role |-> invitations[i].role, status |-> "active", updated |-> t.at]
      admitted == ~receipt(t) /\ enrols(t)
  IN  /\ batchOf(t, "accept") /\ end(t)
      /\ \/ /\ admitted
            /\ members' = [members EXCEPT ![u] = m]
            /\ invitations' = [invitations EXCEPT ![i].status = "accepted", ![i].acceptedBy = u]
            /\ record(t, u, standing(members[u]), standing(m))
            /\ UNCHANGED <<revocations, founder>>
         \/ reject(t, admitted)

\* UNIQUE (invitation_id, command_type).
revokeReceipted(i) == \E n \in DOMAIN log : log[n].kind = "revoke" /\ log[n].subject = i

\* Slip: the revoke evidence trusts the gate's reading of the actor.
revokeEvidence_trusting(t) == TRUE
\* The actor's side of the revoke evidence.
revokeEvidence(t) == entitled(members[t.req.actor], invitations[t.req.subject].role)

\* The evidence accepts an invitation this actor revoked at this instant, be
\* it by this batch or by a cascade.
revokeBatch(t) ==
  LET i == t.req.subject
      a == t.req.actor
      may == ~receipt(t) /\ revokeEvidence(t) /\ ~revokeReceipted(i)
      cascaded == invitations[i].status = "revoked" /\ revocations[i] = <<a, t.at>>
  IN  /\ batchOf(t, "revoke") /\ end(t)
      /\ \/ /\ may /\ invitations[i].status = "pending"
            /\ invitations' = [invitations EXCEPT ![i].status = "revoked"]
            /\ revocations' = [revocations EXCEPT ![i] = <<a, t.at>>]
            /\ record(t, None, standing(NoMember), standing(NoMember))
            /\ UNCHANGED <<members, founder>>
         \/ /\ may /\ cascaded
            /\ record(t, None, standing(NoMember), standing(NoMember))
            /\ UNCHANGED <<members, invitations, revocations, founder>>
         \/ reject(t, may /\ (invitations[i].status = "pending" \/ cascaded))

roleCascadeKind(previous, result) ==
  CASE result = "member" /\ previous # "member" -> "all"
    [] result = "admin" /\ previous = "owner" -> "non_member"
    [] OTHER -> "none"

\* The invitations a demotion or suspension takes back.
cascade(t) ==
  {i \in Invitations :
     /\ live(i, t.at) /\ invitations[i].by = t.req.subject
     /\ \/ t.req.kind = "set_status" /\ t.req.arg = "suspended"
        \/ /\ t.req.kind = "set_role"
           /\ LET kind == roleCascadeKind(t.seen.role, t.req.arg)
              IN  kind = "all" \/ (kind = "non_member" /\ invitations[i].role # "member")}

\* Slip: no owner floor guard.
floorKept_unguarded(t) == TRUE
\* instance_member_owner_floor_guard.
floorKept(t) ==
  LET u == t.req.subject IN u \in owners /\ unseats(t) => owners \ {u} # {}

\* Slip: the evidence trusts the gate's reading of the actor.
memberEvidence_trusting(t) == TRUE
\* instance_member_command_evidence_guard: the actor as the actor is now, or,
\* changing itself, as the receipt says it was.
memberEvidence(t) ==
  LET actor == IF t.req.actor = t.req.subject THEN t.seen ELSE members[t.req.actor]
  IN  entitled(actor, t.seen.role) /\ entitled(actor, requested(t))

\* Slip: the update does not compare what the gate saw.
matches_any(t) == TRUE
\* WHERE user_id = ? AND role = ? AND status = ?
matches(t) == standing(members[t.req.subject]) = standing(t.seen)

\* Of two commands for one result in one instant the second changes no row
\* and is still recorded: the evidence finds the row it claims.
memberBatch(t) ==
  LET u == t.req.subject
      may == ~receipt(t) /\ memberEvidence(t)
      applies == matches(t) /\ t.at >= members[u].updated /\ floorKept(t)
      same == ~matches(t) /\ members[u] = changed(t)
      gone == cascade(t)
  IN  /\ table(t.req.kind) = "member" /\ t.pc = "batch" /\ end(t)
      /\ \/ /\ may /\ (applies \/ same)
            /\ members' = [members EXCEPT ![u] = changed(t)]
            /\ invitations' = [i \in Invitations |->
                 IF i \in gone THEN [invitations[i] EXCEPT !.status = "revoked"]
                 ELSE invitations[i]]
            /\ revocations' = [i \in Invitations |->
                 IF i \in gone THEN <<t.req.actor, t.at>> ELSE revocations[i]]
            /\ record(t, u, standing(t.seen), standing(changed(t)))
            /\ UNCHANGED founder
         \/ reject(t, may /\ (applies \/ same))

-----------------------------------------------------------------------------
tick == now < MaxTime /\ now' = now + 1 /\ UNCHANGED <<rows, calls, begun>>

Next ==
  \/ \E r \in Requests : begin(r)
  \/ \E t \in calls : \/ gate(t)
                      \/ bootstrapBatch(t) \/ createBatch(t) \/ acceptBatch(t)
                      \/ revokeBatch(t) \/ memberBatch(t)
  \/ tick

Spec == Init /\ [][Next]_vars

-----------------------------------------------------------------------------
(***************************************************************************)
(* Properties.                                                             *)
(***************************************************************************)

\* A bootstrapped instance keeps an active owner, although the gate's count
\* of the other owners is old when the batch runs.  About
\* instance_member_owner_floor_guard.
OwnerKept == founder # None => owners # {}

\* Whoever may no longer invite has no invitation out, also when it was being
\* made while its maker was demoted.  About the create evidence and the
\* cascades.
InvitersEntitled ==
  \A i \in Invitations :
    live(i, now) => entitled(members[invitations[i].by], invitations[i].role)

\* Every member is there by exactly one way in, and every accepted invitation
\* enrolled the user it was bound to.  About the order and the predicates of
\* acceptInstanceInvitation's batch.
EnrolledOnce ==
  /\ \A u \in Users :
       LET accepted == {i \in Invitations : invitations[i].acceptedBy = u}
           founded == {n \in DOMAIN log : log[n].kind = "bootstrap" /\ log[n].user = u}
       IN  isMember(u) <=> u \in Founders \/ Cardinality(accepted) + Cardinality(founded) = 1
  /\ \A i \in Invitations :
       invitations[i].acceptedBy # None =>
         invitations[i].status = "accepted" /\ invitations[i].acceptedBy = invitations[i].to

\* There are never more invitations out than allowed, though creators count
\* in their gates.  About the count of the create evidence.
PendingCapped == pendingCount(now) <= MaxPending

\* The receipts of a member explain the row: each begins where the one before
\* ended, or repeats its result in the same instant, and the last one is the
\* row.  About the predicates of the member updates and their evidence.
ReceiptsExplain ==
  \A n \in DOMAIN log : log[n].user \in Users =>
    LET earlier == {m \in 1..(n - 1) : log[m].user = log[n].user}
        later == {k \in (n + 1)..Len(log) : log[k].user = log[n].user}
    IN  /\ \A m \in earlier :
             (\A k \in earlier : k <= m) =>
               \/ log[n].before = log[m].after
               \/ log[n].after = log[m].after /\ log[n].at = log[m].at
        /\ later = {} => log[n].after = standing(members[log[n].user])

Governance == INSTANCE InstanceGovernance
  WITH bootstrapped <- founder # None, Times <- 0..MaxTime,
       actors <- [n \in DOMAIN log |-> log[n].actor]

\* Every change is one that the members as they are at the moment of the
\* batch entitle: what a gate read earlier never decides.  About the
\* predicates and triggers of all five batches.
ImplementsGovernance == [][Governance!GovernanceNext]_(Governance!governed)
=============================================================================
