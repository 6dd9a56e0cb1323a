------------------------- MODULE InstanceMembership --------------------------
(***************************************************************************)
(* Members and invitations of an instance in the PostgreSQL store.  Every  *)
(* command is a READ COMMITTED transaction that takes its locks one after  *)
(* the other, decides on what it reads, and commits.  Its writes become    *)
(* visible at its commit; an inserted row is locked from the insert on.    *)
(*                                                                         *)
(* A user is its number: row locks are taken in the order of the numbers.  *)
(***************************************************************************)
EXTENDS Naturals, Sequences, FiniteSets

CONSTANTS
  Users, Invitations,
  Requests,       \* the commands clients may send, each under its idempotency key
  Founders,       \* active owners at the start; none before the bootstrap
  MaxPending,     \* MAX_PENDING_INSTANCE_INVITATIONS
  MaxConcurrent,  \* bound: transactions at the same time
  MaxCommands,    \* bound: transactions
  MaxAborts,      \* bound: transactions the database rolls back
  MaxTime         \* bound: the clock

Roles == {"owner", "admin", "member"}
Kinds == {"bootstrap", "create", "accept", "revoke", "set_role", "set_status"}

\* What the service lets through to the store.
wellFormed(r) ==
  /\ r.kind \in Kinds /\ r.actor \in Users
  /\ r.kind \in {"create", "accept", "revoke"} => r.subject \in Invitations
  /\ r.kind = "create" => r.arg \in Roles /\ r.to \in Users
  /\ r.kind \in {"set_role", "set_status"} => r.subject \in Users
  /\ r.kind = "set_role" => r.arg \in Roles
  /\ r.kind = "set_status" => r.arg \in {"active", "suspended"}

InstanceConstants ==
  /\ Users \subseteq Nat \ {0} /\ Founders \subseteq Users
  /\ IsFiniteSet(Users) /\ IsFiniteSet(Invitations)
  /\ \A r \in Requests : wellFormed(r)
  /\ {MaxPending, MaxConcurrent, MaxCommands, MaxAborts, MaxTime} \subseteq Nat

VARIABLES
  members,      \* instance_member; role "none" where there is no row
  invitations,  \* instance_invitation
  bootstrapped, \* instance_bootstrap
  log,          \* receipts of the three command tables, in commit order
  txs,          \* transactions under way
  locks,        \* what they hold
  now, begun, aborts

rows == <<members, invitations, bootstrapped, log>>
vars == <<rows, txs, locks, now, begun, aborts>>

None == 0
NoMember == [role |-> "none", status |-> "none", updated |-> 0]
NoInvitation == [status |-> "absent", role |-> "none", by |-> None, to |-> None,
                 expires |-> 0, acceptedBy |-> None]

isMember(u) == members[u].role # "none"
isActive(u) == members[u].status = "active"
owners == {u \in Users : members[u].role = "owner" /\ isActive(u)}

live(i, time) == invitations[i].status = "pending" /\ invitations[i].expires > time

-----------------------------------------------------------------------------
(***************************************************************************)
(* Locks.                                                                  *)
(***************************************************************************)

Member(u) == <<"member", u>>
Invitation(i) == <<"invitation", i>>
AdminLock == <<"advisory", 1>>
CreateLock == <<"advisory", 2>>
Singleton == <<"advisory", 3>>

lowest(t) == IF t.req.subject < t.req.actor THEN t.req.subject ELSE t.req.actor
highest(t) == IF t.req.subject < t.req.actor THEN t.req.actor ELSE t.req.subject

\* Only a row that exists is locked by reading it.
row(u, mode) == IF isMember(u) THEN {<<Member(u), mode>>} ELSE {}

\* Slip: a demotion leaves the administrators' lock alone.
adminLock_none == {}

adminLock == {<<AdminLock, "update">>}

\* Slip: the inviter's row is read without a lock.
actorRow_unlocked(u) == {}

actorRow(u) == row(u, "share")

\* Slip: invitations are counted without the lock.
createLock_none == {}

createLock == {<<CreateLock, "update">>}

roleCascadeKind(previous, result) ==
  CASE result = "member" /\ previous # "member" -> "all"
    [] result = "admin" /\ previous = "owner" -> "non_member"
    [] OTHER -> "none"

\* The invitations a demotion or suspension takes back.
cascade(t) ==
  {i \in Invitations :
     /\ live(i, t.at) /\ invitations[i].by = t.req.subject
     /\ \/ t.req.kind = "set_status" /\ t.req.arg = "suspended"
        \/ /\ t.req.kind = "set_role"
           /\ LET kind == roleCascadeKind(t.seen.role, t.req.arg)
              IN  kind = "all" \/ (kind = "non_member" /\ invitations[i].role # "member")}

\* The locks the next statement of a transaction needs.
wants(t) ==
  CASE t.pc = "admin" -> adminLock
    [] t.pc = "low" -> row(lowest(t), "update")
    [] t.pc = "high" -> row(highest(t), "update")
    [] t.pc = "actor" -> actorRow(t.req.actor)
    [] t.pc = "create" -> createLock
    [] t.pc \in {"self", "raced"} -> row(t.req.actor, "update")
    [] t.pc = "invitation" -> {<<Invitation(t.req.subject), "update">>}
    [] t.pc = "insert" -> {<<Member(t.req.actor), "update">>}
    [] t.pc = "singleton" -> {<<Singleton, "update">>}
    [] t.pc = "commit" -> {<<Invitation(i), "update">> : i \in cascade(t)}
    [] OTHER -> {}

conflicts(l, w) == l.res = w[1] /\ "update" \in {l.mode, w[2]}

blocks(u, t) == u # t /\ \E l \in locks, w \in wants(t) : l.tx = u.id /\ conflicts(l, w)

granted(t) == ~\E u \in txs : blocks(u, t)

-----------------------------------------------------------------------------
(***************************************************************************)
(* Transactions.                                                           *)
(***************************************************************************)

first(kind) ==
  CASE kind = "bootstrap" -> "precheck"
    [] kind \in {"create", "revoke"} -> "actor"
    [] kind = "accept" -> "self"
    [] OTHER -> "admin"

\* The service reads the clock; the command then waits for its connection.
begin(r) ==
  /\ begun < MaxCommands /\ Cardinality(txs) < MaxConcurrent
  /\ begun' = begun + 1
  /\ txs' = txs \cup {[id |-> begun', req |-> r, at |-> now, pc |-> first(r.kind),
                       seen |-> NoMember]}
  /\ UNCHANGED <<rows, locks, now, aborts>>

\* The statement is done, its locks are kept and the next one is at pc.
become(t, u) ==
  /\ granted(t)
  /\ txs' = (txs \ {t}) \cup {u}
  /\ locks' = locks \cup {[tx |-> t.id, res |-> w[1], mode |-> w[2]] : w \in wants(t)}
  /\ UNCHANGED <<rows, now, begun, aborts>>

goto(t, pc) == become(t, [t EXCEPT !.pc = pc])

\* COMMIT, or ROLLBACK when no row has been written.
end(t) ==
  /\ txs' = txs \ {t}
  /\ locks' = {l \in locks : l.tx # t.id}
  /\ UNCHANGED <<now, begun, aborts>>

rollback(t) == granted(t) /\ end(t) /\ UNCHANGED rows

table(kind) ==
  CASE kind = "bootstrap" -> "bootstrap"
    [] kind \in {"create", "accept", "revoke"} -> "invitation"
    [] OTHER -> "member"

\* Slip: receipts are not looked up.
receipt_ignored(t) == FALSE

\* A receipt of this actor and key in the command's table.
receipt(t) ==
  \E n \in DOMAIN log : /\ log[n].actor = t.req.actor /\ log[n].key = t.req.key
                        /\ table(log[n].kind) = table(t.req.kind)

\* What the receipt says of the member the command was about.
entry(t, user, before, after) ==
  [kind |-> t.req.kind, actor |-> t.req.actor, key |-> t.req.key, user |-> user,
   before |-> before, after |-> after]

standing(u) == [role |-> members[u].role, status |-> members[u].status]

-----------------------------------------------------------------------------
\* bootstrapInstance.
precheck(t) ==
  /\ t.pc = "precheck"
  /\ IF receipt(t) \/ bootstrapped \/ \E u \in Users : isMember(u)
     THEN rollback(t) ELSE goto(t, "insert")

\* Slip: the answer of the singleton's insert is not looked at.
singletonTaken_ignored == FALSE

singletonTaken == bootstrapped

\* The singleton row decides between two bootstraps of different users.
bootstrapCommit(t) ==
  /\ t.req.kind = "bootstrap" /\ t.pc = "singleton" /\ granted(t)
  /\ IF singletonTaken THEN UNCHANGED rows
     ELSE LET u == t.req.actor
              m == [role |-> "owner", status |-> "active", updated |-> t.at]
          IN  /\ members' = [members EXCEPT ![u] = m]
              /\ bootstrapped' = TRUE
              /\ log' = Append(log, entry(t, u, standing(u),
                                          [role |-> "owner", status |-> "active"]))
              /\ UNCHANGED invitations
  /\ end(t)

-----------------------------------------------------------------------------
\* createInstanceInvitation and revokeInstanceInvitation: who asks.
authorize(t) ==
  /\ t.pc = "actor"
  /\ LET a == t.req.actor
     IN  IF members[a].role \in {"none", "member"} \/ ~isActive(a) THEN rollback(t)
         ELSE IF t.req.kind = "create" THEN goto(t, "create")
         ELSE IF receipt(t) THEN rollback(t) ELSE goto(t, "invitation")

pendingCount(time) == Cardinality({i \in Invitations : live(i, time)})

\* Under the creators' lock: the receipt, the inviter's rank, the limit.
admitCreate(t) ==
  /\ t.pc = "create" /\ t.req.kind = "create"
  /\ IF \/ receipt(t)
        \/ members[t.req.actor].role = "admin" /\ t.req.arg # "member"
        \/ pendingCount(t.at) >= MaxPending
     THEN rollback(t) ELSE goto(t, "publish")

createCommit(t) ==
  LET r == t.req
  IN  /\ t.pc = "publish" /\ r.kind = "create"
      /\ IF invitations[r.subject].status # "absent" \/ receipt(t) THEN UNCHANGED rows
         ELSE /\ invitations' = [invitations EXCEPT ![r.subject] =
                   [status |-> "pending", role |-> r.arg, by |-> r.actor, to |-> r.to,
                    expires |-> t.at + 1, acceptedBy |-> None]]
              /\ log' = Append(log, entry(t, None, NoMember, NoMember))
              /\ UNCHANGED <<members, bootstrapped>>
      /\ end(t)

revokeCommit(t) ==
  LET i == t.req.subject
  IN  /\ t.pc = "invitation" /\ t.req.kind = "revoke" /\ granted(t)
      /\ IF \/ invitations[i].status # "pending" \/ receipt(t)
            \/ members[t.req.actor].role = "admin" /\ invitations[i].role # "member"
         THEN UNCHANGED rows
         ELSE /\ invitations' = [invitations EXCEPT ![i].status = "revoked"]
              /\ log' = Append(log, entry(t, None, NoMember, NoMember))
              /\ UNCHANGED <<members, bootstrapped>>
      /\ end(t)

-----------------------------------------------------------------------------
\* acceptInstanceInvitation: a member, or a repeated command, is answered
\* without touching the invitation.
acceptSelf(t) ==
  /\ t.pc = "self"
  /\ IF receipt(t) \/ isMember(t.req.actor) THEN rollback(t) ELSE goto(t, "invitation")

acceptable(t) ==
  LET inv == invitations[t.req.subject]
  IN  inv.status = "pending" /\ inv.to = t.req.actor /\ t.at < inv.expires

acceptInvitation(t) ==
  /\ t.pc = "invitation" /\ t.req.kind = "accept"
  /\ IF acceptable(t) THEN goto(t, "insert") ELSE rollback(t)

\* Slip: the insert's answer is not looked at.
wonEnrollment_assumed(t) == TRUE

wonEnrollment(t) == ~isMember(t.req.actor)

\* INSERT ... ON CONFLICT DO NOTHING waits for a concurrent insert of the row.
insertMember(t) ==
  /\ t.pc = "insert"
  /\ IF t.req.kind = "bootstrap"
     THEN IF isMember(t.req.actor) THEN rollback(t) ELSE goto(t, "singleton")
     ELSE goto(t, IF wonEnrollment(t) THEN "publish" ELSE "raced")

\* The winner's membership is read, locked, and answered.
raced(t) == t.pc = "raced" /\ rollback(t)

acceptCommit(t) ==
  LET u == t.req.actor
      inv == invitations[t.req.subject]
  IN  /\ t.pc = "publish" /\ t.req.kind = "accept"
      /\ IF receipt(t) THEN UNCHANGED rows
         ELSE /\ members' = [members EXCEPT ![u] =
                   [role |-> inv.role, status |-> "active", updated |-> t.at]]
              /\ invitations' = [invitations EXCEPT ![t.req.subject].status = "accepted",
                                                    ![t.req.subject].acceptedBy = u]
              /\ log' = Append(log, entry(t, u, standing(u),
                                          [role |-> inv.role, status |-> "active"]))
              /\ UNCHANGED bootstrapped
      /\ end(t)

-----------------------------------------------------------------------------
\* setInstanceMemberRole and setInstanceMemberStatus.  One statement locks both
\* rows, and finds those that are there when it starts.
lockMembers(t) ==
  \/ /\ t.pc = "admin"
     /\ IF isMember(t.req.actor) /\ isMember(t.req.subject) THEN goto(t, "low")
        ELSE rollback(t)
  \/ t.pc = "low" /\ goto(t, "high")
  \/ t.pc = "high" /\ goto(t, "decide")

\* Slip: a suspended administrator may still act.
permitted_suspended(t) ==
  LET a == members[t.req.actor]
      b == members[t.req.subject]
      role == t.req.kind = "set_role"
  IN  /\ a.role \in {"owner", "admin"}
      /\ ~role => t.req.subject # t.req.actor
      /\ a.role = "admin" => b.role = "member" /\ (role => t.req.arg = "member")

permitted(t) ==
  LET a == members[t.req.actor]
      b == members[t.req.subject]
      role == t.req.kind = "set_role"
  IN  /\ a.role \in {"owner", "admin"} /\ a.status = "active"
      /\ ~role => t.req.subject # t.req.actor
      /\ a.role = "admin" => b.role = "member" /\ (role => t.req.arg = "member")

countOtherActiveOwners(u) == Cardinality(owners \ {u})

\* The change would take an active owner away.
unseats(t) ==
  /\ t.req.subject \in owners
  /\ IF t.req.kind = "set_role" THEN t.req.arg # "owner" ELSE t.req.arg = "suspended"

decide(t) ==
  /\ t.pc = "decide"
  /\ IF \/ receipt(t) \/ ~permitted(t)
        \/ unseats(t) /\ countOtherActiveOwners(t.req.subject) = 0
        \/ t.at < members[t.req.subject].updated
     THEN rollback(t)
     ELSE become(t, [t EXCEPT !.pc = "commit", !.seen = members[t.req.subject]])

changed(t) ==
  IF t.req.kind = "set_role" THEN [t.seen EXCEPT !.role = t.req.arg, !.updated = t.at]
  ELSE [t.seen EXCEPT !.status = t.req.arg, !.updated = t.at]

\* The row, the invitations its new standing does not cover, the receipt.
memberCommit(t) ==
  LET u == t.req.subject
  IN  /\ t.pc = "commit" /\ granted(t)
      /\ IF standing(u) # [role |-> t.seen.role, status |-> t.seen.status] THEN UNCHANGED rows
         ELSE /\ members' = [members EXCEPT ![u] = changed(t)]
              /\ invitations' = [i \in Invitations |->
                   IF i \in cascade(t) THEN [invitations[i] EXCEPT !.status = "revoked"]
                   ELSE invitations[i]]
              /\ log' = Append(log, entry(t, u, standing(u),
                            [role |-> changed(t).role, status |-> changed(t).status]))
              /\ UNCHANGED bootstrapped
      /\ end(t)

-----------------------------------------------------------------------------
(***************************************************************************)
(* The environment.                                                        *)
(***************************************************************************)

\* The connection is lost, or the database ends the transaction.
abort(t) ==
  /\ aborts < MaxAborts /\ aborts' = aborts + 1
  /\ txs' = txs \ {t} /\ locks' = {l \in locks : l.tx # t.id}
  /\ UNCHANGED <<rows, now, begun>>

tick == now < MaxTime /\ now' = now + 1 /\ UNCHANGED <<rows, txs, locks, begun, aborts>>

-----------------------------------------------------------------------------
Init ==
  /\ members = [u \in Users |->
       IF u \in Founders THEN [role |-> "owner", status |-> "active", updated |-> 0]
       ELSE NoMember]
  /\ invitations = [i \in Invitations |-> NoInvitation]
  /\ bootstrapped = (Founders # {})
  /\ log = <<>> /\ txs = {} /\ locks = {}
  /\ now = 0 /\ begun = 0 /\ aborts = 0

step(t) ==
  \/ precheck(t) \/ bootstrapCommit(t)
  \/ authorize(t) \/ admitCreate(t) \/ createCommit(t) \/ revokeCommit(t)
  \/ acceptSelf(t) \/ acceptInvitation(t) \/ insertMember(t) \/ raced(t) \/ acceptCommit(t)
  \/ lockMembers(t) \/ decide(t) \/ memberCommit(t)

Next ==
  \/ \E r \in Requests : begin(r)
  \/ \E t \in txs : step(t) \/ abort(t)
  \/ tick

Spec == Init /\ [][Next]_vars

-----------------------------------------------------------------------------
(***************************************************************************)
(* Properties.                                                             *)
(***************************************************************************)

\* An instance that has been bootstrapped keeps an active owner, however
\* owners demote and suspend each other and themselves at the same time.
\* About countOtherActiveOwners and the administrators' lock.
OwnerKept == bootstrapped => owners # {}

\* Whoever may no longer invite has no invitation out: a pending invitation
\* that has time left was made by an active owner, or by an active admin for
\* a member, also when it was being made while its maker was demoted.  About
\* the cascades and the lock on the inviter's row.
InvitersEntitled ==
  \A i \in Invitations :
    live(i, now) =>
      LET by == invitations[i].by
      IN  /\ isActive(by)
          /\ \/ members[by].role = "owner"
             \/ members[by].role = "admin" /\ invitations[i].role = "member"

\* Every member is there by exactly one way in, and every accepted invitation
\* enrolled the user it was bound to: two acceptances of one user consume one
\* invitation, two bootstraps make one owner.  About the insert of the member
\* row in acceptInstanceInvitation and bootstrapInstance.
EnrolledOnce ==
  /\ \A u \in Users :
       LET accepted == {i \in Invitations : invitations[i].acceptedBy = u}
           founded == {n \in DOMAIN log : log[n].kind = "bootstrap" /\ log[n].user = u}
       IN  isMember(u) <=> u \in Founders \/ Cardinality(accepted) + Cardinality(founded) = 1
  /\ \A i \in Invitations :
       invitations[i].acceptedBy # None =>
         invitations[i].status = "accepted" /\ invitations[i].acceptedBy = invitations[i].to
  /\ Cardinality({n \in DOMAIN log : log[n].kind = "bootstrap"}) <= 1

\* There are never more invitations out than allowed.  About the lock and the
\* count of createInstanceInvitation.
PendingCapped == pendingCount(now) <= MaxPending

\* The receipts tell the whole history: each says of its member what the one
\* before it left, the last one what the row says, and no key is used twice
\* in a table.  About the row locks of member changes and the receipts.
ReceiptsExplain ==
  /\ \A n \in DOMAIN log : \A m \in 1..(n - 1) :
       /\ log[m].actor = log[n].actor /\ table(log[m].kind) = table(log[n].kind) =>
            log[m].key # log[n].key
       /\ /\ log[m].user = log[n].user /\ log[n].user # None
          /\ \A k \in (m + 1)..(n - 1) : log[k].user # log[n].user
          => log[n].before = log[m].after
  /\ \A n \in DOMAIN log :
       /\ log[n].user # None
       /\ \A k \in (n + 1)..Len(log) : log[k].user # log[n].user
       => log[n].after = standing(log[n].user)

Governance == INSTANCE InstanceGovernance
  WITH Times <- 0..MaxTime, actors <- [n \in DOMAIN log |-> log[n].actor]

\* Every commit is one that the members as they are at that moment entitle,
\* although each transaction decided on what it read before.  About the row
\* locks on actor and target and the order they are taken in.
ImplementsGovernance == [][Governance!GovernanceNext]_(Governance!governed)
=============================================================================
