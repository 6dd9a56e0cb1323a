------------------------- MODULE InstanceGovernance --------------------------
(***************************************************************************)
(* What the instance stores promise: every change of members and           *)
(* invitations is one atomic step, entitled by the members as they are at  *)
(* that moment.  The PostgreSQL store reaches this with locks, the D1      *)
(* store with conditional batches and triggers.                            *)
(***************************************************************************)
EXTENDS Naturals, FiniteSets, Sequences

CONSTANTS Users, Invitations, MaxPending, Times
VARIABLES
  members, invitations, bootstrapped,
  actors   \* who gave the commands that took effect, in order

governed == <<members, invitations, bootstrapped, actors>>

Active(u) == members[u].status = "active"

\* Owners may deal with everybody, admins with plain members.
Over(a, role) ==
  Active(a) /\ (members[a].role = "owner" \/ (members[a].role = "admin" /\ role = "member"))

Live(i, at) == invitations[i].status = "pending" /\ invitations[i].expires > at

By(a) == actors' = Append(actors, a)

Bootstrap(u, at) ==
  /\ By(u)
  /\ ~bootstrapped /\ \A v \in Users : members[v].role = "none"
  /\ bootstrapped' = TRUE
  /\ members' = [members EXCEPT ![u] = [role |-> "owner", status |-> "active", updated |-> at]]
  /\ UNCHANGED invitations

Invite(a, i, role, at) ==
  /\ By(a)
  /\ Over(a, role) /\ invitations[i].status = "absent"
  /\ Cardinality({j \in Invitations : Live(j, at)}) < MaxPending
  /\ \E to \in Users :
       invitations' = [invitations EXCEPT ![i] =
         [status |-> "pending", role |-> role, by |-> a, to |-> to, expires |-> at + 1,
          acceptedBy |-> 0]]
  /\ UNCHANGED <<members, bootstrapped>>

Accept(u, i, at) ==
  /\ By(u)
  /\ members[u].role = "none" /\ Live(i, at) /\ invitations[i].to = u
  /\ members' = [members EXCEPT ![u] =
       [role |-> invitations[i].role, status |-> "active", updated |-> at]]
  /\ invitations' = [invitations EXCEPT ![i].status = "accepted", ![i].acceptedBy = u]
  /\ UNCHANGED bootstrapped

Revoke(a, i) ==
  /\ By(a)
  /\ Over(a, invitations[i].role) /\ invitations[i].status = "pending"
  /\ invitations' = [invitations EXCEPT ![i].status = "revoked"]
  /\ UNCHANGED <<members, bootstrapped>>

\* A role or a status changes, an owner stays, and the invitations the member
\* may no longer make are taken back.
Administer(a, u, role, status, at) ==
  LET new == [role |-> role, status |-> status, updated |-> at]
      Covers(r) == status = "active" /\ (role = "owner" \/ (role = "admin" /\ r = "member"))
      lost == {i \in Invitations : /\ Live(i, at) /\ invitations[i].by = u
                                   /\ ~Covers(invitations[i].role)}
  IN  /\ By(a)
      /\ members[u].role # "none" /\ at >= members[u].updated
      /\ Over(a, members[u].role) /\ Over(a, role)
      /\ role = members[u].role \/ status = members[u].status
      /\ status # members[u].status => a # u
      /\ members' = [members EXCEPT ![u] = new]
      /\ {v \in Users : members'[v].role = "owner" /\ members'[v].status = "active"} # {}
      /\ invitations' = [i \in Invitations |->
           IF i \in lost THEN [invitations[i] EXCEPT !.status = "revoked"] ELSE invitations[i]]
      /\ UNCHANGED bootstrapped

\* A command that finds what it asks for done in its instant is recorded, and
\* so is the founder's second bootstrap.
Confirm(a, at) ==
  /\ By(a)
  /\ \/ \E i \in Invitations : invitations[i].status = "revoked" /\ Over(a, invitations[i].role)
     \/ \E u \in Users : members[u].updated = at /\ (a = u \/ Over(a, members[u].role))
     \/ bootstrapped /\ members[a].role # "none"
  /\ UNCHANGED <<members, invitations, bootstrapped>>

GovernanceNext ==
  /\ actors' # actors
  /\ \E a \in Users, at \in Times :
      \/ Bootstrap(a, at) \/ Confirm(a, at)
      \/ \E i \in Invitations :
           Revoke(a, i) \/ Accept(a, i, at)
           \/ \E role \in {"owner", "admin", "member"} : Invite(a, i, role, at)
      \/ \E u \in Users, role \in {"owner", "admin", "member"}, status \in {"active", "suspended"} :
           Administer(a, u, role, status, at)
=============================================================================
