-------------------------- MODULE InstanceRequests ---------------------------
(***************************************************************************)
(* The commands each membership run lets clients send.  A request may be   *)
(* sent again, under the same idempotency key.                             *)
(***************************************************************************)
EXTENDS Naturals

req(kind, actor, key, subject, arg, to) ==
  [kind |-> kind, actor |-> actor, key |-> key, subject |-> subject, arg |-> arg, to |-> to]

\* Two owners change each other and themselves, some of it twice.
OwnerRaces ==
  {req("set_role", a, 1, b, r, 0) : a \in 1..2, b \in 1..2, r \in {"admin", "member", "owner"}}
  \cup {req("set_status", a, 2, b, s, 0) :
          a \in 1..2, b \in 1..2, s \in {"active", "suspended"}}

\* Two strangers set the instance up; the owner invites the other one.
FirstSteps ==
  {req("bootstrap", a, 1, 0, "owner", 0) : a \in 1..2}
  \cup {req("create", a, 1, i, "admin", 3 - a) : a \in 1..2, i \in 1..2}
  \cup {req("accept", a, 2, i, "none", 0) : a \in 1..2, i \in 1..2}

\* The instance is set up, perhaps twice, and the founder is succeeded.
Succession ==
  {req("bootstrap", 1, k, 0, "owner", 0) : k \in 1..2} \cup {req("bootstrap", 2, 1, 0, "owner", 0)}
  \cup {req("create", 1, i, i, IF i = 1 THEN "owner" ELSE "admin", 2) : i \in 1..2}
  \cup {req("accept", 2, i + 2, i, "none", 0) : i \in 1..2}
  \cup {req("set_role", 2, 3, 1, "member", 0)}

\* One user accepts two invitations while one of them is revoked.
Enrolments ==
  {req("create", 1, i, i, "admin", 2) : i \in 1..2}
  \cup {req("accept", 2, i, i, "none", 0) : i \in 1..2}
  \cup {req("revoke", a, 3, 1, "none", 0) : a \in 1..2}

\* Owners and admins invite while they are demoted and suspended.
Cascades ==
  {req("create", 2, i, i, IF i = 1 THEN "member" ELSE "admin", 3) : i \in 1..2}
  \cup {req("set_role", 1, 3, 2, r, 0) : r \in {"admin", "member"}}
  \cup {req("set_role", 1, 4, 2, "member", 0)}
  \cup {req("set_status", 1, 5, 2, s, 0) : s \in {"suspended", "active"}}
  \cup {req("accept", 3, 1, 1, "none", 0), req("revoke", 1, 6, 1, "none", 0),
        req("create", 1, 7, 2, "member", 3), req("revoke", 2, 6, 2, "none", 0)}
=============================================================================
