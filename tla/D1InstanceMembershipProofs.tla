---------------------- MODULE D1InstanceMembershipProofs ----------------------
(***************************************************************************)
(* Proofs about D1InstanceMembership: for any number of users,             *)
(* invitations, commands and batches between a gate and its batch.         *)
(***************************************************************************)
EXTENDS D1InstanceMembership, FiniteSetTheorems, TLAPS

MemberRow == [role : Roles \cup {"none"}, status : {"none", "active", "suspended"},
              updated : 0..MaxTime]

InvitationRow ==
  [status : {"absent", "pending", "accepted", "revoked"}, role : Roles \cup {"none"},
   by : Users \cup {None}, to : Users \cup {None}, expires : Nat,
   acceptedBy : Users \cup {None}]

Standing == [role : Roles \cup {"none"}, status : {"none", "active", "suspended"}]

Receipt == [kind : Kinds, actor : Users, key : {r.key : r \in Requests}, at : 0..MaxTime,
            subject : {r.subject : r \in Requests}, user : Users \cup {None},
            before : Standing, after : Standing]

Call == [id : Nat, req : Requests, at : 0..MaxTime, pc : {"gate", "batch"}, seen : MemberRow]

Typed ==
  /\ members \in [Users -> MemberRow]
  /\ invitations \in [Invitations -> InvitationRow]
  /\ founder \in Users \cup {None}
  /\ log \in Seq(Receipt)
  /\ calls \subseteq Call
  /\ now \in 0..MaxTime /\ begun \in Nat

\* What a command still knows when its batch runs: nothing of the rows, only
\* that the member it is about was one, and that it is not its own suspension.
Knows(t) ==
  /\ t.at <= now
  /\ t.pc = "batch" /\ table(t.req.kind) = "member" =>
       /\ t.seen.role \in Roles /\ t.seen.status \in {"active", "suspended"}
       /\ t.req.kind = "set_status" => t.req.subject # t.req.actor

\* The rows: whoever is there was let in after the bootstrap, and an inviter
\* and the founder stay members.
Rows ==
  /\ \A u \in Users :
       /\ isMember(u) <=> members[u].status # "none"
       /\ isMember(u) => founder # None
       /\ members[u].updated <= now
  /\ founder # None => isMember(founder)
  /\ \A i \in Invitations :
       LET inv == invitations[i]
       IN  IF inv.status = "absent" THEN inv = NoInvitation
           ELSE inv.by \in Users /\ isMember(inv.by) /\ inv.to \in Users /\ inv.role \in Roles

\* A pending invitation its inviter may not make any more had lapsed when the
\* inviter last changed.
Covered ==
  \A i \in Invitations :
    invitations[i].status = "pending" =>
      LET m == members[invitations[i].by]
      IN  entitled(m, invitations[i].role) \/ invitations[i].expires <= m.updated

Inv ==
  /\ Typed /\ Rows /\ Covered /\ OwnerKept /\ PendingCapped
  /\ \A t \in calls : Knows(t)

-----------------------------------------------------------------------------
\* Who has accepted, and who has founded.
accepted(u) == {i \in Invitations : invitations[i].acceptedBy = u}
founded(u) == {n \in DOMAIN log : log[n].kind = "bootstrap" /\ log[n].user = u}

\* How every user came in.
Enrolled ==
  /\ \A u \in Users :
       IF ~isMember(u) \/ u \in Founders THEN accepted(u) = {} /\ founded(u) = {}
       ELSE \/ founded(u) = {} /\ \E i \in Invitations : accepted(u) = {i}
            \/ accepted(u) = {} /\ \E n \in DOMAIN log : founded(u) = {n}
  /\ \A u \in Founders : isMember(u)
  /\ \A i \in Invitations :
       invitations[i].acceptedBy # None =>
         invitations[i].status = "accepted" /\ invitations[i].acceptedBy = invitations[i].to

\* What the receipts say of the members, with the instant of the last one.
Explained ==
  \A n \in DOMAIN log : log[n].user \in Users =>
    /\ \A m \in 1..(n - 1) :
         /\ log[m].user = log[n].user
         /\ \A k \in (m + 1)..(n - 1) : log[k].user # log[n].user
         => \/ log[n].before = log[m].after
            \/ log[n].after = log[m].after /\ log[n].at = log[m].at
    /\ (\A k \in (n + 1)..Len(log) : log[k].user # log[n].user) =>
         /\ log[n].after = standing(members[log[n].user])
         /\ log[n].at = members[log[n].user].updated

History == Enrolled /\ Explained

-----------------------------------------------------------------------------
(***************************************************************************)
(* Commands in flight, and what a batch leaves of the others.              *)
(***************************************************************************)
LEMMA Request ==
  ASSUME D1InstanceConstants, Inv, NEW t \in calls
  PROVE  /\ t \in Call /\ t.req \in Requests /\ wellFormed(t.req) /\ Knows(t)
         /\ t.req.kind \in Kinds /\ t.req.actor \in Users /\ t.req.actor # None
         /\ t.at \in Nat /\ now \in Nat /\ t.at <= now /\ t.at \in 0..MaxTime
PROOF
<1>1. t \in Call /\ t.req \in Requests /\ Knows(t) /\ t.at \in 0..MaxTime /\ now \in 0..MaxTime
  BY DEF Inv, Typed, Call
<1>2. wellFormed(t.req)
  BY <1>1 DEF D1InstanceConstants
<1> QED
  BY <1>1, <1>2 DEF D1InstanceConstants, wellFormed, Knows, None

\* The others know what they knew.
LEMMA OthersKnow ==
  ASSUME Inv, NEW t, calls' = calls \ {t}, now' = now
  PROVE  calls' \subseteq Call /\ \A v \in calls' : Knows(v)'
PROOF
  BY DEF Inv, Typed, Knows

LEMMA QuietKeeps ==
  ASSUME Inv, UNCHANGED rows, now' = now, begun' \in Nat,
         calls' \subseteq Call, \A v \in calls' : Knows(v)'
  PROVE  Inv'
PROOF
<1>1. Typed'
  BY DEF Inv, Typed, rows
<1>2. Rows' /\ Covered'
  BY DEF Inv, Rows, Covered, rows, isMember
<1>3. OwnerKept' /\ PendingCapped'
  BY DEF Inv, OwnerKept, PendingCapped, rows, owners, pendingCount, live
<1> QED
  BY <1>1, <1>2, <1>3 DEF Inv

LEMMA BeginKeeps ==
  ASSUME D1InstanceConstants, Inv, NEW r \in Requests, begin(r)
  PROVE  Inv' /\ UNCHANGED rows
PROOF
<1> PICK v : v = [id |-> begun', req |-> r, at |-> now, pc |-> "gate", seen |-> NoMember]
  OBVIOUS
<1>1. /\ begun' = begun + 1 /\ begun \in Nat /\ calls' = calls \cup {v} /\ now \in 0..MaxTime
      /\ UNCHANGED <<rows, now>>
  BY DEF begin, Inv, Typed
<1>2. NoMember \in MemberRow
  BY DEF NoMember, MemberRow, D1InstanceConstants
<1>3. v \in Call
  BY <1>1, <1>2 DEF Call
<1>4. \A t \in calls' : Knows(t)'
  BY <1>1 DEF Inv, Typed, Knows
<1> QED
  BY <1>1, <1>3, <1>4, QuietKeeps DEF Inv, Typed

LEMMA GateKeeps ==
  ASSUME D1InstanceConstants, Inv, NEW t \in calls, gate(t)
  PROVE  Inv' /\ UNCHANGED rows
PROOF
<1> DEFINE passes == CASE t.req.kind = "bootstrap" -> bootstrapGate(t)
                       [] t.req.kind = "create" -> createGate(t)
                       [] t.req.kind = "accept" -> acceptGate(t)
                       [] t.req.kind = "revoke" -> revokeGate(t)
                       [] OTHER -> memberGate(t)
<1> PICK seen : seen = IF table(t.req.kind) = "member" THEN members[t.req.subject] ELSE NoMember
  OBVIOUS
<1> PICK v : v = [[t EXCEPT !.pc = "batch"] EXCEPT !.seen = seen]
  OBVIOUS
<1>1. /\ UNCHANGED <<rows, now, begun>>
      /\ calls' = calls \ {t} \/ (passes /\ calls' = (calls \ {t}) \cup {v})
  BY DEF gate, end
<1>2. CASE calls' = calls \ {t}
  BY <1>1, <1>2, OthersKnow, QuietKeeps DEF Inv, Typed
<1>3. CASE passes /\ calls' = (calls \ {t}) \cup {v}
  <2>1. t \in Call /\ wellFormed(t.req) /\ t.at <= now
    BY Request
  <2>2. table(t.req.kind) = "member" =>
          /\ t.req.kind \in {"set_role", "set_status"} /\ t.req.subject \in Users
          /\ isMember(t.req.subject)
          /\ t.req.kind = "set_status" => t.req.subject # t.req.actor
    <3>1. table(t.req.kind) = "member" =>
            t.req.kind \in {"set_role", "set_status"} /\ t.req.subject \in Users
      BY <2>1 DEF wellFormed, Kinds, table
    <3>2. table(t.req.kind) = "member" => memberGate(t)
      BY <1>3, <3>1
    <3> QED
      BY <3>1, <3>2 DEF memberGate
  <2>3. seen \in MemberRow
    <3>1. NoMember \in MemberRow
      BY DEF NoMember, MemberRow, D1InstanceConstants
    <3>2. \A u \in Users : members[u] \in MemberRow
      BY DEF Inv, Typed
    <3> QED
      BY <2>2, <3>1, <3>2
  <2>4. table(t.req.kind) = "member" =>
          seen.role \in Roles /\ seen.status \in {"active", "suspended"}
    <3> SUFFICES ASSUME table(t.req.kind) = "member"
                 PROVE  seen.role \in Roles /\ seen.status \in {"active", "suspended"}
      OBVIOUS
    <3>1. seen = members[t.req.subject] /\ seen.role # "none" /\ seen.status # "none"
      BY <2>2 DEF Inv, Rows, isMember
    <3> QED
      BY <2>3, <3>1 DEF MemberRow
  <2>5. v \in Call /\ v.at = t.at /\ v.req = t.req /\ v.seen = seen
    <3>1. PICK w : w = [t EXCEPT !.pc = "batch"]
      OBVIOUS
    <3>2. w \in Call /\ w.at = t.at /\ w.req = t.req /\ v = [w EXCEPT !.seen = seen]
      BY <2>1, <3>1 DEF Call
    <3> QED
      BY <2>3, <3>2 DEF Call
  <2>6. Knows(v)'
    BY <1>1, <2>1, <2>2, <2>4, <2>5 DEF Knows
  <2>7. calls' \subseteq Call /\ \A u \in calls' : Knows(u)'
    <3>1. calls \subseteq Call /\ \A u \in calls : Knows(u)'
      BY <1>1 DEF Inv, Typed, Knows
    <3> QED
      BY <1>3, <2>5, <2>6, <3>1
  <2> QED
    BY <1>1, <2>7, QuietKeeps DEF Inv, Typed
<1> HIDE DEF passes
<1> QED
  BY <1>1, <1>2, <1>3

LEMMA TickKeeps ==
  ASSUME D1InstanceConstants, Inv, tick
  PROVE  Inv' /\ UNCHANGED rows
PROOF
<1>1. /\ now' = now + 1 /\ now \in Nat /\ now < MaxTime /\ MaxTime \in Nat
      /\ UNCHANGED <<rows, calls, begun>>
  BY DEF tick, Inv, Typed, D1InstanceConstants
<1>2. Typed'
  BY <1>1 DEF Inv, Typed, rows
<1>3. \A t \in calls : Knows(t)'
  <2> SUFFICES ASSUME NEW t \in calls PROVE Knows(t)'
    OBVIOUS
  <2>1. Knows(t) /\ t.at <= now /\ t.at \in Nat
    BY Request
  <2> QED
    BY <1>1, <2>1 DEF Knows
<1>4. Rows'
  BY <1>1 DEF Inv, Rows, rows, isMember, Typed, MemberRow
<1>5. Covered' /\ OwnerKept'
  BY <1>1 DEF Inv, Covered, OwnerKept, rows, owners
<1>6. PendingCapped'
  <2> DEFINE N == {i \in Invitations : live(i, now)}
  <2>1. IsFiniteSet(N) /\ N' \subseteq N
    BY <1>1, FS_Subset DEF D1InstanceConstants, live, rows, Inv, Typed, InvitationRow
  <2>2. Cardinality(N') <= Cardinality(N) /\ Cardinality(N') \in Nat /\ Cardinality(N) \in Nat
    BY <2>1, FS_Subset, FS_CardinalityType
  <2>3. Cardinality(N) <= MaxPending /\ MaxPending \in Nat
    BY DEF Inv, PendingCapped, pendingCount, D1InstanceConstants
  <2> HIDE DEF N
  <2>4. Cardinality(N') <= MaxPending
    BY <2>2, <2>3
  <2> QED
    BY <2>4 DEF PendingCapped, pendingCount, N
<1> QED
  BY <1>1, <1>2, <1>3, <1>4, <1>5, <1>6 DEF Inv

\* Fewer invitations wait than before.
LEMMA StillCapped ==
  ASSUME D1InstanceConstants, Inv, now' = now,
         \A i \in Invitations : live(i, now)' => live(i, now)
  PROVE  PendingCapped'
PROOF
<1> DEFINE N == {i \in Invitations : live(i, now)}
<1>1. IsFiniteSet(N) /\ N' \subseteq N
  BY FS_Subset DEF D1InstanceConstants
<1>2. Cardinality(N') <= Cardinality(N) /\ Cardinality(N') \in Nat /\ Cardinality(N) \in Nat
  BY <1>1, FS_Subset, FS_CardinalityType
<1>3. Cardinality(N) <= MaxPending /\ MaxPending \in Nat
  BY DEF Inv, PendingCapped, pendingCount, D1InstanceConstants
<1> HIDE DEF N
<1>4. Cardinality(N') <= MaxPending
  BY <1>2, <1>3
<1> QED
  BY <1>4 DEF PendingCapped, pendingCount, N

-----------------------------------------------------------------------------
(***************************************************************************)
(* What each batch does when it is admitted.                               *)
(***************************************************************************)
Nothing == standing(NoMember)

LEMMA Standings ==
  ASSUME NEW m \in MemberRow
  PROVE  /\ standing(m) \in Standing
         /\ standing(m).role = m.role /\ standing(m).status = m.status
BY DEF standing, Standing, MemberRow

LEMMA NothingStands == Nothing \in Standing
BY DEF Nothing, standing, Standing, NoMember

LEMMA Logged ==
  ASSUME D1InstanceConstants, Inv, NEW t \in calls, NEW user \in Users \cup {None},
         NEW before \in Standing, NEW after \in Standing, record(t, user, before, after)
  PROVE  /\ log' \in Seq(Receipt) /\ Len(log') = Len(log) + 1
         /\ \A n \in DOMAIN log : n \in DOMAIN log' /\ log'[n] = log[n]
         /\ log'[Len(log) + 1] = entry(t, user, before, after)
PROOF
<1>1. t.req.actor \in Users /\ t.req.kind \in Kinds /\ t.req \in Requests /\ t.at \in 0..MaxTime
  BY Request
<1>2. entry(t, user, before, after) \in Receipt
  <2>1. /\ t.req.key \in {r.key : r \in Requests}
        /\ t.req.subject \in {r.subject : r \in Requests}
    BY <1>1, Zenon
  <2> QED
    BY <1>1, <2>1 DEF entry, Receipt
<1>3. log \in Seq(Receipt)
  BY DEF Inv, Typed
<1> QED
  BY <1>2, <1>3 DEF record

\* A receipt alone, or nothing at all.
LEMMA ReceiptKeeps ==
  ASSUME D1InstanceConstants, Inv, NEW t \in calls, end(t), log' \in Seq(Receipt),
         UNCHANGED <<members, invitations, founder>>
  PROVE  Inv'
PROOF
<1>1. calls' = calls \ {t} /\ now' = now /\ begun' = begun
  BY DEF end
<1>2. calls' \subseteq Call /\ \A v \in calls' : Knows(v)'
  BY <1>1, OthersKnow
<1>3. Typed'
  BY <1>1, <1>2 DEF Inv, Typed
<1>4. Rows' /\ Covered'
  BY <1>1 DEF Inv, Rows, Covered, isMember
<1>5. OwnerKept' /\ PendingCapped'
  BY <1>1 DEF Inv, OwnerKept, PendingCapped, owners, pendingCount, live
<1> QED
  BY <1>2, <1>3, <1>4, <1>5 DEF Inv

LEMMA RejectKeeps ==
  ASSUME D1InstanceConstants, Inv, NEW t \in calls, end(t), UNCHANGED rows
  PROVE  Inv'
BY ReceiptKeeps DEF rows, Inv, Typed

LEMMA BootstrapKeeps ==
  ASSUME D1InstanceConstants, Inv, NEW t \in calls, bootstrapBatch(t)
  PROVE  Inv'
PROOF
<1> DEFINE u == t.req.actor
           m == [role |-> "owner", status |-> "active", updated |-> t.at]
<1>1. u \in Users /\ t.at <= now /\ t.at \in 0..MaxTime /\ now \in Nat
  BY Request
<1>2. end(t) /\ calls' = calls \ {t} /\ UNCHANGED <<now, begun>>
  BY DEF bootstrapBatch, end
<1>3. CASE record(t, None, Nothing, Nothing) /\ UNCHANGED <<members, invitations, founder>>
  BY <1>2, <1>3, Logged, NothingStands, ReceiptKeeps
<1>4. CASE /\ founder = None /\ \A v \in Users : ~isMember(v)
           /\ members' = [members EXCEPT ![u] = m] /\ founder' = u
           /\ record(t, u, standing(members[u]), standing(m))
           /\ UNCHANGED <<invitations, revocations>>
  <2>1. m \in MemberRow /\ members[u] \in MemberRow
    BY <1>1 DEF MemberRow, Inv, Typed, Roles
  <2>2. log' \in Seq(Receipt)
    BY <1>1, <1>4, <2>1, Standings, Logged
  <2>3. calls' \subseteq Call /\ \A v \in calls' : Knows(v)'
    BY <1>2, OthersKnow
  <2>4. Typed'
    BY <1>1, <1>2, <1>4, <2>1, <2>2, <2>3 DEF Inv, Typed
  <2>5. \A x \in Users : members'[x] = IF x = u THEN m ELSE members[x]
    BY <1>4 DEF Inv, Typed
  <2>6. \A i \in Invitations : invitations[i] = NoInvitation
    BY <1>4 DEF Inv, Rows
  <2>7. u # None
    BY <1>1 DEF D1InstanceConstants, None
  <2>8. Rows' /\ Covered'
    BY <1>1, <1>2, <1>4, <2>5, <2>6, <2>7 DEF Inv, Typed, Rows, Covered, isMember, NoInvitation
  <2>9. OwnerKept'
    <3>1. u \in owners'
      BY <1>1, <2>5 DEF owners
    <3> QED
      BY <3>1 DEF OwnerKept
  <2>10. PendingCapped'
    BY <1>2, <1>4 DEF Inv, PendingCapped, pendingCount, live
  <2> QED
    BY <2>3, <2>4, <2>8, <2>9, <2>10 DEF Inv
<1> QED
  BY <1>2, <1>3, <1>4, RejectKeeps DEF bootstrapBatch, reject, Nothing

LEMMA CreateKeeps ==
  ASSUME D1InstanceConstants, Inv, NEW t \in calls, createBatch(t)
  PROVE  Inv'
PROOF
<1> DEFINE a == t.req.actor
           s == t.req.subject
           inv == [status |-> "pending", role |-> t.req.arg, by |-> a, to |-> t.req.to,
                   expires |-> t.at + 1, acceptedBy |-> None]
<1>1. /\ a \in Users /\ s \in Invitations /\ t.at <= now /\ t.at \in Nat /\ now \in Nat
      /\ t.req.arg \in Roles /\ t.req.to \in Users
  BY Request DEF createBatch, batchOf, wellFormed
<1>2. end(t) /\ calls' = calls \ {t} /\ UNCHANGED <<now, begun>>
  BY DEF createBatch, end
<1>3. SUFFICES ASSUME invitations[s].status = "absent", createEvidence(t),
                      invitations' = [invitations EXCEPT ![s] = inv],
                      record(t, None, Nothing, Nothing),
                      UNCHANGED <<members, revocations, founder>>
               PROVE  Inv'
  BY <1>2, RejectKeeps DEF createBatch, reject, Nothing
<1>4. inv \in InvitationRow
  BY <1>1 DEF InvitationRow, Roles
<1>5. log' \in Seq(Receipt)
  BY <1>3, NothingStands, Logged
<1>6. calls' \subseteq Call /\ \A v \in calls' : Knows(v)'
  BY <1>2, OthersKnow
<1>7. Typed'
  BY <1>1, <1>2, <1>3, <1>4, <1>5, <1>6 DEF Inv, Typed
<1>8. \A i \in Invitations : invitations'[i] = IF i = s THEN inv ELSE invitations[i]
  BY <1>3 DEF Inv, Typed
<1>9. entitled(members[a], t.req.arg)
  BY <1>3 DEF createEvidence
<1>10. Rows'
  <2>1. isMember(a)
    BY <1>1, <1>9 DEF entitled, Inv, Rows
  <2>2. \A i \in Invitations :
          IF invitations'[i].status = "absent" THEN invitations'[i] = NoInvitation
          ELSE /\ invitations'[i].by \in Users /\ isMember(invitations'[i].by)
               /\ invitations'[i].to \in Users /\ invitations'[i].role \in Roles
    BY <1>1, <1>8, <2>1 DEF Inv, Rows
  <2> QED
    BY <1>2, <1>3, <2>2 DEF Inv, Rows, isMember
<1>11. Covered'
  BY <1>3, <1>8, <1>9 DEF Inv, Covered
<1>12. OwnerKept'
  BY <1>3 DEF Inv, OwnerKept, owners
<1>13. PendingCapped'
  <2> DEFINE N == {i \in Invitations : live(i, now)}
             A == {i \in Invitations : live(i, t.at)}
  <2>1. IsFiniteSet(N) /\ IsFiniteSet(A) /\ N \cup {s} \in SUBSET Invitations
        /\ IsFiniteSet(N \cup {s})
    BY <1>1, FS_Subset DEF D1InstanceConstants
  <2>2. N \subseteq A
    BY <1>1 DEF live, Inv, Typed, InvitationRow
  <2>3. Cardinality(N) <= Cardinality(A) /\ Cardinality(N \cup {s}) <= Cardinality(N) + 1
    BY <2>1, <2>2, FS_Subset, FS_AddElement, FS_CardinalityType
  <2>4. N' \subseteq N \cup {s}
    BY <1>2, <1>8 DEF live
  <2>5. Cardinality(N') <= Cardinality(N \cup {s}) /\ Cardinality(N') \in Nat
    BY <2>1, <2>4, FS_Subset, FS_CardinalityType
  <2>6. Cardinality(A) < MaxPending
    BY <1>3 DEF createEvidence, pendingCount
  <2>7. Cardinality(A) \in Nat /\ Cardinality(N) \in Nat /\ Cardinality(N \cup {s}) \in Nat
        /\ MaxPending \in Nat
    BY <2>1, FS_CardinalityType DEF D1InstanceConstants
  <2> HIDE DEF N, A
  <2>8. Cardinality(N') <= MaxPending
    BY <2>3, <2>5, <2>6, <2>7
  <2> QED
    BY <2>8 DEF PendingCapped, pendingCount, N
<1> QED
  BY <1>6, <1>7, <1>10, <1>11, <1>12, <1>13 DEF Inv

LEMMA RevokeKeeps ==
  ASSUME D1InstanceConstants, Inv, NEW t \in calls, revokeBatch(t)
  PROVE  Inv'
PROOF
<1> DEFINE s == t.req.subject
<1>1. s \in Invitations
  BY Request DEF revokeBatch, batchOf, wellFormed
<1>2. end(t) /\ calls' = calls \ {t} /\ UNCHANGED <<now, begun>>
  BY DEF revokeBatch, end
<1>3. CASE record(t, None, Nothing, Nothing) /\ UNCHANGED <<members, invitations, founder>>
  BY <1>2, <1>3, Logged, NothingStands, ReceiptKeeps
<1>4. CASE /\ invitations[s].status = "pending"
           /\ invitations' = [invitations EXCEPT ![s].status = "revoked"]
           /\ record(t, None, Nothing, Nothing)
           /\ UNCHANGED <<members, founder>>
  <2>1. /\ \A i \in Invitations : i # s => invitations'[i] = invitations[i]
        /\ invitations[s] \in InvitationRow
        /\ invitations'[s] = [invitations[s] EXCEPT !.status = "revoked"]
        /\ invitations' \in [Invitations -> InvitationRow]
    <3>1. invitations \in [Invitations -> InvitationRow] /\ invitations[s] \in InvitationRow
      BY <1>1 DEF Inv, Typed
    <3>2. [invitations[s] EXCEPT !.status = "revoked"] \in InvitationRow
      BY <3>1 DEF InvitationRow
    <3> QED
      BY <1>1, <1>4, <3>1, <3>2
  <2>2. log' \in Seq(Receipt)
    BY <1>4, NothingStands, Logged
  <2>3. calls' \subseteq Call /\ \A v \in calls' : Knows(v)'
    BY <1>2, OthersKnow
  <2>4. Typed'
    BY <1>2, <1>4, <2>1, <2>2, <2>3 DEF Inv, Typed
  <2>5. /\ invitations'[s].status = "revoked" /\ invitations'[s].by = invitations[s].by
        /\ invitations'[s].to = invitations[s].to /\ invitations'[s].role = invitations[s].role
    BY <2>1 DEF InvitationRow
  <2>6. \A i \in Invitations : live(i, now)' => live(i, now)
    BY <1>2, <2>1, <2>5 DEF live
  <2>7. Rows'
    <3>1. \A i \in Invitations :
            IF invitations'[i].status = "absent" THEN invitations'[i] = NoInvitation
            ELSE /\ invitations'[i].by \in Users /\ isMember(invitations'[i].by)
                 /\ invitations'[i].to \in Users /\ invitations'[i].role \in Roles
      BY <1>1, <1>4, <2>1, <2>5 DEF Inv, Rows
    <3> QED
      BY <1>2, <1>4, <3>1 DEF Inv, Rows, isMember
  <2>8. Covered'
    BY <1>4, <2>1, <2>5 DEF Inv, Covered
  <2>9. OwnerKept'
    BY <1>4 DEF Inv, OwnerKept, owners
  <2> QED
    BY <1>2, <2>3, <2>4, <2>6, <2>7, <2>8, <2>9, StillCapped DEF Inv
<1> QED
  BY <1>2, <1>3, <1>4, RejectKeeps DEF revokeBatch, reject, Nothing

LEMMA AcceptKeeps ==
  ASSUME D1InstanceConstants, Inv, NEW t \in calls, acceptBatch(t)
  PROVE  Inv'
PROOF
<1> DEFINE u == t.req.actor
           s == t.req.subject
<1> PICK m : m = [role |-> invitations[s].role, status |-> "active", updated |-> t.at]
  OBVIOUS
<1>1. /\ u \in Users /\ s \in Invitations /\ t.at <= now /\ t.at \in 0..MaxTime
      /\ t.at \in Nat /\ now \in Nat
  BY Request DEF acceptBatch, batchOf, wellFormed
<1>2. end(t) /\ calls' = calls \ {t} /\ UNCHANGED <<now, begun>>
  BY DEF acceptBatch, end
<1>3. SUFFICES ASSUME enrols(t), members' = [members EXCEPT ![u] = m],
                      invitations' = [invitations EXCEPT ![s].status = "accepted",
                                                         ![s].acceptedBy = u],
                      record(t, u, standing(members[u]), standing(m)),
                      UNCHANGED <<revocations, founder>>
               PROVE  Inv'
  BY <1>2, RejectKeeps DEF acceptBatch, reject
<1>4. /\ invitations[s].status = "pending" /\ invitations[s] \in InvitationRow
      /\ invitations[s].role \in Roles /\ isMember(invitations[s].by) /\ invitations[s].by \in Users
      /\ invitations[s].to = u /\ ~isMember(u)
  BY <1>1, <1>3 DEF Inv, Typed, Rows, enrols, live
<1>5. m \in MemberRow /\ members[u] \in MemberRow
  BY <1>1, <1>4 DEF MemberRow, Inv, Typed, Roles
<1>6. log' \in Seq(Receipt)
  BY <1>1, <1>3, <1>5, Standings, Logged
<1>7. calls' \subseteq Call /\ \A v \in calls' : Knows(v)'
  BY <1>2, OthersKnow
<1>8. /\ \A i \in Invitations : i # s => invitations'[i] = invitations[i]
      /\ invitations'[s] = [invitations[s] EXCEPT !.status = "accepted", !.acceptedBy = u]
      /\ invitations' \in [Invitations -> InvitationRow]
  BY <1>1, <1>3, <1>4 DEF Inv, Typed, InvitationRow
<1>9. /\ invitations'[s].status = "accepted" /\ invitations'[s].by = invitations[s].by
      /\ invitations'[s].to = u /\ invitations'[s].role = invitations[s].role
      /\ invitations'[s].expires = invitations[s].expires
  BY <1>4, <1>8 DEF InvitationRow
<1>10. \A x \in Users : members'[x] = IF x = u THEN m ELSE members[x]
  BY <1>3 DEF Inv, Typed
<1>11. Typed'
  BY <1>1, <1>2, <1>3, <1>5, <1>6, <1>7, <1>8 DEF Inv, Typed
<1>12. \A i \in Invitations : live(i, now)' => live(i, now)
  BY <1>2, <1>8, <1>9 DEF live
<1>13. \A x \in Users : isMember(x) => x # u /\ isMember(x)' /\ members'[x] = members[x]
  BY <1>4, <1>10 DEF isMember
<1>14. founder # None
  BY <1>4 DEF Inv, Rows
<1>15. Rows'
  <2>1. \A i \in Invitations :
          IF invitations'[i].status = "absent" THEN invitations'[i] = NoInvitation
          ELSE /\ invitations'[i].by \in Users /\ members'[invitations'[i].by].role # "none"
               /\ invitations'[i].to \in Users /\ invitations'[i].role \in Roles
    <3> SUFFICES ASSUME NEW i \in Invitations
                 PROVE  IF invitations'[i].status = "absent" THEN invitations'[i] = NoInvitation
                        ELSE /\ invitations'[i].by \in Users /\ members'[invitations'[i].by].role # "none"
                             /\ invitations'[i].to \in Users /\ invitations'[i].role \in Roles
      OBVIOUS
    <3>1. CASE i = s
      BY <1>1, <1>4, <1>9, <1>13, <3>1 DEF isMember
    <3>2. CASE i # s
      BY <1>8, <1>13, <3>2 DEF Inv, Rows, isMember
    <3> QED
      BY <3>1, <3>2
  <2>2. \A x \in Users :
          /\ isMember(x)' <=> members'[x].status # "none"
          /\ isMember(x)' => founder' # None
          /\ members'[x].updated <= now'
    BY <1>1, <1>2, <1>3, <1>4, <1>10, <1>14 DEF Inv, Rows, isMember, Roles
  <2>3. isMember(founder)'
    BY <1>3, <1>13, <1>14 DEF Inv, Rows, Typed, isMember
  <2> QED
    BY <2>1, <2>2, <2>3 DEF Rows, isMember
<1>16. Covered'
  <2> SUFFICES ASSUME NEW i \in Invitations, invitations'[i].status = "pending"
               PROVE  \/ entitled(members'[invitations'[i].by], invitations'[i].role)
                      \/ invitations'[i].expires <= members'[invitations'[i].by].updated
    BY DEF Covered, entitled
  <2>1. i # s /\ invitations'[i] = invitations[i]
    BY <1>8, <1>9
  <2>2. members'[invitations[i].by] = members[invitations[i].by]
    BY <1>13, <2>1 DEF Inv, Rows
  <2> QED
    BY <2>1, <2>2 DEF Inv, Covered
<1>17. OwnerKept'
  <2>1. owners \subseteq owners'
    BY <1>13 DEF owners, isMember, Inv, Rows
  <2> QED
    BY <1>3, <2>1 DEF Inv, OwnerKept
<1> QED
  BY <1>2, <1>7, <1>11, <1>12, <1>15, <1>16, <1>17, StillCapped DEF Inv

-----------------------------------------------------------------------------
(***************************************************************************)
(* The change of a member.                                                 *)
(***************************************************************************)

\* What the change is about to write, from what its gate saw.
LEMMA Changing ==
  ASSUME D1InstanceConstants, Inv, NEW t \in calls, t.pc = "batch",
         table(t.req.kind) = "member"
  PROVE  /\ t.req.kind \in {"set_role", "set_status"}
         /\ t.req.subject \in Users /\ t.req.actor \in Users
         /\ t.req.kind = "set_status" => t.req.subject # t.req.actor
         /\ t.at <= now /\ t.at \in Nat /\ t.at \in 0..MaxTime /\ now \in Nat
         /\ t.seen \in MemberRow
         /\ t.seen.role \in Roles /\ t.seen.status \in {"active", "suspended"}
         /\ t.req.kind = "set_role" => t.req.arg \in Roles
         /\ t.req.kind = "set_status" => t.req.arg \in {"active", "suspended"}
         /\ changed(t).role = (IF t.req.kind = "set_role" THEN t.req.arg ELSE t.seen.role)
         /\ changed(t).status = (IF t.req.kind = "set_role" THEN t.seen.status ELSE t.req.arg)
         /\ changed(t).updated = t.at
         /\ changed(t) \in MemberRow
         /\ changed(t).role \in Roles /\ changed(t).status \in {"active", "suspended"}
PROOF
<1>1. /\ t \in Call /\ wellFormed(t.req) /\ Knows(t) /\ t.req.actor \in Users
      /\ t.at <= now /\ t.at \in Nat /\ t.at \in 0..MaxTime /\ now \in Nat
  BY Request
<1>2. /\ t.req.kind \in {"set_role", "set_status"} /\ t.req.subject \in Users
      /\ t.req.kind = "set_role" => t.req.arg \in Roles
      /\ t.req.kind = "set_status" => t.req.arg \in {"active", "suspended"}
  BY <1>1 DEF wellFormed, Kinds, table
<1>3. /\ t.seen.role \in Roles /\ t.seen.status \in {"active", "suspended"}
      /\ t.req.kind = "set_status" => t.req.subject # t.req.actor
  BY <1>1 DEF Knows
<1>4. t.seen \in MemberRow
  BY <1>1 DEF Call
<1>5. PICK seen : seen = t.seen
  OBVIOUS
<1>6. /\ changed(t).role = (IF t.req.kind = "set_role" THEN t.req.arg ELSE seen.role)
      /\ changed(t).status = (IF t.req.kind = "set_role" THEN seen.status ELSE t.req.arg)
      /\ changed(t).updated = t.at
      /\ changed(t) = [role |-> changed(t).role, status |-> changed(t).status, updated |-> t.at]
  BY <1>2, <1>4, <1>5 DEF changed, MemberRow
<1>7. changed(t).role \in Roles /\ changed(t).status \in {"active", "suspended"}
  BY <1>2, <1>3, <1>5, <1>6
<1>8. changed(t) \in MemberRow
  BY <1>1, <1>6, <1>7 DEF MemberRow
<1> QED
  BY <1>1, <1>2, <1>3, <1>4, <1>5, <1>6, <1>7, <1>8

\* The cascade takes back what the member may no longer make: nothing else of
\* what it made is pending, has time left and is beyond its new standing.
LEMMA CascadeIsLost ==
  ASSUME D1InstanceConstants, Inv, NEW t \in calls, t.pc = "batch",
         table(t.req.kind) = "member", matches(t),
         t.at >= members[t.req.subject].updated, NEW i \in Invitations
  PROVE  i \in cascade(t) <=> /\ live(i, t.at) /\ invitations[i].by = t.req.subject
                              /\ ~entitled(changed(t), invitations[i].role)
PROOF
<1> DEFINE u == t.req.subject
           role == invitations[i].role
<1>1. PICK m : m = changed(t)
  OBVIOUS
<1>2. /\ t.req.kind \in {"set_role", "set_status"} /\ u \in Users /\ t.seen \in MemberRow
      /\ t.seen.role \in Roles /\ m.role \in Roles /\ t.at \in Nat
      /\ m.role = (IF t.req.kind = "set_role" THEN t.req.arg ELSE t.seen.role)
      /\ m.status = (IF t.req.kind = "set_role" THEN t.seen.status ELSE t.req.arg)
      /\ m.status \in {"active", "suspended"}
      /\ t.req.kind = "set_role" => t.req.arg \in Roles
  BY <1>1, Changing
<1>3. SUFFICES ASSUME live(i, t.at), invitations[i].by = u
               PROVE  i \in cascade(t) <=> ~entitled(m, role)
  BY <1>1 DEF cascade
<1>4. entitled(t.seen, role)
  <2>1. invitations[i].expires > t.at /\ invitations[i].expires \in Nat
        /\ members[u].updated \in Nat
    BY <1>2, <1>3 DEF live, Inv, Typed, InvitationRow, MemberRow
  <2>2. entitled(members[u], role) \/ invitations[i].expires <= members[u].updated
    BY <1>3 DEF live, Inv, Covered
  <2>3. members[u].role = t.seen.role /\ members[u].status = t.seen.status
    BY DEF matches, standing
  <2> QED
    BY <1>2, <2>1, <2>2, <2>3 DEF entitled
<1>5. CASE t.req.kind = "set_status"
  <2>1. i \in cascade(t) <=> t.req.arg = "suspended"
    BY <1>3, <1>5 DEF cascade
  <2> QED
    BY <1>2, <1>4, <1>5, <2>1 DEF entitled
<1>6. CASE t.req.kind = "set_role"
  <2>1. i \in cascade(t) <=>
          \/ roleCascadeKind(t.seen.role, t.req.arg) = "all"
          \/ roleCascadeKind(t.seen.role, t.req.arg) = "non_member" /\ role # "member"
    BY <1>3, <1>6 DEF cascade
  <2>2. i \in cascade(t) <=>
          \/ t.req.arg = "member" /\ t.seen.role # "member"
          \/ t.req.arg = "admin" /\ t.seen.role = "owner" /\ role # "member"
    BY <2>1 DEF roleCascadeKind
  <2>3. t.req.arg \in {"owner", "admin", "member"}
    BY <1>2, <1>6 DEF Roles
  <2> QED
    BY <1>2, <1>4, <1>6, <2>2, <2>3 DEF entitled
<1> QED
  BY <1>2, <1>5, <1>6

\* What was done in this instant already leaves nothing to take back.
LEMMA SameCascadesNothing ==
  ASSUME D1InstanceConstants, Inv, NEW t \in calls, t.pc = "batch",
         table(t.req.kind) = "member", members[t.req.subject] = changed(t)
  PROVE  cascade(t) = {}
PROOF
<1> DEFINE u == t.req.subject
<1>1. PICK m : m = changed(t)
  OBVIOUS
<1>2. /\ t.req.kind \in {"set_role", "set_status"} /\ u \in Users /\ t.at \in Nat
      /\ m.role = (IF t.req.kind = "set_role" THEN t.req.arg ELSE t.seen.role)
      /\ m.status = (IF t.req.kind = "set_role" THEN t.seen.status ELSE t.req.arg)
      /\ m.updated = t.at
  BY <1>1, Changing
<1>3. SUFFICES ASSUME NEW i \in Invitations, i \in cascade(t) PROVE FALSE
  BY DEF cascade
<1>4. live(i, t.at) /\ invitations[i].by = u
  BY <1>3 DEF cascade
<1>5. entitled(m, invitations[i].role)
  <2>1. invitations[i].expires > t.at /\ invitations[i].expires \in Nat
    BY <1>4 DEF live, Inv, Typed, InvitationRow
  <2>2. entitled(m, invitations[i].role) \/ invitations[i].expires <= m.updated
    BY <1>1, <1>4 DEF live, Inv, Covered
  <2> QED
    BY <1>2, <2>1, <2>2
<1>6. CASE t.req.kind = "set_status"
  <2>1. t.req.arg = "suspended"
    BY <1>3, <1>6 DEF cascade
  <2> QED
    BY <1>2, <1>5, <1>6, <2>1 DEF entitled
<1>7. CASE t.req.kind = "set_role"
  <2>1. \/ roleCascadeKind(t.seen.role, t.req.arg) = "all"
        \/ /\ roleCascadeKind(t.seen.role, t.req.arg) = "non_member"
           /\ invitations[i].role # "member"
    BY <1>3, <1>7 DEF cascade
  <2>2. t.req.arg = "member" \/ (t.req.arg = "admin" /\ invitations[i].role # "member")
    BY <2>1 DEF roleCascadeKind
  <2> QED
    BY <1>2, <1>5, <1>7, <2>2 DEF entitled
<1> QED
  BY <1>2, <1>6, <1>7

\* What the two admitted cases of a change come to.
LEMMA MemberBatch ==
  ASSUME D1InstanceConstants, Inv, NEW t \in calls, memberBatch(t), NEW m, m = changed(t)
  PROVE  /\ t.pc = "batch" /\ table(t.req.kind) = "member" /\ end(t)
         /\ \/ UNCHANGED rows
            \/ /\ ~receipt(t) /\ memberEvidence(t)
               /\ UNCHANGED founder
               /\ record(t, t.req.subject, standing(t.seen), standing(m))
               /\ \/ /\ matches(t) /\ t.at >= members[t.req.subject].updated /\ floorKept(t)
                     /\ members' = [members EXCEPT ![t.req.subject] = m]
                     /\ invitations' = [i \in Invitations |->
                          IF i \in cascade(t) THEN [invitations[i] EXCEPT !.status = "revoked"]
                          ELSE invitations[i]]
                  \/ /\ members[t.req.subject] = m
                     /\ UNCHANGED <<members, invitations>>
PROOF
<1> DEFINE u == t.req.subject
<1>1. t.pc = "batch" /\ table(t.req.kind) = "member" /\ end(t)
  BY DEF memberBatch
<1>2. SUFFICES ASSUME ~(UNCHANGED rows)
               PROVE  /\ ~receipt(t) /\ memberEvidence(t)
                      /\ UNCHANGED founder
                      /\ record(t, u, standing(t.seen), standing(m))
                      /\ \/ /\ matches(t) /\ t.at >= members[u].updated /\ floorKept(t)
                            /\ members' = [members EXCEPT ![u] = m]
                            /\ invitations' = [i \in Invitations |->
                                 IF i \in cascade(t) THEN [invitations[i] EXCEPT !.status = "revoked"]
                                 ELSE invitations[i]]
                         \/ members[u] = m /\ UNCHANGED <<members, invitations>>
  BY <1>1
<1>3. /\ ~receipt(t) /\ memberEvidence(t) /\ UNCHANGED founder
      /\ record(t, u, standing(t.seen), standing(m))
      /\ members' = [members EXCEPT ![u] = m]
      /\ invitations' = [i \in Invitations |->
           IF i \in cascade(t) THEN [invitations[i] EXCEPT !.status = "revoked"]
           ELSE invitations[i]]
      /\ \/ matches(t) /\ t.at >= members[u].updated /\ floorKept(t)
         \/ members[u] = m
  BY <1>2, Zenon DEF memberBatch, reject
<1>4. CASE members[u] = m
  <2>1. cascade(t) = {}
    BY <1>1, <1>4, SameCascadesNothing
  <2>2. members \in [Users -> MemberRow] /\ invitations \in [Invitations -> InvitationRow]
    BY DEF Inv, Typed
  <2>3. UNCHANGED <<members, invitations>>
    BY <1>3, <1>4, <2>1, <2>2
  <2> QED
    BY <1>3, <1>4, <2>3
<1> QED
  BY <1>3, <1>4

LEMMA MemberKeeps ==
  ASSUME D1InstanceConstants, Inv, NEW t \in calls, memberBatch(t)
  PROVE  Inv'
PROOF
<1> DEFINE u == t.req.subject
<1> PICK m : m = changed(t)
  OBVIOUS
<1>1. t.pc = "batch" /\ table(t.req.kind) = "member"
  BY MemberBatch
<1>2. end(t) /\ calls' = calls \ {t} /\ UNCHANGED <<now, begun>>
  BY DEF memberBatch, end
<1>3. /\ u \in Users /\ t.at <= now /\ t.at \in Nat /\ now \in Nat
      /\ t.seen \in MemberRow /\ t.seen.role \in Roles /\ t.seen.status \in {"active", "suspended"}
      /\ m.updated = t.at /\ m \in MemberRow
      /\ m.role \in Roles /\ m.status \in {"active", "suspended"}
  BY <1>1, Changing
<1>4. ASSUME record(t, u, standing(t.seen), standing(m)) PROVE log' \in Seq(Receipt)
  BY <1>3, <1>4, Standings, Logged
<1>5. CASE /\ record(t, u, standing(t.seen), standing(m))
           /\ UNCHANGED <<members, invitations, founder>>
  BY <1>2, <1>4, <1>5, ReceiptKeeps
<1>6. CASE /\ UNCHANGED founder
           /\ record(t, u, standing(t.seen), standing(m))
           /\ matches(t) /\ t.at >= members[u].updated /\ floorKept(t)
           /\ members' = [members EXCEPT ![u] = m]
           /\ invitations' = [i \in Invitations |->
                IF i \in cascade(t) THEN [invitations[i] EXCEPT !.status = "revoked"]
                ELSE invitations[i]]
  <2>1. \A i \in Invitations :
          /\ invitations'[i] \in InvitationRow
          /\ i \notin cascade(t) => invitations'[i] = invitations[i]
          /\ i \in cascade(t) => /\ invitations[i].status = "pending"
                                 /\ invitations'[i].status = "revoked"
                                 /\ invitations'[i].by = invitations[i].by
                                 /\ invitations'[i].to = invitations[i].to
                                 /\ invitations'[i].role = invitations[i].role
    <3> SUFFICES ASSUME NEW i \in Invitations
                 PROVE  /\ invitations'[i] \in InvitationRow
                        /\ i \notin cascade(t) => invitations'[i] = invitations[i]
                        /\ i \in cascade(t) => /\ invitations[i].status = "pending"
                                               /\ invitations'[i].status = "revoked"
                                               /\ invitations'[i].by = invitations[i].by
                                               /\ invitations'[i].to = invitations[i].to
                                               /\ invitations'[i].role = invitations[i].role
      OBVIOUS
    <3> DEFINE row == [invitations[i] EXCEPT !.status = "revoked"]
    <3>1. /\ invitations[i] \in InvitationRow
          /\ invitations'[i] = IF i \in cascade(t) THEN row ELSE invitations[i]
      BY <1>6 DEF Inv, Typed
    <3>2. /\ row \in InvitationRow /\ row.status = "revoked" /\ row.by = invitations[i].by
          /\ row.to = invitations[i].to /\ row.role = invitations[i].role
      BY <3>1 DEF InvitationRow
    <3>3. i \in cascade(t) => invitations[i].status = "pending"
      BY DEF cascade, live
    <3> HIDE DEF row
    <3> QED
      BY <3>1, <3>2, <3>3
  <2>2. invitations' \in [Invitations -> InvitationRow]
    BY <1>6, <2>1
  <2>3. \A x \in Users : members'[x] = IF x = u THEN m ELSE members[x]
    BY <1>6 DEF Inv, Typed
  <2>4. calls' \subseteq Call /\ \A v \in calls' : Knows(v)'
    BY <1>2, OthersKnow
  <2>5. Typed'
    BY <1>2, <1>3, <1>4, <1>6, <2>2, <2>4 DEF Inv, Typed
  <2>6. \A i \in Invitations : live(i, now)' => live(i, now)
    BY <1>2, <2>1 DEF live
  <2>7. /\ members[u].role = t.seen.role /\ members[u].status = t.seen.status /\ isMember(u)
        /\ \A x \in Users : isMember(x)' = isMember(x)
    <3>1. members[u].role = t.seen.role /\ members[u].status = t.seen.status
      BY <1>6 DEF matches, standing
    <3> QED
      BY <1>3, <2>3, <3>1 DEF isMember, Roles
  <2>8. Rows'
    <3>1. \A i \in Invitations :
            IF invitations'[i].status = "absent" THEN invitations'[i] = NoInvitation
            ELSE /\ invitations'[i].by \in Users /\ isMember(invitations[i].by)
                 /\ invitations'[i].by = invitations[i].by
                 /\ invitations'[i].to \in Users /\ invitations'[i].role \in Roles
      BY <2>1 DEF Inv, Rows
    <3>2. \A x \in Users :
            /\ isMember(x)' <=> members'[x].status # "none"
            /\ isMember(x)' => founder' # None
            /\ members'[x].updated <= now'
      BY <1>2, <1>3, <1>6, <2>3, <2>7 DEF Inv, Rows, isMember, Roles
    <3>3. founder' # None => isMember(founder)'
      BY <1>6, <2>7 DEF Inv, Rows, Typed, isMember
    <3> QED
      BY <2>7, <3>1, <3>2, <3>3 DEF Rows, isMember
  <2>9. Covered'
    <3> SUFFICES ASSUME NEW i \in Invitations, invitations'[i].status = "pending"
                 PROVE  \/ entitled(members'[invitations'[i].by], invitations'[i].role)
                        \/ invitations'[i].expires <= members'[invitations'[i].by].updated
      BY DEF Covered, entitled
    <3>1. i \notin cascade(t) /\ invitations'[i] = invitations[i] /\ invitations[i].by \in Users
      BY <2>1 DEF Inv, Rows
    <3>2. CASE invitations[i].by # u
      BY <2>3, <3>1, <3>2 DEF Inv, Covered
    <3>3. CASE invitations[i].by = u
      <4>1. members'[u] = m /\ invitations[i].expires \in Nat
        BY <1>3, <2>3 DEF Inv, Typed, InvitationRow
      <4>2. CASE invitations[i].expires <= t.at
        BY <1>3, <3>1, <3>3, <4>1, <4>2
      <4>3. CASE ~(invitations[i].expires <= t.at)
        <5>1. live(i, t.at)
          BY <1>3, <3>1, <4>1, <4>3 DEF live
        <5>2. entitled(m, invitations[i].role)
          BY <1>1, <1>6, <3>1, <3>3, <5>1, CascadeIsLost
        <5> QED
          BY <3>1, <3>3, <4>1, <5>2
      <4> QED
        BY <4>2, <4>3
    <3> QED
      BY <3>2, <3>3
  <2>10. OwnerKept'
    <3>1. owners \ {u} \subseteq owners'
      BY <2>3 DEF owners
    <3>2. CASE u \notin owners
      BY <1>6, <3>1, <3>2 DEF Inv, OwnerKept
    <3>3. CASE u \in owners /\ unseats(t)
      BY <1>6, <3>1, <3>3 DEF floorKept, OwnerKept
    <3>4. CASE u \in owners /\ ~unseats(t)
      <4>1. m.role = "owner" /\ m.status = "active"
        BY <3>4 DEF unseats
      <4>2. u \in owners'
        BY <1>3, <2>3, <4>1 DEF owners
      <4> QED
        BY <4>2 DEF OwnerKept
    <3> QED
      BY <3>2, <3>3, <3>4
  <2> QED
    BY <1>2, <2>4, <2>5, <2>6, <2>8, <2>9, <2>10, StillCapped DEF Inv
<1> QED
  BY <1>2, <1>5, <1>6, MemberBatch, RejectKeeps

-----------------------------------------------------------------------------
LEMMA InitInv ==
  ASSUME D1InstanceConstants, Init
  PROVE  Inv
PROOF
<1>1. /\ \A u \in Users : members[u] = IF u \in Founders
                            THEN [role |-> "owner", status |-> "active", updated |-> 0]
                            ELSE NoMember
      /\ \A i \in Invitations : invitations[i] = NoInvitation
      /\ Founders \subseteq Users /\ MaxTime \in Nat /\ MaxPending \in Nat
      /\ \A u \in Users : u # None
  BY DEF Init, D1InstanceConstants, None
<1>2. founder \in Users \cup {None} /\ (founder # None => founder \in Founders)
      /\ (Founders # {} => founder # None)
  BY <1>1 DEF Init
<1>3. Typed
  BY <1>1, <1>2 DEF Init, Typed, MemberRow, InvitationRow, NoMember, NoInvitation, Roles, None
<1>4. \A t \in calls : Knows(t)
  BY DEF Init
<1>5. Rows /\ Covered
  <2>1. \A i \in Invitations : invitations[i].status = "absent"
    BY <1>1 DEF NoInvitation
  <2>2. \A u \in Users : /\ isMember(u) <=> members[u].status # "none"
                         /\ isMember(u) <=> u \in Founders
                         /\ members[u].updated <= now
    BY <1>1 DEF Init, isMember, NoMember
  <2> QED
    BY <1>1, <1>2, <2>1, <2>2 DEF Rows, Covered
<1>6. OwnerKept
  BY <1>1, <1>2 DEF OwnerKept, owners
<1>7. PendingCapped
  <2>1. {i \in Invitations : live(i, now)} = {}
    BY DEF Init, live, NoInvitation
  <2> QED
    BY <1>1, <2>1, FS_EmptySet DEF PendingCapped, pendingCount
<1> QED
  BY <1>3, <1>4, <1>5, <1>6, <1>7 DEF Inv

\* Only the five batches write a row.
LEMMA Batches ==
  ASSUME D1InstanceConstants, Inv, [Next]_vars
  PROVE  UNCHANGED rows
         \/ \E t \in calls : \/ bootstrapBatch(t) \/ createBatch(t) \/ acceptBatch(t)
                             \/ revokeBatch(t) \/ memberBatch(t)
PROOF
<1>1. UNCHANGED vars => UNCHANGED rows
  BY DEF vars
<1> QED
  BY <1>1, BeginKeeps, GateKeeps, TickKeeps DEF Next

LEMMA StepInv ==
  ASSUME D1InstanceConstants, Inv, [Next]_vars
  PROVE  Inv'
PROOF
<1>1. CASE UNCHANGED vars
  <2>1. UNCHANGED rows /\ calls' = calls /\ now' = now /\ begun' = begun
    BY <1>1 DEF vars
  <2>2. calls' \subseteq Call /\ begun' \in Nat /\ \A v \in calls' : Knows(v)'
    BY <2>1 DEF Inv, Typed, Knows
  <2> QED
    BY <2>1, <2>2, QuietKeeps
<1> QED
  BY <1>1, BeginKeeps, GateKeeps, TickKeeps, BootstrapKeeps, CreateKeeps, AcceptKeeps,
     RevokeKeeps, MemberKeeps
  DEF Next

LEMMA SpecInv == D1InstanceConstants => (Spec => []Inv)
PROOF
<1>1. D1InstanceConstants /\ Init => Inv
  BY InitInv
<1>2. D1InstanceConstants /\ Inv /\ [Next]_vars => Inv'
  BY StepInv
<1>3. D1InstanceConstants => D1InstanceConstants'
  BY DEF D1InstanceConstants, wellFormed
<1>4. D1InstanceConstants => []D1InstanceConstants
  BY <1>3, PTL
<1> QED
  BY <1>1, <1>2, <1>4, PTL DEF Spec

-----------------------------------------------------------------------------
\* Once bootstrapped, an instance keeps an active owner, although the gates of
\* owners that demote and suspend each other all count before any batch runs.
THEOREM OwnerAlwaysKept == D1InstanceConstants => (Spec => []OwnerKept)
BY SpecInv, PTL DEF Inv

\* There are never more invitations out than MAX_PENDING_INSTANCE_INVITATIONS,
\* however many gates counted at the same time.
THEOREM PendingAlwaysCapped == D1InstanceConstants => (Spec => []PendingCapped)
BY SpecInv, PTL DEF Inv

LEMMA CoveredEntitles == Inv => InvitersEntitled
PROOF
<1> SUFFICES ASSUME Inv, NEW i \in Invitations, live(i, now)
             PROVE  entitled(members[invitations[i].by], invitations[i].role)
  BY DEF InvitersEntitled
<1> DEFINE by == invitations[i].by
<1>1. invitations[i].status = "pending" /\ invitations[i].expires > now
      /\ invitations[i].expires \in Nat /\ now \in Nat
  BY DEF live, Inv, Typed, InvitationRow
<1>2. by \in Users /\ members[by].updated <= now /\ members[by].updated \in Nat
  BY <1>1 DEF Inv, Rows, Typed, MemberRow
<1>3. entitled(members[by], invitations[i].role) \/ invitations[i].expires <= members[by].updated
  BY <1>1, <1>2 DEF Inv, Covered
<1> QED
  BY <1>1, <1>2, <1>3

\* Whoever may no longer invite has no invitation out that has time left, for
\* any number of batches between a creator's gate and its batch.
THEOREM InvitersAlwaysEntitled == D1InstanceConstants => (Spec => []InvitersEntitled)
BY SpecInv, CoveredEntitles, PTL

-----------------------------------------------------------------------------
(***************************************************************************)
(* The history in the receipts.                                            *)
(***************************************************************************)

LEMMA ReceiptsTyped ==
  ASSUME Inv
  PROVE  /\ log \in Seq(Receipt) /\ Len(log) \in Nat /\ DOMAIN log = 1..Len(log)
         /\ \A n \in DOMAIN log : /\ log[n].user \in Users \cup {None} /\ log[n].kind \in Kinds
                                  /\ log[n].actor \in Users
PROOF
<1>1. log \in Seq(Receipt) /\ Len(log) \in Nat /\ DOMAIN log = 1..Len(log)
  BY DEF Inv, Typed
<1>2. \A n \in DOMAIN log : log[n] \in Receipt
  BY <1>1
<1> QED
  BY <1>1, <1>2 DEF Receipt

\* One receipt more: it tells what happened, or that it had happened already
\* in the same instant.
LEMMA ReceiptsGrow ==
  ASSUME D1InstanceConstants, Inv, Explained, NEW t \in calls,
         NEW user \in Users \cup {None}, NEW before \in Standing, NEW after \in Standing,
         record(t, user, before, after),
         user \in Users =>
           /\ after = standing(members'[user]) /\ t.at = members'[user].updated
           /\ \/ before = standing(members[user])
              \/ after = standing(members[user]) /\ t.at = members[user].updated,
         \A x \in Users : x # user => members'[x] = members[x]
  PROVE  Explained'
PROOF
<1>0. PICK L : L = Len(log)
  OBVIOUS
<1>e. PICK e : e = entry(t, user, before, after)
  OBVIOUS
<1>1. /\ log \in Seq(Receipt) /\ L \in Nat /\ DOMAIN log = 1..L
      /\ log' \in Seq(Receipt) /\ Len(log') = L + 1 /\ DOMAIN log' = 1..(L + 1)
      /\ \A n \in 1..L : log'[n] = log[n]
      /\ log'[L + 1] = e
  <2>1. log \in Seq(Receipt) /\ L \in Nat /\ DOMAIN log = 1..L
    BY <1>0, ReceiptsTyped
  <2>2. /\ log' \in Seq(Receipt) /\ Len(log') = L + 1 /\ \A n \in DOMAIN log : log'[n] = log[n]
        /\ log'[L + 1] = e
    BY <1>0, <1>e, Logged
  <2>3. DOMAIN log' = 1..(L + 1)
    BY <2>1, <2>2
  <2> QED
    BY <2>1, <2>2, <2>3
<1>2. e.user = user /\ e.before = before /\ e.after = after /\ e.at = t.at
  BY <1>e DEF entry
<1>3. \A n \in 1..L : log[n].user \in Users \cup {None}
  BY <1>1, ReceiptsTyped
<1>4. ASSUME NEW n \in 1..(L + 1), NEW m \in 1..(n - 1),
             log'[m].user = log'[n].user, log'[n].user \in Users,
             \A k \in (m + 1)..(n - 1) : log'[k].user # log'[n].user
      PROVE  \/ log'[n].before = log'[m].after
             \/ log'[n].after = log'[m].after /\ log'[n].at = log'[m].at
  <2>1. m \in 1..L /\ log'[m] = log[m]
    BY <1>1
  <2>2. CASE n \in 1..L
    <3>1. log'[n] = log[n] /\ \A k \in (m + 1)..(n - 1) : log[k].user # log[n].user
      BY <1>1, <1>4, <2>2
    <3>2. log[m].user = log[n].user /\ log[n].user \in Users
      BY <1>4, <2>1, <3>1
    <3>3. \/ log[n].before = log[m].after
          \/ log[n].after = log[m].after /\ log[n].at = log[m].at
      BY <1>1, <2>2, <3>1, <3>2 DEF Explained
    <3> QED
      BY <2>1, <3>1, <3>3
  <2>3. CASE n = L + 1
    <3>1. log'[n] = e /\ log[m].user = user /\ user \in Users
      BY <1>1, <1>2, <1>4, <2>1, <2>3
    <3>2. \A k \in (m + 1)..L : log[k].user # log[m].user
      BY <1>1, <1>2, <1>4, <2>1, <2>3, <3>1
    <3>3. log[m].after = standing(members[user]) /\ log[m].at = members[user].updated
      BY <1>0, <1>1, <2>1, <3>1, <3>2 DEF Explained
    <3> QED
      BY <1>2, <2>1, <3>1, <3>3
  <2> QED
    BY <1>1, <2>2, <2>3
<1>5. ASSUME NEW n \in 1..(L + 1), log'[n].user \in Users,
             \A k \in (n + 1)..(L + 1) : log'[k].user # log'[n].user
      PROVE  /\ log'[n].after = standing(members'[log'[n].user])
             /\ log'[n].at = members'[log'[n].user].updated
  <2>1. CASE n = L + 1
    BY <1>1, <1>2, <1>5, <2>1
  <2>2. CASE n \in 1..L
    <3>1. log'[n] = log[n] /\ log[n].user \in Users
      BY <1>1, <1>5, <2>2
    <3>2. log[n].user # user
      BY <1>1, <1>2, <1>5, <2>2
    <3>3. \A k \in (n + 1)..L : log[k].user # log[n].user
      BY <1>1, <1>5, <2>2
    <3>4. /\ log[n].after = standing(members[log[n].user])
          /\ log[n].at = members[log[n].user].updated
      BY <1>0, <1>1, <2>2, <3>1, <3>3 DEF Explained
    <3> QED
      BY <3>1, <3>2, <3>4
  <2> QED
    BY <1>1, <2>1, <2>2
<1>6. \A n \in DOMAIN log' : log'[n].user \in Users =>
        /\ \A m \in 1..(n - 1) :
             /\ log'[m].user = log'[n].user
             /\ \A k \in (m + 1)..(n - 1) : log'[k].user # log'[n].user
             => \/ log'[n].before = log'[m].after
                \/ log'[n].after = log'[m].after /\ log'[n].at = log'[m].at
        /\ (\A k \in (n + 1)..Len(log') : log'[k].user # log'[n].user) =>
             /\ log'[n].after = standing(members'[log'[n].user])
             /\ log'[n].at = members'[log'[n].user].updated
  BY <1>1, <1>4, <1>5
<1> QED
  BY <1>6 DEF Explained, standing

\* Nothing was written.
LEMMA QuietHistory ==
  ASSUME History, UNCHANGED rows
  PROVE  History'
PROOF
<1>1. Explained'
  BY DEF History, Explained, rows, standing
<1>2. Enrolled'
  BY DEF History, Enrolled, rows, isMember, accepted, founded
<1> QED
  BY <1>1, <1>2 DEF History

\* A receipt that does not enrol a founder founds nobody.
LEMMA FoundedStays ==
  ASSUME D1InstanceConstants, Inv, NEW t \in calls,
         NEW user \in Users \cup {None}, NEW before \in Standing, NEW after \in Standing,
         record(t, user, before, after), t.req.kind # "bootstrap" \/ user = None
  PROVE  /\ \A u \in Users : founded(u)' = founded(u)
         /\ \A n \in DOMAIN log : n \in DOMAIN log'
PROOF
<1>1. /\ log \in Seq(Receipt) /\ log' \in Seq(Receipt) /\ Len(log') = Len(log) + 1
      /\ \A n \in DOMAIN log : n \in DOMAIN log' /\ log'[n] = log[n]
      /\ log'[Len(log) + 1] = entry(t, user, before, after)
  BY Logged DEF Inv, Typed
<1>2. \A u \in Users : ~(log'[Len(log) + 1].kind = "bootstrap" /\ log'[Len(log) + 1].user = u)
  BY <1>1 DEF entry, D1InstanceConstants, None
<1>3. \A n \in DOMAIN log' : n \in DOMAIN log \/ n = Len(log) + 1
  BY <1>1
<1> QED
  BY <1>1, <1>2, <1>3 DEF founded

\* A receipt of no member.
LEMMA ReceiptHistory ==
  ASSUME D1InstanceConstants, Inv, History, NEW t \in calls,
         record(t, None, Nothing, Nothing), UNCHANGED members,
         \A i \in Invitations :
           /\ invitations'[i].acceptedBy = invitations[i].acceptedBy
           /\ invitations[i].acceptedBy # None =>
                /\ invitations'[i].to = invitations[i].to
                /\ invitations'[i].status = invitations[i].status
  PROVE  History'
PROOF
<1>1. \A x \in Users : x # None
  BY DEF D1InstanceConstants, None
<1>2. None \in Users \cup {None} /\ Nothing \in Standing
  BY NothingStands
<1>3. Explained'
  BY <1>1, <1>2, ReceiptsGrow DEF History
<1>4. \A x \in Users : accepted(x)' = accepted(x) /\ isMember(x)' = isMember(x)
  BY DEF accepted, isMember
<1>5. /\ \A x \in Users : founded(x)' = founded(x)
      /\ \A n \in DOMAIN log : n \in DOMAIN log'
  BY <1>2, FoundedStays
<1>6. Founders \subseteq Users
  BY DEF D1InstanceConstants
<1>7. Enrolled'
  BY <1>4, <1>5, <1>6 DEF History, Enrolled
<1> QED
  BY <1>3, <1>7 DEF History

LEMMA BootstrapHistory ==
  ASSUME D1InstanceConstants, Inv, History, NEW t \in calls, bootstrapBatch(t)
  PROVE  History'
PROOF
<1> DEFINE u == t.req.actor
<1> PICK m : m = [role |-> "owner", status |-> "active", updated |-> t.at]
  OBVIOUS
<1>1. u \in Users /\ t.req.kind = "bootstrap" /\ t.at \in 0..MaxTime /\ u # None
  BY Request DEF bootstrapBatch, batchOf
<1>2. CASE record(t, None, Nothing, Nothing) /\ UNCHANGED <<members, invitations>>
  BY <1>2, ReceiptHistory
<1>3. CASE /\ founder = None /\ \A v \in Users : ~isMember(v)
           /\ members' = [members EXCEPT ![u] = m]
           /\ record(t, u, standing(members[u]), standing(m))
           /\ UNCHANGED <<invitations, revocations>>
  <2>1. m \in MemberRow /\ members[u] \in MemberRow
    BY <1>1 DEF MemberRow, Inv, Typed, Roles
  <2>2. standing(m) \in Standing /\ standing(members[u]) \in Standing
    BY <2>1, Standings
  <2>3. \A x \in Users : members'[x] = IF x = u THEN m ELSE members[x]
    BY <1>3 DEF Inv, Typed
  <2>4. PICK L : L = Len(log)
    OBVIOUS
  <2>5. /\ L \in Nat /\ DOMAIN log = 1..L /\ DOMAIN log' = 1..(L + 1)
        /\ \A n \in 1..L : log'[n] = log[n]
        /\ log'[L + 1].kind = "bootstrap" /\ log'[L + 1].user = u
    <3>1. log \in Seq(Receipt) /\ L \in Nat /\ DOMAIN log = 1..L
      BY <2>4, ReceiptsTyped
    <3>2. /\ log' \in Seq(Receipt) /\ Len(log') = L + 1 /\ \A n \in DOMAIN log : log'[n] = log[n]
          /\ log'[L + 1] = entry(t, u, standing(members[u]), standing(m))
      BY <1>1, <1>3, <2>2, <2>4, Logged
    <3>3. DOMAIN log' = 1..(L + 1)
      BY <3>1, <3>2
    <3> QED
      BY <1>1, <3>1, <3>2, <3>3 DEF entry
  <2>6. Explained'
    <3>1. /\ standing(m) = standing(members'[u]) /\ t.at = members'[u].updated
          /\ \A x \in Users : x # u => members'[x] = members[x]
      BY <1>1, <2>3
    <3> QED
      BY <1>1, <1>3, <2>2, <3>1, ReceiptsGrow DEF History
  <2>7. \A x \in Users : accepted(x) = {} /\ founded(x) = {} /\ x \notin Founders
    BY <1>3 DEF History, Enrolled
  <2>8. \A x \in Users : founded(x)' = IF x = u THEN {L + 1} ELSE {}
    <3>1. \A x \in Users, n \in 1..L : ~(log'[n].kind = "bootstrap" /\ log'[n].user = x)
      BY <2>5, <2>7 DEF founded
    <3>2. \A n \in DOMAIN log' : n \in 1..L \/ n = L + 1
      BY <2>5
    <3> QED
      BY <1>1, <2>5, <3>1, <3>2 DEF founded
  <2>9. \A x \in Users : accepted(x)' = {}
    BY <1>3, <2>7 DEF accepted
  <2>10. \A x \in Users : isMember(x)' <=> x = u
    BY <1>3, <2>3 DEF isMember
  <2>11. \A x \in Users :
           IF ~isMember(x)' \/ x \in Founders THEN accepted(x)' = {} /\ founded(x)' = {}
           ELSE accepted(x)' = {} /\ \E n \in DOMAIN log' : founded(x)' = {n}
    <3>1. L + 1 \in DOMAIN log'
      BY <2>5
    <3> QED
      BY <2>7, <2>8, <2>9, <2>10, <3>1
  <2>12. \A x \in Founders : FALSE
    BY <2>7 DEF D1InstanceConstants
  <2>13. \A i \in Invitations :
           invitations'[i].acceptedBy # None =>
             invitations'[i].status = "accepted"
             /\ invitations'[i].acceptedBy = invitations'[i].to
    BY <1>3 DEF History, Enrolled
  <2>14. Enrolled'
    BY <2>11, <2>12, <2>13 DEF Enrolled
  <2> QED
    BY <2>6, <2>14 DEF History
<1> QED
  BY <1>2, <1>3, QuietHistory DEF bootstrapBatch, reject, Nothing

LEMMA CreateHistory ==
  ASSUME D1InstanceConstants, Inv, History, NEW t \in calls, createBatch(t)
  PROVE  History'
PROOF
<1> DEFINE s == t.req.subject
           inv == [status |-> "pending", role |-> t.req.arg, by |-> t.req.actor, to |-> t.req.to,
                   expires |-> t.at + 1, acceptedBy |-> None]
<1>1. s \in Invitations
  BY Request DEF createBatch, batchOf, wellFormed
<1>2. SUFFICES ASSUME invitations[s].status = "absent",
                      invitations' = [invitations EXCEPT ![s] = inv],
                      record(t, None, Nothing, Nothing),
                      UNCHANGED members
               PROVE  History'
  BY QuietHistory DEF createBatch, reject, Nothing
<1>3. \A i \in Invitations : invitations'[i] = IF i = s THEN inv ELSE invitations[i]
  BY <1>2 DEF Inv, Typed
<1>4. invitations[s].acceptedBy = None
  BY <1>1, <1>2 DEF History, Enrolled
<1> QED
  BY <1>2, <1>3, <1>4, ReceiptHistory

LEMMA RevokeHistory ==
  ASSUME D1InstanceConstants, Inv, History, NEW t \in calls, revokeBatch(t)
  PROVE  History'
PROOF
<1> DEFINE s == t.req.subject
<1>1. s \in Invitations
  BY Request DEF revokeBatch, batchOf, wellFormed
<1>2. CASE record(t, None, Nothing, Nothing) /\ UNCHANGED <<members, invitations>>
  BY <1>2, ReceiptHistory
<1>3. CASE /\ invitations[s].status = "pending"
           /\ invitations' = [invitations EXCEPT ![s].status = "revoked"]
           /\ record(t, None, Nothing, Nothing)
           /\ UNCHANGED members
  <2>1. \A i \in Invitations :
          /\ invitations'[i].acceptedBy = invitations[i].acceptedBy
          /\ invitations'[i].to = invitations[i].to
          /\ invitations'[i].status = IF i = s THEN "revoked" ELSE invitations[i].status
    BY <1>1, <1>3 DEF Inv, Typed, InvitationRow
  <2>2. invitations[s].acceptedBy = None
    BY <1>1, <1>3 DEF History, Enrolled
  <2> QED
    BY <1>3, <2>1, <2>2, ReceiptHistory
<1> QED
  BY <1>2, <1>3, QuietHistory DEF revokeBatch, reject, Nothing

LEMMA AcceptHistory ==
  ASSUME D1InstanceConstants, Inv, History, NEW t \in calls, acceptBatch(t)
  PROVE  History'
PROOF
<1> DEFINE u == t.req.actor
           s == t.req.subject
<1> PICK m : m = [role |-> invitations[s].role, status |-> "active", updated |-> t.at]
  OBVIOUS
<1>1. /\ u \in Users /\ s \in Invitations /\ t.req.kind = "accept" /\ u # None
      /\ t.at \in 0..MaxTime
  BY Request DEF acceptBatch, batchOf, wellFormed
<1>2. SUFFICES ASSUME enrols(t), members' = [members EXCEPT ![u] = m],
                      invitations' = [invitations EXCEPT ![s].status = "accepted",
                                                         ![s].acceptedBy = u],
                      record(t, u, standing(members[u]), standing(m))
               PROVE  History'
  BY QuietHistory DEF acceptBatch, reject
<1>3. /\ invitations[s].status = "pending" /\ invitations[s].role \in Roles
      /\ invitations[s].to = u /\ ~isMember(u)
  BY <1>1, <1>2 DEF enrols, live, Inv, Rows
<1>4. m \in MemberRow /\ members[u] \in MemberRow
  BY <1>1, <1>3 DEF MemberRow, Inv, Typed
<1>5. standing(m) \in Standing /\ standing(members[u]) \in Standing
  BY <1>4, Standings
<1>6. /\ \A x \in Users : members'[x] = IF x = u THEN m ELSE members[x]
      /\ \A i \in Invitations :
           /\ invitations'[i].to = invitations[i].to
           /\ invitations'[i].acceptedBy = IF i = s THEN u ELSE invitations[i].acceptedBy
           /\ invitations'[i].status = IF i = s THEN "accepted" ELSE invitations[i].status
  BY <1>1, <1>2 DEF Inv, Typed, InvitationRow
<1>7. Explained'
  <2>1. /\ standing(m) = standing(members'[u]) /\ t.at = members'[u].updated
        /\ \A x \in Users : x # u => members'[x] = members[x]
    BY <1>1, <1>6
  <2> QED
    BY <1>1, <1>2, <1>5, <2>1, ReceiptsGrow DEF History
<1>8. \A x \in Users : isMember(x)' <=> x = u \/ isMember(x)
  BY <1>3, <1>6 DEF isMember, Roles
<1>9. invitations[s].acceptedBy = None
  BY <1>1, <1>3 DEF History, Enrolled
<1>10. accepted(u) = {} /\ founded(u) = {} /\ u \notin Founders
  BY <1>1, <1>3 DEF History, Enrolled
<1>11. accepted(u)' = {s} /\ \A x \in Users : x # u => accepted(x)' = accepted(x)
  <2>1. accepted(u)' = {s}
    BY <1>1, <1>6, <1>10 DEF accepted
  <2>2. ASSUME NEW x \in Users, x # u PROVE accepted(x)' = accepted(x)
    <3>1. x # None
      BY DEF D1InstanceConstants, None
    <3> QED
      BY <1>1, <1>6, <1>9, <2>2, <3>1 DEF accepted
  <2> QED
    BY <2>1, <2>2
<1>12. /\ \A x \in Users : founded(x)' = founded(x)
       /\ \A n \in DOMAIN log : n \in DOMAIN log'
  BY <1>1, <1>2, <1>5, FoundedStays
<1>13. Enrolled'
  <2>1. \A x \in Users :
          IF ~isMember(x)' \/ x \in Founders THEN accepted(x)' = {} /\ founded(x)' = {}
          ELSE \/ founded(x)' = {} /\ \E i \in Invitations : accepted(x)' = {i}
               \/ accepted(x)' = {} /\ \E n \in DOMAIN log' : founded(x)' = {n}
    <3> SUFFICES ASSUME NEW x \in Users
                 PROVE  IF ~isMember(x)' \/ x \in Founders
                        THEN accepted(x)' = {} /\ founded(x)' = {}
                        ELSE \/ founded(x)' = {} /\ \E i \in Invitations : accepted(x)' = {i}
                             \/ accepted(x)' = {} /\ \E n \in DOMAIN log' : founded(x)' = {n}
      OBVIOUS
    <3>1. CASE x = u
      BY <1>1, <1>8, <1>10, <1>11, <1>12, <3>1
    <3>2. CASE x # u
      BY <1>8, <1>11, <1>12, <3>2 DEF History, Enrolled
    <3> QED
      BY <3>1, <3>2
  <2>2. \A x \in Founders : isMember(x)'
    BY <1>8 DEF History, Enrolled, D1InstanceConstants
  <2>3. \A i \in Invitations :
          invitations'[i].acceptedBy # None =>
            invitations'[i].status = "accepted"
            /\ invitations'[i].acceptedBy = invitations'[i].to
    BY <1>3, <1>6 DEF History, Enrolled
  <2> QED
    BY <2>1, <2>2, <2>3 DEF Enrolled
<1> QED
  BY <1>7, <1>13 DEF History

LEMMA MemberHistory ==
  ASSUME D1InstanceConstants, Inv, History, NEW t \in calls, memberBatch(t)
  PROVE  History'
PROOF
<1> DEFINE u == t.req.subject
<1> PICK m : m = changed(t)
  OBVIOUS
<1>1. t.pc = "batch" /\ table(t.req.kind) = "member"
  BY MemberBatch
<1>2. /\ u \in Users /\ t.req.kind # "bootstrap" /\ t.seen \in MemberRow /\ t.seen.role \in Roles
      /\ m.role \in Roles /\ m \in MemberRow /\ m.updated = t.at
  BY <1>1, Changing
<1>3. standing(t.seen) \in Standing /\ standing(m) \in Standing
  BY <1>2, Standings
<1>4. CASE UNCHANGED rows
  BY <1>4, QuietHistory
<1>5. CASE /\ record(t, u, standing(t.seen), standing(m))
           /\ \/ matches(t) /\ members' = [members EXCEPT ![u] = m]
              \/ members[u] = m /\ UNCHANGED members
           /\ \/ invitations' = [i \in Invitations |->
                   IF i \in cascade(t) THEN [invitations[i] EXCEPT !.status = "revoked"]
                   ELSE invitations[i]]
              \/ UNCHANGED invitations
  <2>1. members \in [Users -> MemberRow] /\ \A x \in Users : members'[x] = IF x = u THEN m ELSE members[x]
    BY <1>5 DEF Inv, Typed
  <2>2. Explained'
    <3>1. /\ standing(m) = standing(members'[u]) /\ t.at = members'[u].updated
          /\ \A x \in Users : x # u => members'[x] = members[x]
      BY <1>2, <2>1
    <3>2. \/ standing(t.seen) = standing(members[u])
          \/ standing(m) = standing(members[u]) /\ t.at = members[u].updated
      BY <1>2, <1>5 DEF matches
    <3>3. record(t, u, standing(t.seen), standing(m)) /\ u \in Users \cup {None}
      BY <1>2, <1>5
    <3> QED
      BY <1>3, <3>1, <3>2, <3>3, ReceiptsGrow DEF History
  <2>3. \A i \in Invitations :
          /\ invitations'[i].acceptedBy = invitations[i].acceptedBy
          /\ invitations'[i].to = invitations[i].to
          /\ invitations[i].status = "accepted" => invitations'[i].status = "accepted"
    <3> TAKE i \in Invitations
    <3> DEFINE row == [invitations[i] EXCEPT !.status = "revoked"]
    <3>1. invitations[i] \in InvitationRow
      BY DEF Inv, Typed
    <3>2. invitations'[i] = invitations[i] \/ (i \in cascade(t) /\ invitations'[i] = row)
      BY <1>5
    <3>3. row.acceptedBy = invitations[i].acceptedBy /\ row.to = invitations[i].to
      BY <3>1 DEF InvitationRow
    <3>4. i \in cascade(t) => invitations[i].status = "pending"
      BY DEF cascade, live
    <3> HIDE DEF row
    <3> QED
      BY <3>2, <3>3, <3>4
  <2>4. \A x \in Users : isMember(x)' = isMember(x)
    <3>1. isMember(u)
      BY <1>2, <1>5 DEF matches, standing, isMember, Roles
    <3> QED
      BY <1>2, <2>1, <3>1 DEF isMember, Roles
  <2>5. \A x \in Users : accepted(x)' = accepted(x)
    BY <2>3 DEF accepted
  <2>6. \A i \in Invitations :
          invitations'[i].acceptedBy # None =>
            invitations'[i].status = "accepted"
            /\ invitations'[i].acceptedBy = invitations'[i].to
    BY <2>3 DEF History, Enrolled
  <2>7. /\ \A x \in Users : founded(x)' = founded(x)
        /\ \A n \in DOMAIN log : n \in DOMAIN log'
    BY <1>2, <1>3, <1>5, FoundedStays
  <2>8. Founders \subseteq Users
    BY DEF D1InstanceConstants
  <2>9. Enrolled'
    BY <2>4, <2>5, <2>6, <2>7, <2>8 DEF History, Enrolled
  <2> QED
    BY <2>2, <2>9 DEF History
<1> QED
  BY <1>4, <1>5, MemberBatch

LEMMA StepHistory ==
  ASSUME D1InstanceConstants, Inv, History, [Next]_vars
  PROVE  History'
BY Batches, QuietHistory, BootstrapHistory, CreateHistory, RevokeHistory, AcceptHistory,
   MemberHistory

LEMMA InitHistory ==
  ASSUME D1InstanceConstants, Init
  PROVE  History
PROOF
<1>1. log = <<>> /\ DOMAIN log = {} /\ Len(log) = 0
  BY DEF Init
<1>2. \A i \in Invitations : invitations[i].acceptedBy = None
  BY DEF Init, NoInvitation
<1>3. \A u \in Users : isMember(u) <=> u \in Founders
  BY DEF Init, isMember, NoMember
<1>4. \A u \in Users : accepted(u) = {} /\ founded(u) = {}
  BY <1>1, <1>2 DEF accepted, founded, D1InstanceConstants, None
<1>5. Enrolled
  BY <1>1, <1>2, <1>3, <1>4 DEF Enrolled, D1InstanceConstants
<1>6. Explained
  BY <1>1 DEF Explained
<1> QED
  BY <1>5, <1>6 DEF History

LEMMA SpecHistory == D1InstanceConstants => (Spec => []History)
PROOF
<1>1. D1InstanceConstants /\ Init => History
  BY InitHistory
<1>2. D1InstanceConstants /\ Inv /\ History /\ [Next]_vars => History'
  BY StepHistory
<1>3. D1InstanceConstants => D1InstanceConstants'
  BY DEF D1InstanceConstants, wellFormed
<1> QED
  BY <1>1, <1>2, <1>3, SpecInv, PTL DEF Spec

LEMMA ExplainedExplains ==
  ASSUME Inv, History
  PROVE  ReceiptsExplain
PROOF
<1> SUFFICES ASSUME NEW n \in DOMAIN log, log[n].user \in Users
             PROVE  /\ \A m \in {m \in 1..(n - 1) : log[m].user = log[n].user} :
                         (\A k \in {k \in 1..(n - 1) : log[k].user = log[n].user} : k <= m) =>
                           \/ log[n].before = log[m].after
                           \/ log[n].after = log[m].after /\ log[n].at = log[m].at
                    /\ {k \in (n + 1)..Len(log) : log[k].user = log[n].user} = {} =>
                         log[n].after = standing(members[log[n].user])
  BY Zenon DEF ReceiptsExplain
<1>1. log \in Seq(Receipt) /\ Len(log) \in Nat /\ n \in 1..Len(log)
  BY ReceiptsTyped
<1>2. ASSUME NEW m \in 1..(n - 1), log[m].user = log[n].user,
             \A k \in {k \in 1..(n - 1) : log[k].user = log[n].user} : k <= m
      PROVE  \/ log[n].before = log[m].after
             \/ log[n].after = log[m].after /\ log[n].at = log[m].at
  <2>1. \A k \in (m + 1)..(n - 1) : log[k].user # log[n].user
    BY <1>1, <1>2
  <2> QED
    BY <1>2, <2>1 DEF History, Explained
<1>3. ASSUME {k \in (n + 1)..Len(log) : log[k].user = log[n].user} = {}
      PROVE  log[n].after = standing(members[log[n].user])
  BY <1>3 DEF History, Explained
<1> QED
  BY <1>2, <1>3

\* The receipts tell the whole history of the members, although a receipt is
\* written from what the gate saw, for any number of concurrent commands.
THEOREM ReceiptsAlwaysExplain == D1InstanceConstants => (Spec => []ReceiptsExplain)
BY SpecInv, SpecHistory, ExplainedExplains, PTL

LEMMA EnrolledCounts ==
  ASSUME D1InstanceConstants, Inv, History
  PROVE  EnrolledOnce
PROOF
<1>1. ASSUME NEW u \in Users
      PROVE  isMember(u) <=>
               u \in Founders \/ Cardinality(accepted(u)) + Cardinality(founded(u)) = 1
  <2>1. CASE ~isMember(u) \/ u \in Founders
    <3>1. accepted(u) = {} /\ founded(u) = {} /\ (u \in Founders => isMember(u))
      BY <2>1 DEF History, Enrolled
    <3>2. Cardinality(accepted(u)) = 0 /\ Cardinality(founded(u)) = 0
      BY <3>1, FS_EmptySet
    <3> QED
      BY <2>1, <3>1, <3>2
  <2>2. CASE isMember(u) /\ u \notin Founders
    <3>1. \/ founded(u) = {} /\ \E i \in Invitations : accepted(u) = {i}
          \/ accepted(u) = {} /\ \E n \in DOMAIN log : founded(u) = {n}
      BY <2>2 DEF History, Enrolled
    <3>2. Cardinality({}) = 0 /\ \A x : Cardinality({x}) = 1
      BY FS_EmptySet, FS_Singleton
    <3>3. \/ Cardinality(accepted(u)) = 1 /\ Cardinality(founded(u)) = 0
          \/ Cardinality(accepted(u)) = 0 /\ Cardinality(founded(u)) = 1
      <4>1. ASSUME NEW S, NEW T, T = {}, NEW x, S = {x}
            PROVE  Cardinality(S) = 1 /\ Cardinality(T) = 0
        BY <3>2, <4>1
      <4> QED
        BY <3>1, <4>1
    <3>4. Cardinality(accepted(u)) + Cardinality(founded(u)) = 1
      BY <3>3
    <3> QED
      BY <2>2, <3>4
  <2> QED
    BY <2>1, <2>2
<1>2. \A i \in Invitations :
        invitations[i].acceptedBy # None =>
          invitations[i].status = "accepted" /\ invitations[i].acceptedBy = invitations[i].to
  BY DEF History, Enrolled
<1> QED
  BY <1>1, <1>2 DEF EnrolledOnce, accepted, founded

\* Every member came in one way only, and an invitation enrols the user it was
\* bound to, for any number of acceptances and bootstraps at the same time.
THEOREM AlwaysEnrolledOnce == D1InstanceConstants => (Spec => []EnrolledOnce)
PROOF
<1>1. D1InstanceConstants /\ Inv /\ History => EnrolledOnce
  BY EnrolledCounts
<1>2. D1InstanceConstants => D1InstanceConstants'
  BY DEF D1InstanceConstants, wellFormed
<1> QED
  BY <1>1, <1>2, SpecInv, SpecHistory, PTL

-----------------------------------------------------------------------------
(***************************************************************************)
(* The abstract governance.                                                *)
(***************************************************************************)

Actors == [n \in DOMAIN log |-> log[n].actor]

LEMMA ActorsGrow ==
  ASSUME D1InstanceConstants, Inv, NEW t \in calls, NEW user \in Users \cup {None},
         NEW before \in Standing, NEW after \in Standing, record(t, user, before, after)
  PROVE  Actors' = Append(Actors, t.req.actor) /\ Actors' # Actors
PROOF
<1>1. /\ log \in Seq(Receipt) /\ Len(log) \in Nat /\ DOMAIN log = 1..Len(log)
      /\ log' \in Seq(Receipt) /\ Len(log') = Len(log) + 1
      /\ \A n \in DOMAIN log : log'[n] = log[n]
      /\ log'[Len(log) + 1].actor = t.req.actor
  <2>1. /\ log' \in Seq(Receipt) /\ Len(log') = Len(log) + 1
        /\ \A n \in DOMAIN log : log'[n] = log[n]
        /\ log'[Len(log) + 1] = entry(t, user, before, after)
    BY Logged
  <2>2. entry(t, user, before, after).actor = t.req.actor
    BY DEF entry
  <2> QED
    BY <2>1, <2>2, ReceiptsTyped
<1>2. DOMAIN log' = 1..(Len(log) + 1)
  BY <1>1
<1>3. t.req.actor \in Users /\ \A n \in DOMAIN log : log[n].actor \in Users
  BY ReceiptsTyped, Request
<1>4. Actors \in Seq(Users) /\ Len(Actors) = Len(log)
  BY <1>1, <1>3 DEF Actors
<1>5. /\ Append(Actors, t.req.actor) \in Seq(Users)
      /\ Len(Append(Actors, t.req.actor)) = Len(log) + 1
      /\ \A n \in 1..Len(log) : Append(Actors, t.req.actor)[n] = log[n].actor
      /\ Append(Actors, t.req.actor)[Len(log) + 1] = t.req.actor
  BY <1>1, <1>3, <1>4 DEF Actors
<1>6. /\ Actors' \in Seq(Users) /\ Len(Actors') = Len(log) + 1
      /\ \A n \in 1..(Len(log) + 1) :
           Actors'[n] = IF n = Len(log) + 1 THEN t.req.actor ELSE log[n].actor
  <2>1. \A n \in 1..(Len(log) + 1) :
          log'[n].actor = IF n = Len(log) + 1 THEN t.req.actor ELSE log[n].actor
    BY <1>1
  <2> QED
    BY <1>1, <1>2, <1>3, <2>1 DEF Actors
<1>7. \A n \in 1..(Len(log) + 1) : Actors'[n] = Append(Actors, t.req.actor)[n]
  BY <1>1, <1>5, <1>6
<1> HIDE DEF Actors
<1>8. Actors' = Append(Actors, t.req.actor)
  BY <1>1, <1>5, <1>6, <1>7
<1> QED
  BY <1>1, <1>4, <1>6, <1>8

\* A batch under the name of its actor, as one of the abstract changes.
LEMMA GovernedBy ==
  ASSUME D1InstanceConstants, Inv, NEW t \in calls, Actors' = Append(Actors, t.req.actor),
         Actors' # Actors,
         \/ Governance!Bootstrap(t.req.actor, t.at)
         \/ Governance!Confirm(t.req.actor, t.at)
         \/ \E i \in Invitations :
              \/ Governance!Revoke(t.req.actor, i) \/ Governance!Accept(t.req.actor, i, t.at)
              \/ \E role \in Roles : Governance!Invite(t.req.actor, i, role, t.at)
         \/ \E u \in Users, role \in Roles, status \in {"active", "suspended"} :
              Governance!Administer(t.req.actor, u, role, status, t.at)
  PROVE  Governance!GovernanceNext
PROOF
<1>1. t.req.actor \in Users /\ t.at \in 0..MaxTime
  BY Request
<1> QED
  BY <1>1 DEF Governance!GovernanceNext, Actors, Roles

LEMMA BootstrapGoverned ==
  ASSUME D1InstanceConstants, Inv, NEW t \in calls, bootstrapBatch(t)
  PROVE  Governance!GovernanceNext \/ UNCHANGED rows
PROOF
<1> DEFINE u == t.req.actor
<1> PICK m : m = [role |-> "owner", status |-> "active", updated |-> t.at]
  OBVIOUS
<1>1. u \in Users /\ t.at \in 0..MaxTime /\ u # None
  BY Request
<1>2. CASE /\ record(t, None, Nothing, Nothing) /\ founder = u
           /\ UNCHANGED <<members, invitations, revocations, founder>>
  <2>1. Actors' = Append(Actors, u) /\ Actors' # Actors
    BY <1>2, NothingStands, ActorsGrow
  <2>2. members[u].role # "none"
    BY <1>1, <1>2 DEF Inv, Rows, isMember
  <2>3. Governance!Confirm(u, t.at)
    BY <1>1, <1>2, <2>1, <2>2 DEF Governance!Confirm, Governance!By, Actors
  <2> QED
    BY <2>1, <2>3, GovernedBy
<1>3. CASE /\ founder = None /\ \A v \in Users : ~isMember(v)
           /\ members' = [members EXCEPT ![u] = m] /\ founder' = u
           /\ record(t, u, standing(members[u]), standing(m))
           /\ UNCHANGED <<invitations, revocations>>
  <2>1. m \in MemberRow /\ members[u] \in MemberRow
    BY <1>1 DEF MemberRow, Inv, Typed, Roles
  <2>2. Actors' = Append(Actors, u) /\ Actors' # Actors
    BY <1>1, <1>3, <2>1, Standings, ActorsGrow
  <2>3. \A v \in Users : members[v].role = "none"
    BY <1>3 DEF isMember
  <2>4. Governance!Bootstrap(u, t.at)
    BY <1>1, <1>3, <2>2, <2>3 DEF Governance!Bootstrap, Governance!By, Actors
  <2> QED
    BY <2>2, <2>4, GovernedBy
<1> QED
  BY <1>2, <1>3 DEF bootstrapBatch, reject, Nothing

LEMMA CreateGoverned ==
  ASSUME D1InstanceConstants, Inv, NEW t \in calls, createBatch(t)
  PROVE  Governance!GovernanceNext \/ UNCHANGED rows
PROOF
<1> DEFINE a == t.req.actor
           s == t.req.subject
<1>1. SUFFICES ASSUME ~(UNCHANGED rows)
               PROVE  Governance!GovernanceNext
  OBVIOUS
<1>2. /\ invitations[s].status = "absent" /\ createEvidence(t)
      /\ UNCHANGED <<members, revocations, founder>>
      /\ invitations' = [invitations EXCEPT ![s] =
           [status |-> "pending", role |-> t.req.arg, by |-> a, to |-> t.req.to,
            expires |-> t.at + 1, acceptedBy |-> 0]]
      /\ record(t, None, Nothing, Nothing)
  BY <1>1 DEF createBatch, reject, None, Nothing
<1>3. /\ a \in Users /\ s \in Invitations /\ t.req.arg \in Roles /\ t.req.to \in Users
  BY Request DEF createBatch, batchOf, wellFormed
<1>4. Actors' = Append(Actors, a) /\ Actors' # Actors
  BY <1>2, NothingStands, ActorsGrow
<1>5. Governance!Over(a, t.req.arg)
  BY <1>2 DEF createEvidence, entitled, Governance!Over, Governance!Active
<1>6. Cardinality({j \in Invitations : Governance!Live(j, t.at)}) < MaxPending
  BY <1>2 DEF createEvidence, pendingCount, live, Governance!Live
<1>7. \E to \in Users :
         invitations' = [invitations EXCEPT ![s] =
           [status |-> "pending", role |-> t.req.arg, by |-> a, to |-> to,
            expires |-> t.at + 1, acceptedBy |-> 0]]
  BY <1>2, <1>3
<1>8. Governance!By(a)
  BY <1>4 DEF Governance!By, Actors
<1>9. Governance!Invite(a, s, t.req.arg, t.at)
  <2>1. invitations[s].status = "absent" /\ members' = members /\ (founder # None)' = (founder # None)
    BY <1>2
  <2>2. \A S : Governance!Cardinality(S) = Cardinality(S)
    BY Zenon DEF Governance!Cardinality, Cardinality
  <2> QED
    BY <2>1, <2>2, <1>5, <1>6, <1>7, <1>8, Zenon DEF Governance!Invite
<1> QED
  BY <1>3, <1>4, <1>9, GovernedBy

LEMMA RevokeGoverned ==
  ASSUME D1InstanceConstants, Inv, NEW t \in calls, revokeBatch(t)
  PROVE  Governance!GovernanceNext \/ UNCHANGED rows
PROOF
<1> DEFINE a == t.req.actor
           s == t.req.subject
<1>1. SUFFICES ASSUME ~(UNCHANGED rows)
               PROVE  Governance!GovernanceNext
  OBVIOUS
<1>2. /\ revokeEvidence(t) /\ record(t, None, Nothing, Nothing) /\ UNCHANGED <<members, founder>>
      /\ \/ /\ invitations[s].status = "pending"
            /\ invitations' = [invitations EXCEPT ![s].status = "revoked"]
         \/ invitations[s].status = "revoked" /\ UNCHANGED invitations
  BY <1>1 DEF revokeBatch, reject, Nothing
<1>3. a \in Users /\ s \in Invitations
  BY Request DEF revokeBatch, batchOf, wellFormed
<1>4. Actors' = Append(Actors, a) /\ Actors' # Actors
  BY <1>2, NothingStands, ActorsGrow
<1>5. Governance!Over(a, invitations[s].role)
  BY <1>2 DEF revokeEvidence, entitled, Governance!Over, Governance!Active
<1>6. Governance!By(a) /\ UNCHANGED members /\ (founder # None)' = (founder # None)
  BY <1>2, <1>4 DEF Governance!By, Actors
<1>7. CASE /\ invitations[s].status = "pending"
           /\ invitations' = [invitations EXCEPT ![s].status = "revoked"]
  <2>1. Governance!Revoke(a, s)
    BY <1>5, <1>6, <1>7 DEF Governance!Revoke
  <2> QED
    BY <1>3, <1>4, <2>1, GovernedBy
<1>8. CASE invitations[s].status = "revoked" /\ UNCHANGED invitations
  <2>1. Governance!Confirm(a, t.at)
    BY <1>3, <1>5, <1>6, <1>8 DEF Governance!Confirm
  <2> QED
    BY <1>4, <2>1, GovernedBy
<1> QED
  BY <1>2, <1>7, <1>8

LEMMA AcceptGoverned ==
  ASSUME D1InstanceConstants, Inv, NEW t \in calls, acceptBatch(t)
  PROVE  Governance!GovernanceNext \/ UNCHANGED rows
PROOF
<1> DEFINE u == t.req.actor
           s == t.req.subject
<1> PICK m : m = [role |-> invitations[s].role, status |-> "active", updated |-> t.at]
  OBVIOUS
<1>1. SUFFICES ASSUME ~(UNCHANGED rows)
               PROVE  Governance!GovernanceNext
  OBVIOUS
<1>2. /\ enrols(t) /\ UNCHANGED founder /\ members' = [members EXCEPT ![u] = m]
      /\ invitations' = [invitations EXCEPT ![s].status = "accepted", ![s].acceptedBy = u]
      /\ record(t, u, standing(members[u]), standing(m))
  BY <1>1 DEF acceptBatch, reject
<1>3. u \in Users /\ s \in Invitations /\ t.at \in 0..MaxTime
  BY Request DEF acceptBatch, batchOf, wellFormed
<1>4. /\ Governance!Live(s, t.at) /\ invitations[s].to = u /\ members[u].role = "none"
      /\ invitations[s].status = "pending"
  BY <1>2 DEF enrols, live, isMember, Governance!Live
<1>5. m \in MemberRow /\ members[u] \in MemberRow
  BY <1>3, <1>4 DEF MemberRow, Inv, Typed, Rows
<1>6. Actors' = Append(Actors, u) /\ Actors' # Actors
  BY <1>2, <1>3, <1>5, Standings, ActorsGrow
<1>7. Governance!By(u) /\ (founder # None)' = (founder # None)
  BY <1>2, <1>6 DEF Governance!By, Actors
<1>8. Governance!Accept(u, s, t.at)
  BY <1>2, <1>4, <1>7 DEF Governance!Accept
<1> QED
  BY <1>3, <1>6, <1>8, GovernedBy

\* The evidence entitles the actor now, or, changing itself, as the row is that
\* the gate saw.
LEMMA EvidenceEntitles ==
  ASSUME D1InstanceConstants, Inv, NEW t \in calls, t.pc = "batch",
         table(t.req.kind) = "member", memberEvidence(t),
         t.req.actor # t.req.subject \/ matches(t)
  PROVE  /\ Governance!Over(t.req.actor, t.seen.role)
         /\ Governance!Over(t.req.actor, changed(t).role)
PROOF
<1> DEFINE a == t.req.actor
           actor == IF a = t.req.subject THEN t.seen ELSE members[a]
<1>1. actor.role = members[a].role /\ actor.status = members[a].status
  BY DEF matches, standing
<1>2. entitled(actor, t.seen.role) /\ entitled(actor, requested(t))
  BY DEF memberEvidence
<1> HIDE DEF actor
<1>3. t.req.kind = "set_role" => changed(t).role = requested(t)
  BY Changing DEF requested
<1>4. t.req.kind # "set_role" => changed(t).role = t.seen.role
  BY Changing
<1> QED
  BY <1>1, <1>2, <1>3, <1>4 DEF entitled, Governance!Over, Governance!Active

LEMMA MemberGoverned ==
  ASSUME D1InstanceConstants, Inv, Inv', NEW t \in calls, memberBatch(t)
  PROVE  Governance!GovernanceNext \/ UNCHANGED rows
PROOF
<1> DEFINE u == t.req.subject
           a == t.req.actor
<1> PICK m : m = changed(t)
  OBVIOUS
<1>1. SUFFICES ASSUME ~(UNCHANGED rows)
               PROVE  Governance!GovernanceNext
  OBVIOUS
<1>2. /\ t.pc = "batch" /\ table(t.req.kind) = "member" /\ memberEvidence(t)
      /\ UNCHANGED founder /\ record(t, u, standing(t.seen), standing(m))
      /\ \/ /\ matches(t) /\ t.at >= members[u].updated /\ floorKept(t)
            /\ members' = [members EXCEPT ![u] = m]
            /\ invitations' = [i \in Invitations |->
                 IF i \in cascade(t) THEN [invitations[i] EXCEPT !.status = "revoked"]
                 ELSE invitations[i]]
         \/ members[u] = m /\ UNCHANGED <<members, invitations>>
  BY <1>1, MemberBatch
<1>3. /\ t.req.kind \in {"set_role", "set_status"} /\ u \in Users /\ a \in Users
      /\ t.req.kind = "set_status" => u # a
      /\ t.seen \in MemberRow /\ t.seen.role \in Roles
      /\ m.role = (IF t.req.kind = "set_role" THEN t.req.arg ELSE t.seen.role)
      /\ m.status = (IF t.req.kind = "set_role" THEN t.seen.status ELSE t.req.arg)
      /\ m \in MemberRow /\ m.updated = t.at
      /\ m.role \in Roles /\ m.status \in {"active", "suspended"}
  BY <1>2, Changing
<1>4. Actors' = Append(Actors, a) /\ Actors' # Actors
  BY <1>2, <1>3, Standings, ActorsGrow
<1>5. Governance!By(a) /\ (founder # None)' = (founder # None)
  BY <1>2, <1>4 DEF Governance!By, Actors
<1>6. CASE members[u] = m /\ UNCHANGED <<members, invitations>>
  <2>1. a = u \/ Governance!Over(a, members[u].role)
    BY <1>2, <1>6, EvidenceEntitles
  <2>2. members[u].updated = t.at
    BY <1>3, <1>6
  <2>3. Governance!Confirm(a, t.at)
    BY <1>3, <1>5, <1>6, <2>1, <2>2 DEF Governance!Confirm
  <2> QED
    BY <1>4, <2>3, GovernedBy
<1>7. CASE /\ matches(t) /\ t.at >= members[u].updated
           /\ members' = [members EXCEPT ![u] = m]
           /\ invitations' = [i \in Invitations |->
                IF i \in cascade(t) THEN [invitations[i] EXCEPT !.status = "revoked"]
                ELSE invitations[i]]
  <2>1. members[u].role = t.seen.role /\ members[u].status = t.seen.status
    BY <1>7 DEF matches, standing
  <2>2. /\ Governance!Over(a, members[u].role) /\ Governance!Over(a, m.role)
        /\ m.role = members[u].role \/ m.status = members[u].status
        /\ m.status # members[u].status => a # u
    BY <1>2, <1>3, <1>7, <2>1, EvidenceEntitles
  <2>3. m = [role |-> m.role, status |-> m.status, updated |-> t.at]
    BY <1>3 DEF MemberRow
  <2>4. {v \in Users : members'[v].role = "owner" /\ members'[v].status = "active"} # {}
    <3>1. founder' # None
      BY <1>2, <1>3, <2>1 DEF Inv, Rows, isMember, Roles
    <3> QED
      BY <3>1 DEF Inv, OwnerKept, owners
  <2> DEFINE lost == {i \in Invitations :
               /\ Governance!Live(i, t.at) /\ invitations[i].by = u
               /\ ~(m.status = "active" /\ \/ m.role = "owner"
                                           \/ m.role = "admin" /\ invitations[i].role = "member")}
  <2>5. \A i \in Invitations : i \in cascade(t) <=> i \in lost
    BY <1>2, <1>7, CascadeIsLost DEF entitled, live, Governance!Live
  <2>6. invitations' = [i \in Invitations |->
           IF i \in lost THEN [invitations[i] EXCEPT !.status = "revoked"] ELSE invitations[i]]
    BY <1>7, <2>5
  <2>7. members[u].role # "none" /\ members' = [members EXCEPT ![u] =
                                       [role |-> m.role, status |-> m.status, updated |-> t.at]]
    BY <1>3, <1>7, <2>1, <2>3 DEF Roles
  <2>8. Governance!Administer(a, u, m.role, m.status, t.at)
    BY <1>5, <1>7, <2>2, <2>4, <2>6, <2>7 DEF Governance!Administer
  <2> QED
    BY <1>3, <1>4, <2>8, GovernedBy
<1> QED
  BY <1>2, <1>6, <1>7

\* Every batch of the D1 store is one atomic change that the members as they
\* are at that moment entitle, or the receipt of one made before: what a gate
\* read earlier decides nothing, for any number of concurrent commands.
THEOREM GovernanceImplemented == D1InstanceConstants => (Spec => ImplementsGovernance)
PROOF
<1>1. ASSUME D1InstanceConstants, Inv, Inv', [Next]_vars
      PROVE  [Governance!GovernanceNext]_(Governance!governed)
  <2>1. UNCHANGED rows \/ Governance!GovernanceNext
    BY <1>1, Batches, BootstrapGoverned, CreateGoverned, RevokeGoverned, AcceptGoverned,
       MemberGoverned
  <2>2. UNCHANGED rows => UNCHANGED Governance!governed
    BY DEF rows, Governance!governed
  <2> QED
    BY <2>1, <2>2
<1>2. D1InstanceConstants => D1InstanceConstants'
  BY DEF D1InstanceConstants, wellFormed
<1>3. D1InstanceConstants /\ Inv /\ Inv' /\ [Next]_vars =>
        [Governance!GovernanceNext]_(Governance!governed)
  BY <1>1
<1> QED
  BY <1>2, <1>3, SpecInv, PTL DEF Spec, ImplementsGovernance
=============================================================================
