----------------------- MODULE InstanceMembershipProofs ------------------------
(***************************************************************************)
(* Proofs about InstanceMembership: for any number of users, invitations,  *)
(* commands, concurrent transactions and rollbacks.                        *)
(***************************************************************************)
EXTENDS InstanceMembership, FiniteSetTheorems, TLAPS

MemberRow == [role : Roles \cup {"none"}, status : {"none", "active", "suspended"},
              updated : 0..MaxTime]

InvitationRow ==
  [status : {"absent", "pending", "accepted", "revoked"}, role : Roles \cup {"none"},
   by : Users \cup {None}, to : Users \cup {None}, expires : Nat,
   acceptedBy : Users \cup {None}]

Standing == [role : Roles \cup {"none"}, status : {"none", "active", "suspended"}]

Receipt == [kind : Kinds, actor : Users, key : {r.key : r \in Requests},
            user : Users \cup {None}, before : Standing \cup {NoMember},
            after : Standing \cup {NoMember}]

\* The places a transaction of each kind passes.
places(kind) ==
  CASE kind = "bootstrap" -> {"precheck", "insert", "singleton"}
    [] kind = "create" -> {"actor", "create", "publish"}
    [] kind = "revoke" -> {"actor", "invitation"}
    [] kind = "accept" -> {"self", "invitation", "insert", "publish", "raced"}
    [] OTHER -> {"admin", "low", "high", "decide", "commit"}

Places == UNION {places(k) : k \in Kinds}

Tx == [id : Nat, req : Requests, at : 0..MaxTime, pc : Places, seen : MemberRow]

Lock == [tx : Nat, res : {Member(u) : u \in Users} \cup {Invitation(i) : i \in Invitations}
                         \cup {AdminLock, CreateLock, Singleton},
         mode : {"share", "update"}]

Typed ==
  /\ members \in [Users -> MemberRow]
  /\ invitations \in [Invitations -> InvitationRow]
  /\ bootstrapped \in BOOLEAN
  /\ log \in Seq(Receipt)
  /\ txs \subseteq Tx
  /\ locks \subseteq Lock
  /\ now \in 0..MaxTime /\ begun \in Nat

-----------------------------------------------------------------------------
(***************************************************************************)
(* Locks: a transaction is its number, a lock is held by one of those      *)
(* under way, and two that conflict by the same one.                       *)
(***************************************************************************)

Numbered ==
  /\ \A t \in txs : t.id \in 1..begun
  /\ \A t, u \in txs : t.id = u.id => t = u

Exclusive ==
  /\ \A l \in locks : \E t \in txs : l.tx = t.id
  /\ \A l, m \in locks : l.res = m.res /\ "update" \in {l.mode, m.mode} => l.tx = m.tx

Holds(t, res, mode) == [tx |-> t.id, res |-> res, mode |-> mode] \in locks

Changes(t) == t.req.kind \in {"set_role", "set_status"}

\* What a transaction holds where it is.
Holding(t) ==
  /\ t.pc \in places(t.req.kind)
  /\ t.pc \in {"low", "high", "decide", "commit"} => Holds(t, AdminLock, "update")
  /\ t.pc \in {"high", "decide", "commit"} => Holds(t, Member(lowest(t)), "update")
  /\ t.pc \in {"decide", "commit"} => Holds(t, Member(highest(t)), "update")
  /\ t.pc \in {"create", "publish", "invitation"} /\ t.req.kind # "accept" =>
       Holds(t, Member(t.req.actor), "share")
  /\ t.pc = "publish" /\ t.req.kind = "create" => Holds(t, CreateLock, "update")
  /\ t.pc \in {"insert", "publish"} /\ t.req.kind = "accept" =>
       Holds(t, Invitation(t.req.subject), "update")
  /\ t.pc \in {"singleton", "publish"} /\ t.req.kind # "create" =>
       Holds(t, Member(t.req.actor), "update")

\* What a transaction has read and still holds when it commits.
Reads(t) ==
  /\ t.at <= now
  /\ t.pc \in {"low", "high", "decide", "commit"} =>
       isMember(t.req.actor) /\ isMember(t.req.subject)
  /\ t.pc \in {"create", "publish", "invitation"} /\ t.req.kind # "accept" =>
       members[t.req.actor].role \in {"owner", "admin"} /\ isActive(t.req.actor)
  /\ t.pc = "publish" /\ t.req.kind = "create" =>
       /\ members[t.req.actor].role = "admin" => t.req.arg = "member"
       /\ pendingCount(t.at) < MaxPending
  /\ t.pc \in {"insert", "publish"} /\ t.req.kind = "accept" => acceptable(t)
  /\ t.pc \in {"singleton", "publish"} /\ t.req.kind # "create" => ~isMember(t.req.actor)
  /\ t.pc = "commit" =>
       /\ t.seen = members[t.req.subject] /\ permitted(t) /\ ~receipt(t)
       /\ t.at >= members[t.req.subject].updated
       /\ unseats(t) => owners \ {t.req.subject} # {}

\* The rows: whoever is there was let in after the bootstrap, and an inviter
\* stays a member.
Rows ==
  /\ \A u \in Users :
       /\ isMember(u) <=> members[u].status # "none"
       /\ isMember(u) => bootstrapped
       /\ members[u].updated <= now
  /\ \A i \in Invitations :
       LET inv == invitations[i]
       IN  IF inv.status = "absent" THEN inv = NoInvitation
           ELSE inv.by \in Users /\ isMember(inv.by) /\ inv.to \in Users /\ inv.role \in Roles

Covers(m, role) == m.status = "active" /\ (m.role = "owner" \/ (m.role = "admin" /\ role = "member"))

\* A pending invitation its inviter may not make any more had lapsed when the
\* inviter last changed.
Covered ==
  \A i \in Invitations :
    invitations[i].status = "pending" =>
      LET m == members[invitations[i].by]
      IN  Covers(m, invitations[i].role) \/ invitations[i].expires <= m.updated

Inv ==
  /\ Typed /\ Numbered /\ Exclusive
  /\ \A t \in txs : Holding(t) /\ Reads(t)
  /\ Rows /\ Covered /\ OwnerKept /\ PendingCapped

-----------------------------------------------------------------------------
\* Who has accepted, and who has founded.
accepted(u) == {i \in Invitations : invitations[i].acceptedBy = u}
founded(u) == {n \in DOMAIN log : log[n].kind = "bootstrap" /\ log[n].user = u}

\* How every user came in.
Enrolled ==
  /\ \A u \in Users :
       IF ~isMember(u) \/ u \in Founders THEN accepted(u) = {} /\ founded(u) = {}
       ELSE \/ founded(u) = {} /\ \E i \in Invitations : accepted(u) = {i}
            \/ accepted(u) = {} /\ \E n \in DOMAIN log : founded(u) = {n}
  /\ \A u \in Founders : isMember(u)
  /\ \A i \in Invitations :
       invitations[i].acceptedBy # None =>
         invitations[i].status = "accepted" /\ invitations[i].acceptedBy = invitations[i].to
  /\ ~bootstrapped => \A n \in DOMAIN log : log[n].kind # "bootstrap"
  /\ \A m, n \in DOMAIN log : log[m].kind = "bootstrap" /\ log[n].kind = "bootstrap" => m = n

History == Enrolled /\ ReceiptsExplain
-----------------------------------------------------------------------------
LEMMA Request ==
  ASSUME InstanceConstants, Inv, NEW t \in txs
  PROVE  /\ t \in Tx /\ t.req \in Requests /\ wellFormed(t.req)
         /\ t.req.actor \in Users /\ t.req.kind \in Kinds
         /\ t.at \in Nat /\ now \in Nat /\ t.at <= now
         /\ Holding(t) /\ Reads(t)
         /\ t.pc \in {"low", "high", "decide", "commit", "admin"} =>
              Changes(t) /\ t.req.subject \in Users
         /\ t.req.kind \in {"create", "accept", "revoke"} => t.req.subject \in Invitations
PROOF
<1>1. t \in Tx /\ t.req \in Requests /\ Holding(t) /\ Reads(t) /\ now \in Nat
  BY DEF Inv, Typed, Tx
<1>2. wellFormed(t.req)
  BY <1>1 DEF InstanceConstants
<1>3. t.at \in Nat
  BY <1>1 DEF Tx
<1>4. t.pc \in {"low", "high", "decide", "commit", "admin"} => Changes(t)
  BY <1>1, <1>2 DEF Holding, places, Changes, wellFormed, Kinds
<1> QED
  BY <1>1, <1>2, <1>3, <1>4 DEF wellFormed, Changes, Reads

LEMMA Resources ==
  /\ \A u, v : Member(u) = Member(v) => u = v
  /\ \A i, j : Invitation(i) = Invitation(j) => i = j
  /\ \A u, i : Member(u) # Invitation(i)
  /\ AdminLock # CreateLock
BY DEF Member, Invitation, AdminLock, CreateLock

\* Two transactions do not hold a lock in conflict.
LEMMA Apart ==
  ASSUME Inv, NEW t \in txs, NEW u \in txs, NEW res, NEW k, NEW m,
         Holds(t, res, k), Holds(u, res, m), "update" \in {k, m}
  PROVE  t = u
BY DEF Inv, Exclusive, Numbered, Holds

\* What a statement is granted nobody else holds.
LEMMA Alone ==
  ASSUME Inv, NEW t \in txs, granted(t), NEW u \in txs, NEW res, NEW k, NEW m,
         <<res, k>> \in wants(t), Holds(u, res, m), "update" \in {k, m}
  PROVE  t = u
PROOF
<1> SUFFICES ASSUME u # t PROVE FALSE
  OBVIOUS
<1> DEFINE w == <<res, k>>
           l == [tx |-> u.id, res |-> res, mode |-> m]
<1>1. w \in wants(t) /\ w[1] = res /\ w[2] = k
  OBVIOUS
<1>2. l \in locks /\ l.tx = u.id /\ l.res = res /\ l.mode = m
  BY DEF Holds
<1>3. conflicts(l, w)
  BY <1>1, <1>2 DEF conflicts
<1> HIDE DEF w, l
<1>4. blocks(u, t)
  BY <1>1, <1>2, <1>3 DEF blocks
<1> QED
  BY <1>4 DEF granted

LEMMA WantsTyped ==
  ASSUME InstanceConstants, Inv, NEW t \in txs
  PROVE  \A w \in wants(t) :
           [tx |-> t.id, res |-> w[1], mode |-> w[2]] \in Lock
PROOF
<1>1. /\ t.id \in Nat /\ t.req.actor \in Users
      /\ t.req.kind \in {"create", "accept", "revoke"} => t.req.subject \in Invitations
      /\ t.pc \in {"low", "high"} => t.req.subject \in Users
      /\ t.pc = "invitation" => t.req.kind \in {"accept", "revoke"}
  BY Request DEF Tx, Holding, places, Kinds
<1> SUFFICES ASSUME NEW w \in wants(t)
             PROVE  /\ w[1] \in {Member(u) : u \in Users} \cup
                              {Invitation(i) : i \in Invitations} \cup
                              {AdminLock, CreateLock, Singleton}
                    /\ w[2] \in {"share", "update"}
  BY <1>1 DEF Lock
<1>2. \A u \in Users, mode \in {"share", "update"} : w \in row(u, mode) =>
         w[1] = Member(u) /\ w[2] = mode
  BY DEF row
<1>3. CASE t.pc = "admin"
  BY <1>3 DEF wants, adminLock
<1>4. CASE t.pc = "low"
  <2>1. lowest(t) \in Users /\ w \in row(lowest(t), "update")
    BY <1>1, <1>4 DEF wants, lowest
  <2> QED
    BY <1>2, <2>1
<1>5. CASE t.pc = "high"
  <2>1. highest(t) \in Users /\ w \in row(highest(t), "update")
    BY <1>1, <1>5 DEF wants, highest
  <2> QED
    BY <1>2, <2>1
<1>6. CASE t.pc = "actor"
  <2>1. w \in row(t.req.actor, "share")
    BY <1>6 DEF wants, actorRow
  <2> QED
    BY <1>1, <1>2, <2>1
<1>7. CASE t.pc \in {"self", "raced"}
  <2>1. w \in row(t.req.actor, "update")
    BY <1>7 DEF wants
  <2> QED
    BY <1>1, <1>2, <2>1
<1>8. CASE t.pc = "create"
  BY <1>8 DEF wants, createLock
<1>9. CASE t.pc = "invitation"
  BY <1>1, <1>9 DEF wants
<1>10. CASE t.pc = "insert"
  BY <1>1, <1>10 DEF wants
<1>11. CASE t.pc = "singleton"
  BY <1>11 DEF wants
<1>12. CASE t.pc = "commit"
  BY <1>12 DEF wants, cascade
<1>13. CASE t.pc \notin {"admin", "low", "high", "actor", "self", "raced", "create",
                         "invitation", "insert", "singleton", "commit"}
  BY <1>13 DEF wants
<1> QED
  BY <1>3, <1>4, <1>5, <1>6, <1>7, <1>8, <1>9, <1>10, <1>11, <1>12, <1>13

-----------------------------------------------------------------------------
(***************************************************************************)
(* Statements that write nothing yet, and ends.                            *)
(***************************************************************************)

\* A statement takes its locks and the transaction goes on.
LEMMA BecomeKeeps ==
  ASSUME InstanceConstants, Inv, NEW t \in txs, NEW v \in Tx, become(t, v),
         v.id = t.id, v.req = t.req, v.at = t.at, Holding(v)', Reads(v)
  PROVE  Inv'
PROOF
<1> DEFINE gained == {[tx |-> t.id, res |-> w[1], mode |-> w[2]] : w \in wants(t)}
<1>1. /\ txs' = (txs \ {t}) \cup {v} /\ locks' = locks \cup gained
      /\ UNCHANGED <<rows, now, begun>> /\ granted(t)
  BY DEF become
<1>2. gained \subseteq Lock
  BY WantsTyped
<1>3. Typed'
  BY <1>1, <1>2 DEF Inv, Typed, rows
<1>4. Numbered'
  BY <1>1 DEF Inv, Numbered
<1>5. \A l \in gained : l.tx = t.id
  OBVIOUS
<1>6. \A l \in locks, m \in gained :
        l.res = m.res /\ "update" \in {l.mode, m.mode} => l.tx = m.tx
  <2> SUFFICES ASSUME NEW l \in locks, NEW w \in wants(t), l.res = w[1],
                      "update" \in {l.mode, w[2]}, l.tx # t.id
               PROVE  FALSE
    OBVIOUS
  <2>1. PICK u \in txs : l.tx = u.id
    BY DEF Inv, Exclusive
  <2>2. conflicts(l, w)
    BY DEF conflicts
  <2>3. blocks(u, t)
    BY <2>1, <2>2 DEF blocks
  <2> QED
    BY <1>1, <2>3 DEF granted
<1> HIDE DEF gained
<1>7. Exclusive'
  <2>1. \A l \in locks' : \E u \in txs' : l.tx = u.id
    BY <1>1, <1>5 DEF Inv, Exclusive
  <2>2. ASSUME NEW l \in locks', NEW m \in locks', l.res = m.res, "update" \in {l.mode, m.mode}
        PROVE  l.tx = m.tx
    <3>1. CASE l \in locks /\ m \in locks
      BY <2>2, <3>1 DEF Inv, Exclusive
    <3>2. CASE l \in locks /\ m \in gained
      BY <1>6, <2>2, <3>2
    <3>3. CASE l \in gained /\ m \in locks
      <4>1. "update" \in {m.mode, l.mode}
        BY <2>2
      <4> QED
        BY <1>6, <2>2, <3>3, <4>1
    <3>4. CASE l \in gained /\ m \in gained
      BY <1>5, <3>4
    <3> QED
      BY <1>1, <3>1, <3>2, <3>3, <3>4
  <2> QED
    BY <2>1, <2>2 DEF Exclusive
<1>8. \A u \in txs : Holding(u) => Holding(u)'
  BY <1>1 DEF Holding, Holds
<1>9. \A u \in Tx : Reads(u) => Reads(u)'
  BY <1>1 DEF Reads, rows, isMember, isActive, acceptable, receipt, permitted, unseats, owners,
              pendingCount, live
<1>10. \A u \in txs' : Holding(u)' /\ Reads(u)'
  <2> SUFFICES ASSUME NEW u \in txs' PROVE Holding(u)' /\ Reads(u)'
    OBVIOUS
  <2>1. CASE u = v
    BY <1>9, <2>1
  <2>2. CASE u \in txs
    BY <1>8, <1>9, <2>2 DEF Inv, Typed
  <2> QED
    BY <1>1, <2>1, <2>2
<1>11. Rows' /\ Covered' /\ OwnerKept' /\ PendingCapped'
  BY <1>1 DEF Inv, Rows, Covered, OwnerKept, PendingCapped, rows, isMember, isActive, owners,
              pendingCount, live
<1> QED
  BY <1>3, <1>4, <1>7, <1>10, <1>11 DEF Inv

\* A transaction that ends releases its locks; the others keep theirs.
LEMMA EndLocks ==
  ASSUME Inv, NEW t \in txs, txs' = txs \ {t}, locks' = {l \in locks : l.tx # t.id},
         begun' = begun
  PROVE  /\ Numbered' /\ Exclusive' /\ txs' \subseteq Tx /\ locks' \subseteq Lock
         /\ \A u \in txs' : u \in txs /\ u # t /\ Holding(u)'
PROOF
<1>1. Numbered'
  BY DEF Inv, Numbered
<1>2. Exclusive'
  BY DEF Inv, Exclusive
<1>3. \A u \in txs' : u.id # t.id
  BY DEF Inv, Numbered
<1>4. \A u \in txs' : \A res, mode : Holds(u, res, mode) => Holds(u, res, mode)'
  BY <1>3 DEF Holds
<1>5. \A u \in txs' : Holding(u) => Holding(u)'
  BY <1>4 DEF Holding
<1> QED
  BY <1>1, <1>2, <1>5 DEF Inv, Typed

\* ROLLBACK.
LEMMA RollbackKeeps ==
  ASSUME Inv, NEW t \in txs, txs' = txs \ {t}, locks' = {l \in locks : l.tx # t.id},
         UNCHANGED <<rows, now, begun>>
  PROVE  Inv'
PROOF
<1>1. Numbered' /\ Exclusive' /\ \A u \in txs' : u \in txs /\ Holding(u)'
  BY EndLocks
<1>2. Typed'
  BY EndLocks DEF Inv, Typed, rows
<1>3. \A u \in txs' : Reads(u)'
  BY DEF Inv, Reads, rows, isMember, isActive, acceptable, receipt, permitted, unseats, owners,
         pendingCount, live
<1>4. Rows' /\ Covered' /\ OwnerKept' /\ PendingCapped'
  BY DEF Inv, Rows, Covered, OwnerKept, PendingCapped, rows, isMember, isActive, owners,
         pendingCount, live
<1> QED
  BY <1>1, <1>2, <1>3, <1>4 DEF Inv

LEMMA Gained ==
  ASSUME NEW t, NEW v, become(t, v), v.id = t.id
  PROVE  /\ \A res, mode : <<res, mode>> \in wants(t) => Holds(v, res, mode)'
         /\ \A res, mode : Holds(t, res, mode) => Holds(v, res, mode)'
PROOF
<1>1. ASSUME NEW res, NEW mode, <<res, mode>> \in wants(t) PROVE Holds(v, res, mode)'
  <2> DEFINE w == <<res, mode>>
  <2>1. w \in wants(t) /\ w[1] = res /\ w[2] = mode
    BY <1>1
  <2> HIDE DEF w
  <2>2. [tx |-> t.id, res |-> w[1], mode |-> w[2]] \in locks'
    BY <2>1 DEF become
  <2> QED
    BY <2>1, <2>2 DEF Holds
<1>2. ASSUME NEW res, NEW mode, Holds(t, res, mode) PROVE Holds(v, res, mode)'
  BY <1>2 DEF Holds, become
<1> QED
  BY <1>1, <1>2

\* Going on to another place.
LEMMA Moved ==
  ASSUME InstanceConstants, Inv, NEW t \in txs, NEW pc \in Places
  PROVE  LET v == [t EXCEPT !.pc = pc]
         IN  /\ v \in Tx /\ v.pc = pc /\ v.id = t.id /\ v.req = t.req /\ v.at = t.at
             /\ v.seen = t.seen
BY Request DEF Tx

LEMMA AllPlaces ==
  Places = {"precheck", "insert", "singleton", "actor", "create", "publish", "invitation",
            "self", "raced", "admin", "low", "high", "decide", "commit"}
PROOF
<1>1. /\ places("bootstrap") = {"precheck", "insert", "singleton"}
      /\ places("create") = {"actor", "create", "publish"}
      /\ places("revoke") = {"actor", "invitation"}
      /\ places("accept") = {"self", "invitation", "insert", "publish", "raced"}
      /\ places("set_role") = {"admin", "low", "high", "decide", "commit"}
      /\ places("set_status") = {"admin", "low", "high", "decide", "commit"}
  BY DEF places
<1>2. Places = places("bootstrap") \cup places("create") \cup places("revoke")
               \cup places("accept") \cup places("set_role") \cup places("set_status")
  BY DEF Places, Kinds
<1> QED
  BY <1>1, <1>2

LEMMA GotoKeeps ==
  ASSUME InstanceConstants, Inv, NEW t \in txs, NEW pc \in Places, goto(t, pc),
         NEW v, v = [t EXCEPT !.pc = pc], Holding(v)', Reads(v)
  PROVE  Inv'
PROOF
<1>1. v \in Tx /\ v.id = t.id /\ v.req = t.req /\ v.at = t.at
  BY Moved
<1> QED
  BY <1>1, BecomeKeeps DEF goto

LEMMA RollbackStep ==
  ASSUME Inv, NEW t \in txs, rollback(t)
  PROVE  Inv'
BY RollbackKeeps DEF rollback, end

LEMMA PrecheckKeeps ==
  ASSUME InstanceConstants, Inv, NEW t \in txs, precheck(t)
  PROVE  Inv'
PROOF
<1>1. CASE goto(t, "insert")
  <2>1. PICK v : v = [t EXCEPT !.pc = "insert"]
    OBVIOUS
  <2>2. v.pc = "insert" /\ v.req = t.req /\ v.at = t.at
    BY <2>1, Moved, AllPlaces
  <2>3. t.req.kind = "bootstrap" /\ t.at <= now
    BY Request DEF precheck, Holding, places, Kinds
  <2>4. Holding(v)'
    BY <2>2, <2>3 DEF Holding, places
  <2>5. Reads(v)
    BY <2>2, <2>3 DEF Reads
  <2> QED
    BY <1>1, <2>1, <2>4, <2>5, GotoKeeps, AllPlaces
<1> QED
  BY <1>1, RollbackStep DEF precheck

LEMMA AuthorizeKeeps ==
  ASSUME InstanceConstants, Inv, NEW t \in txs, authorize(t)
  PROVE  Inv'
PROOF
<1>1. t.req.kind \in {"create", "revoke"} /\ t.at <= now /\ t.pc = "actor" /\ t.req.actor \in Users
  BY Request DEF authorize, Holding, places, Kinds
<1>2. SUFFICES ASSUME NEW pc \in {"create", "invitation"}, goto(t, pc),
                      pc = "create" <=> t.req.kind = "create",
                      members[t.req.actor].role \notin {"none", "member"}, isActive(t.req.actor)
               PROVE  Inv'
  BY <1>1, RollbackStep DEF authorize
<1>3. PICK v : v = [t EXCEPT !.pc = pc]
  OBVIOUS
<1>4. v.pc = pc /\ v.req = t.req /\ v.at = t.at /\ v.id = t.id
  BY <1>3, Moved, AllPlaces
<1>5. <<Member(t.req.actor), "share">> \in wants(t)
  BY <1>1, <1>2 DEF wants, actorRow, row, isMember
<1>6. Holds(v, Member(t.req.actor), "share")'
  BY <1>2, <1>3, <1>4, <1>5, Gained DEF goto
<1>7. Holding(v)'
  BY <1>1, <1>2, <1>4, <1>6 DEF Holding, places
<1>8. members[t.req.actor].role \in {"owner", "admin"}
  BY <1>1, <1>2 DEF Inv, Typed, MemberRow, Roles
<1>9. Reads(v)
  BY <1>1, <1>2, <1>4, <1>8 DEF Reads
<1> QED
  BY <1>2, <1>3, <1>7, <1>9, GotoKeeps, AllPlaces

LEMMA AdmitKeeps ==
  ASSUME InstanceConstants, Inv, NEW t \in txs, admitCreate(t)
  PROVE  Inv'
PROOF
<1>1. t.req.kind = "create" /\ t.pc = "create" /\ Holding(t) /\ Reads(t)
  BY Request DEF admitCreate
<1>2. SUFFICES ASSUME goto(t, "publish"), pendingCount(t.at) < MaxPending,
                      members[t.req.actor].role = "admin" => t.req.arg = "member"
               PROVE  Inv'
  <2>1. pendingCount(t.at) \in Nat /\ MaxPending \in Nat
    <3>1. IsFiniteSet({i \in Invitations : live(i, t.at)})
      BY FS_Subset DEF InstanceConstants
    <3> QED
      BY <3>1, FS_CardinalityType DEF pendingCount, InstanceConstants
  <2> QED
    BY <2>1, RollbackStep DEF admitCreate
<1>3. PICK v : v = [t EXCEPT !.pc = "publish"]
  OBVIOUS
<1>4. v.pc = "publish" /\ v.req = t.req /\ v.at = t.at /\ v.id = t.id
  BY <1>3, Moved, AllPlaces
<1>5. Holds(v, CreateLock, "update")'
  <2>1. <<CreateLock, "update">> \in wants(t)
    BY <1>1 DEF wants, createLock
  <2> QED
    BY <1>2, <1>3, <1>4, <2>1, Gained DEF goto
<1>6. Holds(v, Member(t.req.actor), "share")'
  BY <1>1, <1>2, <1>3, <1>4, Gained DEF goto, Holding
<1>7. Holding(v)'
  BY <1>1, <1>4, <1>5, <1>6 DEF Holding, places
<1>8. Reads(v)
  BY <1>1, <1>2, <1>4 DEF Reads
<1> QED
  BY <1>2, <1>3, <1>7, <1>8, GotoKeeps, AllPlaces

LEMMA AcceptSelfKeeps ==
  ASSUME InstanceConstants, Inv, NEW t \in txs, acceptSelf(t)
  PROVE  Inv'
PROOF
<1>1. t.req.kind = "accept" /\ t.at <= now
  BY Request DEF acceptSelf, Holding, places, Kinds
<1>2. CASE goto(t, "invitation")
  <2>1. PICK v : v = [t EXCEPT !.pc = "invitation"]
    OBVIOUS
  <2>2. v.pc = "invitation" /\ v.req = t.req /\ v.at = t.at
    BY <2>1, Moved, AllPlaces
  <2>3. Holding(v)'
    BY <1>1, <2>2 DEF Holding, places
  <2>4. Reads(v)
    BY <1>1, <2>2 DEF Reads
  <2> QED
    BY <1>2, <2>1, <2>3, <2>4, GotoKeeps, AllPlaces
<1> QED
  BY <1>2, RollbackStep DEF acceptSelf

LEMMA AcceptInvitationKeeps ==
  ASSUME InstanceConstants, Inv, NEW t \in txs, acceptInvitation(t)
  PROVE  Inv'
PROOF
<1>1. t.req.kind = "accept" /\ t.pc = "invitation" /\ t.at <= now
  BY Request DEF acceptInvitation
<1>2. CASE goto(t, "insert") /\ acceptable(t)
  <2>1. PICK v : v = [t EXCEPT !.pc = "insert"]
    OBVIOUS
  <2>2. v.pc = "insert" /\ v.req = t.req /\ v.at = t.at /\ v.id = t.id
    BY <2>1, Moved, AllPlaces
  <2>3. <<Invitation(t.req.subject), "update">> \in wants(t)
    BY <1>1 DEF wants
  <2>4. Holds(v, Invitation(t.req.subject), "update")'
    BY <1>2, <2>1, <2>2, <2>3, Gained DEF goto
  <2>5. Holding(v)'
    BY <1>1, <2>2, <2>4 DEF Holding, places
  <2>6. acceptable(v)
    BY <1>2, <2>2 DEF acceptable
  <2>7. Reads(v)
    BY <1>1, <2>2, <2>6 DEF Reads
  <2> QED
    BY <1>2, <2>1, <2>5, <2>7, GotoKeeps, AllPlaces
<1> QED
  BY <1>2, RollbackStep DEF acceptInvitation

LEMMA InsertKeeps ==
  ASSUME InstanceConstants, Inv, NEW t \in txs, insertMember(t)
  PROVE  Inv'
PROOF
<1>1. t.pc = "insert" /\ t.req.kind \in {"bootstrap", "accept"} /\ t.at <= now
      /\ Holding(t) /\ Reads(t)
  BY Request DEF insertMember, Holding, places, Kinds
<1>2. SUFFICES ASSUME NEW pc \in {"singleton", "publish", "raced"}, goto(t, pc),
                      IF t.req.kind = "bootstrap" THEN pc = "singleton"
                      ELSE pc \in {"publish", "raced"},
                      pc # "raced" => ~isMember(t.req.actor)
               PROVE  Inv'
  BY <1>1, RollbackStep DEF insertMember, wonEnrollment
<1>3. PICK v : v = [t EXCEPT !.pc = pc]
  OBVIOUS
<1>4. v.pc = pc /\ v.req = t.req /\ v.at = t.at /\ v.id = t.id
  BY <1>3, Moved, AllPlaces
<1>5. <<Member(t.req.actor), "update">> \in wants(t)
  BY <1>1 DEF wants
<1>6. Holds(v, Member(t.req.actor), "update")'
  BY <1>2, <1>3, <1>4, <1>5, Gained DEF goto
<1>7. t.req.kind = "accept" => Holds(v, Invitation(t.req.subject), "update")'
  BY <1>1, <1>2, <1>3, <1>4, Gained DEF goto, Holding
<1>8. Holding(v)'
  BY <1>1, <1>2, <1>4, <1>6, <1>7 DEF Holding, places
<1>9. t.req.kind = "accept" => acceptable(v)
  BY <1>1, <1>4 DEF Reads, acceptable
<1>10. Reads(v)
  BY <1>1, <1>2, <1>4, <1>9 DEF Reads
<1> QED
  BY <1>2, <1>3, <1>8, <1>10, GotoKeeps, AllPlaces

LEMMA LockMembersKeeps ==
  ASSUME InstanceConstants, Inv, NEW t \in txs, lockMembers(t)
  PROVE  Inv'
PROOF
<1>1. t.pc \in {"admin", "low", "high"} /\ Changes(t) /\ t.at <= now /\ Holding(t) /\ Reads(t)
      /\ t.req.subject \in Users /\ t.req.actor \in Users
  BY Request DEF lockMembers
<1>2. SUFFICES ASSUME NEW pc \in {"low", "high", "decide"}, goto(t, pc),
                      \/ t.pc = "admin" /\ pc = "low"
                      \/ t.pc = "low" /\ pc = "high"
                      \/ t.pc = "high" /\ pc = "decide",
                      isMember(t.req.actor), isMember(t.req.subject)
               PROVE  Inv'
  <2>1. t.pc # "admin" => isMember(t.req.actor) /\ isMember(t.req.subject)
    BY <1>1 DEF Reads
  <2> QED
    BY <1>1, <2>1, RollbackStep DEF lockMembers
<1>3. PICK v : v = [t EXCEPT !.pc = pc]
  OBVIOUS
<1>4. v.pc = pc /\ v.req = t.req /\ v.at = t.at /\ v.id = t.id
  BY <1>3, Moved, AllPlaces
<1>5. isMember(lowest(t)) /\ isMember(highest(t))
  BY <1>2 DEF lowest, highest
<1>6. \A res, mode : <<res, mode>> \in wants(t) \/ Holds(t, res, mode) => Holds(v, res, mode)'
  BY <1>2, <1>3, <1>4, Gained DEF goto
<1>7. Holds(v, AdminLock, "update")'
  <2>1. CASE t.pc = "admin"
    <3>1. <<AdminLock, "update">> \in wants(t)
      BY <2>1 DEF wants, adminLock
    <3> QED
      BY <1>6, <3>1
  <2> QED
    BY <1>1, <1>6, <2>1 DEF Holding
<1>8. pc \in {"high", "decide"} => Holds(v, Member(lowest(t)), "update")'
  <2>1. CASE t.pc = "low"
    <3>1. <<Member(lowest(t)), "update">> \in wants(t)
      BY <1>5, <2>1 DEF wants, row
    <3> QED
      BY <1>6, <3>1
  <2> QED
    BY <1>1, <1>2, <1>6, <2>1 DEF Holding
<1>9. pc = "decide" => Holds(v, Member(highest(t)), "update")'
  <2>1. CASE t.pc = "high"
    <3>1. <<Member(highest(t)), "update">> \in wants(t)
      BY <1>5, <2>1 DEF wants, row
    <3> QED
      BY <1>6, <3>1
  <2> QED
    BY <1>1, <1>2, <2>1
<1>10. lowest(v) = lowest(t) /\ highest(v) = highest(t)
  BY <1>4 DEF lowest, highest
<1>11. Holding(v)'
  BY <1>1, <1>2, <1>4, <1>7, <1>8, <1>9, <1>10
  DEF Holding, places, Changes, lowest, highest
<1>12. Reads(v)
  BY <1>1, <1>2, <1>4 DEF Reads
<1> QED
  BY <1>2, <1>3, <1>11, <1>12, GotoKeeps, AllPlaces

LEMMA OwnersFinite ==
  ASSUME InstanceConstants, NEW u
  PROVE  /\ IsFiniteSet(owners \ {u})
         /\ countOtherActiveOwners(u) = 0 <=> owners \ {u} = {}
PROOF
<1>1. IsFiniteSet(owners \ {u})
  BY FS_Subset DEF owners, InstanceConstants
<1> QED
  BY <1>1, FS_EmptySet DEF countOtherActiveOwners

LEMMA DecideKeeps ==
  ASSUME InstanceConstants, Inv, NEW t \in txs, decide(t)
  PROVE  Inv'
PROOF
<1>1. t.pc = "decide" /\ Changes(t) /\ t.at \in Nat /\ t.at <= now /\ Holding(t) /\ Reads(t)
      /\ t.req.subject \in Users /\ t.req.actor \in Users /\ t \in Tx
  BY Request DEF decide
<1>2. PICK v : v = [t EXCEPT !.pc = "commit", !.seen = members[t.req.subject]]
  OBVIOUS
<1>3. members[t.req.subject] \in MemberRow
  BY <1>1 DEF Inv, Typed
<1>4. /\ v \in Tx /\ v.pc = "commit" /\ v.req = t.req /\ v.at = t.at /\ v.id = t.id
      /\ v.seen = members[t.req.subject]
  BY <1>1, <1>2, <1>3, AllPlaces DEF Tx
<1>5. SUFFICES ASSUME become(t, v), ~receipt(t), permitted(t),
                      unseats(t) => owners \ {t.req.subject} # {},
                      t.at >= members[t.req.subject].updated
               PROVE  Inv'
  <2>1. members[t.req.subject].updated \in Nat
    BY <1>3 DEF MemberRow
  <2>2. countOtherActiveOwners(t.req.subject) = 0 <=> owners \ {t.req.subject} = {}
    BY OwnersFinite
  <2>3. \/ rollback(t)
        \/ /\ become(t, v) /\ ~receipt(t) /\ permitted(t)
           /\ ~(unseats(t) /\ countOtherActiveOwners(t.req.subject) = 0)
           /\ ~(t.at < members[t.req.subject].updated)
    BY <1>2 DEF decide
  <2>4. CASE rollback(t)
    BY <2>4, RollbackStep
  <2> QED
    BY <1>1, <2>1, <2>2, <2>3, <2>4
<1>6. \A res, mode : Holds(t, res, mode) => Holds(v, res, mode)'
  BY <1>4, <1>5, Gained
<1>7. lowest(v) = lowest(t) /\ highest(v) = highest(t)
  BY <1>4 DEF lowest, highest
<1>8. Holding(v)'
  BY <1>1, <1>4, <1>6, <1>7 DEF Holding, places, Changes, lowest, highest
<1>9. ~receipt(v) /\ permitted(v) /\ (unseats(v) => owners \ {v.req.subject} # {})
  BY <1>4, <1>5 DEF receipt, permitted, unseats
<1>10. Reads(v)
  BY <1>1, <1>4, <1>5, <1>9 DEF Reads
<1> QED
  BY <1>4, <1>5, <1>8, <1>10, BecomeKeeps

-----------------------------------------------------------------------------
(***************************************************************************)
(* Commits.  What another transaction has read still holds, because the    *)
(* locks of the two are apart.                                             *)
(***************************************************************************)

LEMMA ReadsKeep ==
  ASSUME InstanceConstants, Inv, NEW u \in txs, now' = now,
         \A x \in Users : isMember(x) => isMember(x)',
         u.pc \in {"create", "publish", "invitation"} /\ u.req.kind # "accept" =>
           members'[u.req.actor] = members[u.req.actor],
         u.pc = "publish" /\ u.req.kind = "create" =>
           \A i \in Invitations : live(i, u.at)' => live(i, u.at),
         u.pc \in {"insert", "publish"} /\ u.req.kind = "accept" =>
           invitations'[u.req.subject] = invitations[u.req.subject],
         u.pc \in {"singleton", "publish"} /\ u.req.kind # "create" =>
           members'[u.req.actor] = members[u.req.actor],
         u.pc = "commit" =>
           /\ members'[u.req.subject] = members[u.req.subject]
           /\ members'[u.req.actor] = members[u.req.actor]
           /\ owners \subseteq owners' /\ (receipt(u)' => receipt(u))
  PROVE  Reads(u)'
PROOF
<1>1. Reads(u) /\ u.req.actor \in Users
      /\ (u.pc \in {"low", "high", "decide", "commit"} => u.req.subject \in Users)
  BY Request
<1>2. u.pc = "publish" /\ u.req.kind = "create" => pendingCount(u.at)' < MaxPending
  <2> SUFFICES ASSUME u.pc = "publish", u.req.kind = "create"
               PROVE  pendingCount(u.at)' < MaxPending
    OBVIOUS
  <2> DEFINE S == {i \in Invitations : live(i, u.at)}
  <2>1. IsFiniteSet(S)
    BY FS_Subset DEF InstanceConstants
  <2>2. S' \subseteq S
    OBVIOUS
  <2>3. IsFiniteSet(S') /\ Cardinality(S') <= Cardinality(S)
    BY <2>1, <2>2, FS_Subset
  <2>4. Cardinality(S) \in Nat /\ Cardinality(S') \in Nat /\ MaxPending \in Nat
    BY <2>1, <2>3, FS_CardinalityType DEF InstanceConstants
  <2>5. Cardinality(S) < MaxPending
    BY <1>1 DEF Reads, pendingCount
  <2> QED
    BY <2>3, <2>4, <2>5 DEF pendingCount
<1>3. u.pc = "commit" =>
        /\ u.seen = members'[u.req.subject] /\ permitted(u)' /\ ~receipt(u)'
        /\ u.at >= members'[u.req.subject].updated
        /\ unseats(u)' => owners' \ {u.req.subject} # {}
  <2> SUFFICES ASSUME u.pc = "commit"
               PROVE  /\ u.seen = members'[u.req.subject] /\ permitted(u)' /\ ~receipt(u)'
                      /\ u.at >= members'[u.req.subject].updated
                      /\ unseats(u)' => owners' \ {u.req.subject} # {}
    OBVIOUS
  <2>1. permitted(u)'
    BY <1>1 DEF Reads, permitted
  <2>2. unseats(u)' => unseats(u)
    BY <1>1 DEF unseats, owners, isActive
  <2> QED
    BY <1>1, <2>1, <2>2 DEF Reads
<1>4. u.pc \in {"insert", "publish"} /\ u.req.kind = "accept" => acceptable(u)'
  BY <1>1 DEF Reads, acceptable
<1>5. u.pc \in {"low", "high", "decide", "commit"} =>
        isMember(u.req.actor)' /\ isMember(u.req.subject)'
  BY <1>1 DEF Reads
<1>6. u.pc \in {"create", "publish", "invitation"} /\ u.req.kind # "accept" =>
        /\ members'[u.req.actor].role \in {"owner", "admin"} /\ isActive(u.req.actor)'
        /\ (u.pc = "publish" /\ u.req.kind = "create" =>
              (members'[u.req.actor].role = "admin" => u.req.arg = "member"))
  BY <1>1 DEF Reads, isActive
<1>7. u.pc \in {"singleton", "publish"} /\ u.req.kind # "create" => ~isMember(u.req.actor)'
  BY <1>1 DEF Reads, isMember
<1>8. u.at <= now'
  BY <1>1 DEF Reads
<1> QED
  BY <1>2, <1>3, <1>4, <1>5, <1>6, <1>7, <1>8 DEF Reads

LEMMA Logged ==
  ASSUME InstanceConstants, Inv, NEW t \in txs, NEW user \in Users \cup {None},
         NEW before \in Standing \cup {NoMember}, NEW after \in Standing \cup {NoMember},
         log' = Append(log, entry(t, user, before, after))
  PROVE  /\ log' \in Seq(Receipt) /\ Len(log') = Len(log) + 1
         /\ \A n \in DOMAIN log : n \in DOMAIN log' /\ log'[n] = log[n]
         /\ log'[Len(log) + 1] = entry(t, user, before, after)
         /\ \A u \in txs : table(u.req.kind) # table(t.req.kind) => (receipt(u)' => receipt(u))
PROOF
<1>1. t.req.actor \in Users /\ t.req.kind \in Kinds /\ t.req \in Requests
  BY Request
<1>2. entry(t, user, before, after) \in Receipt
  BY <1>1 DEF entry, Receipt
<1>3. log \in Seq(Receipt)
  BY DEF Inv, Typed
<1>4. /\ log' \in Seq(Receipt) /\ Len(log') = Len(log) + 1
      /\ \A n \in DOMAIN log : n \in DOMAIN log' /\ log'[n] = log[n]
      /\ log'[Len(log) + 1] = entry(t, user, before, after)
  BY <1>2, <1>3
<1>5. ASSUME NEW u \in txs, table(u.req.kind) # table(t.req.kind), receipt(u)'
      PROVE  receipt(u)
  <2>1. PICK n \in DOMAIN log' : /\ log'[n].actor = u.req.actor /\ log'[n].key = u.req.key
                                 /\ table(log'[n].kind) = table(u.req.kind)
    BY <1>5 DEF receipt
  <2>2. n # Len(log) + 1
    BY <1>4, <1>5, <2>1 DEF entry
  <2>3. n \in DOMAIN log
    BY <1>3, <1>4, <2>2
  <2> QED
    BY <1>4, <2>1, <2>3 DEF receipt
<1> QED
  BY <1>4, <1>5

\* The rows and places of two transactions, one of which commits.
LEMMA Tables ==
  ASSUME InstanceConstants, Inv, NEW t \in txs
  PROVE  /\ t.pc = "commit" => table(t.req.kind) = "member"
         /\ t.pc = "singleton" => table(t.req.kind) = "bootstrap" /\ t.req.kind = "bootstrap"
         /\ t.pc \in {"publish", "invitation"} => table(t.req.kind) = "invitation"
PROOF
<1>1. Holding(t) /\ t.req.kind \in Kinds
  BY Request
<1> QED
  BY <1>1 DEF Holding, places, Kinds, table

LEMMA BootstrapKeeps ==
  ASSUME InstanceConstants, Inv, NEW t \in txs, bootstrapCommit(t)
  PROVE  Inv'
PROOF
<1> DEFINE u == t.req.actor
           m == [role |-> "owner", status |-> "active", updated |-> t.at]
           after == [role |-> "owner", status |-> "active"]
<1>1. /\ t \in Tx /\ u \in Users /\ t.at <= now /\ t.at \in 0..MaxTime
      /\ Holds(t, Member(u), "update") /\ t.pc = "singleton" /\ t.req.kind = "bootstrap"
  BY Request DEF bootstrapCommit, Tx, Holding
<1>2. /\ txs' = txs \ {t} /\ locks' = {l \in locks : l.tx # t.id}
      /\ UNCHANGED <<now, begun>>
  BY DEF bootstrapCommit, end
<1>3. SUFFICES ASSUME ~bootstrapped, members' = [members EXCEPT ![u] = m], bootstrapped' = TRUE,
                      log' = Append(log, entry(t, u, standing(u), after)),
                      UNCHANGED invitations
               PROVE  Inv'
  BY <1>2, RollbackKeeps DEF bootstrapCommit, singletonTaken
<1>4. standing(u) \in Standing /\ after \in Standing /\ m \in MemberRow
  BY <1>1 DEF standing, Standing, MemberRow, Inv, Typed, Roles
<1>5. log' \in Seq(Receipt) /\ \A v \in txs : v.pc = "commit" => (receipt(v)' => receipt(v))
  BY <1>1, <1>3, <1>4, Logged, Tables
<1>6. Typed'
  BY <1>1, <1>2, <1>3, <1>4, <1>5, EndLocks DEF Inv, Typed
<1>7. \A x \in Users : ~isMember(x)
  BY <1>3 DEF Inv, Rows
<1>8. \A x \in Users : members'[x] = IF x = u THEN m ELSE members[x]
  BY <1>3 DEF Inv, Typed
<1>9. \A v \in txs' : Reads(v)'
  <2> SUFFICES ASSUME NEW v \in txs' PROVE Reads(v)'
    OBVIOUS
  <2>1. v \in txs /\ v # t /\ Reads(v) /\ Holding(v) /\ v.req.actor \in Users
    BY EndLocks, <1>2, Request
  <2>2. v.pc \notin {"low", "high", "decide", "commit"}
    BY <1>7, <2>1, Request DEF Reads
  <2>3. ~(v.pc \in {"create", "publish", "invitation"} /\ v.req.kind # "accept")
    BY <1>7, <2>1 DEF Reads, isMember
  <2>4. v.pc \in {"singleton", "publish"} /\ v.req.kind # "create" =>
          members'[v.req.actor] = members[v.req.actor]
    BY <1>1, <1>8, <2>1, Apart, Resources DEF Holding
  <2> QED
    BY <1>2, <1>3, <1>7, <2>1, <2>2, <2>3, <2>4, ReadsKeep
<1>10. Rows' /\ Covered'
  BY <1>1, <1>2, <1>3, <1>7, <1>8 DEF Inv, Typed, Rows, Covered, isMember, InvitationRow
<1>11. OwnerKept' /\ PendingCapped'
  <2>1. u \in owners'
    BY <1>1, <1>8 DEF owners, isActive
  <2> QED
    BY <1>2, <1>3, <2>1 DEF Inv, OwnerKept, PendingCapped, pendingCount, live
<1> QED
  BY <1>2, <1>6, <1>9, <1>10, <1>11, EndLocks DEF Inv

LEMMA CreateKeeps ==
  ASSUME InstanceConstants, Inv, NEW t \in txs, createCommit(t)
  PROVE  Inv'
PROOF
<1> DEFINE a == t.req.actor
           s == t.req.subject
           inv == [status |-> "pending", role |-> t.req.arg, by |-> a, to |-> t.req.to,
                   expires |-> t.at + 1, acceptedBy |-> None]
<1>1. /\ t \in Tx /\ a \in Users /\ s \in Invitations /\ t.at <= now /\ t.at \in Nat
      /\ now \in Nat /\ Reads(t) /\ Holds(t, CreateLock, "update")
      /\ t.pc = "publish" /\ t.req.kind = "create" /\ t.req.arg \in Roles /\ t.req.to \in Users
  BY Request DEF createCommit, Holding, wellFormed
<1>2. /\ txs' = txs \ {t} /\ locks' = {l \in locks : l.tx # t.id}
      /\ UNCHANGED <<now, begun>>
  BY DEF createCommit, end
<1>3. SUFFICES ASSUME invitations[s].status = "absent",
                      invitations' = [invitations EXCEPT ![s] = inv],
                      log' = Append(log, entry(t, None, NoMember, NoMember)),
                      UNCHANGED <<members, bootstrapped>>
               PROVE  Inv'
  BY <1>2, RollbackKeeps DEF createCommit
<1>4. inv \in InvitationRow
  BY <1>1 DEF InvitationRow, Roles
<1>5. log' \in Seq(Receipt) /\ \A v \in txs : v.pc = "commit" => (receipt(v)' => receipt(v))
  BY <1>1, <1>3, Logged, Tables
<1>6. Typed'
  BY <1>1, <1>2, <1>3, <1>4, <1>5, EndLocks DEF Inv, Typed
<1>7. \A i \in Invitations : invitations'[i] = IF i = s THEN inv ELSE invitations[i]
  BY <1>3 DEF Inv, Typed
<1>8. \A v \in txs' : Reads(v)'
  <2> SUFFICES ASSUME NEW v \in txs' PROVE Reads(v)'
    OBVIOUS
  <2>1. v \in txs /\ v # t /\ Reads(v) /\ Holding(v) /\ v.req.actor \in Users
    BY EndLocks, <1>2, Request
  <2>2. ~(v.pc = "publish" /\ v.req.kind = "create")
    BY <1>1, <2>1, Apart DEF Holding
  <2>3. v.pc \in {"insert", "publish"} /\ v.req.kind = "accept" =>
          invitations'[v.req.subject] = invitations[v.req.subject]
    <3>1. SUFFICES ASSUME v.pc \in {"insert", "publish"}, v.req.kind = "accept"
                   PROVE  invitations'[v.req.subject] = invitations[v.req.subject]
      OBVIOUS
    <3>2. acceptable(v) /\ v.req.subject \in Invitations
      BY <2>1, <3>1, Request DEF Reads
    <3> QED
      BY <1>3, <1>7, <3>2 DEF acceptable
  <2>4. owners' = owners /\ \A x \in Users : isMember(x)' = isMember(x)
    BY <1>3 DEF owners, isActive, isMember
  <2> QED
    BY <1>2, <1>3, <1>5, <2>1, <2>2, <2>3, <2>4, ReadsKeep
<1>9. Rows'
  <2>1. isMember(a)
    BY <1>1 DEF Reads, isMember
  <2>2. \A i \in Invitations :
          IF invitations'[i].status = "absent" THEN invitations'[i] = NoInvitation
          ELSE /\ invitations'[i].by \in Users /\ isMember(invitations'[i].by)
               /\ invitations'[i].to \in Users /\ invitations'[i].role \in Roles
    BY <1>1, <1>7, <2>1 DEF Inv, Rows
  <2> QED
    BY <1>2, <1>3, <2>2 DEF Inv, Rows, isMember
<1>10. Covered'
  <2>1. Covers(members[a], t.req.arg)
    BY <1>1 DEF Reads, Covers, isActive
  <2> QED
    BY <1>3, <1>7, <2>1 DEF Inv, Covered
<1>11. OwnerKept'
  BY <1>3 DEF Inv, OwnerKept, owners, isActive
<1>12. PendingCapped'
  <2> DEFINE N == {i \in Invitations : live(i, now)}
             A == {i \in Invitations : live(i, t.at)}
  <2>1. IsFiniteSet(N) /\ IsFiniteSet(A) /\ N \cup {s} \in SUBSET Invitations
        /\ IsFiniteSet(N \cup {s})
    BY <1>1, FS_Subset DEF InstanceConstants
  <2>2. N \subseteq A
    BY <1>1 DEF live, Inv, Typed, InvitationRow
  <2>3. Cardinality(N) <= Cardinality(A) /\ Cardinality(N \cup {s}) <= Cardinality(N) + 1
    BY <2>1, <2>2, FS_Subset, FS_AddElement, FS_CardinalityType
  <2>4. N' \subseteq N \cup {s}
    BY <1>2, <1>7 DEF live
  <2>5. Cardinality(N') <= Cardinality(N \cup {s}) /\ Cardinality(N') \in Nat
    BY <2>1, <2>4, FS_Subset, FS_CardinalityType
  <2>6. Cardinality(A) < MaxPending
    BY <1>1 DEF Reads, pendingCount
  <2>7. Cardinality(A) \in Nat /\ Cardinality(N) \in Nat /\ Cardinality(N \cup {s}) \in Nat
        /\ MaxPending \in Nat
    BY <2>1, FS_CardinalityType DEF InstanceConstants
  <2> HIDE DEF N, A
  <2>8. Cardinality(N') <= MaxPending
    BY <2>3, <2>5, <2>6, <2>7
  <2> QED
    BY <2>8 DEF PendingCapped, pendingCount, N
<1> QED
  BY <1>2, <1>6, <1>8, <1>9, <1>10, <1>11, <1>12, EndLocks DEF Inv

\* Fewer invitations wait than before.
LEMMA StillCapped ==
  ASSUME InstanceConstants, Inv, now' = now,
         \A i \in Invitations : live(i, now)' => live(i, now)
  PROVE  PendingCapped'
PROOF
<1> DEFINE N == {i \in Invitations : live(i, now)}
<1>1. IsFiniteSet(N) /\ N' \subseteq N
  BY FS_Subset DEF InstanceConstants
<1>2. Cardinality(N') <= Cardinality(N) /\ Cardinality(N') \in Nat /\ Cardinality(N) \in Nat
  BY <1>1, FS_Subset, FS_CardinalityType
<1>3. Cardinality(N) <= MaxPending /\ MaxPending \in Nat
  BY DEF Inv, PendingCapped, pendingCount, InstanceConstants
<1> HIDE DEF N
<1>4. Cardinality(N') <= MaxPending
  BY <1>2, <1>3
<1> QED
  BY <1>4 DEF PendingCapped, pendingCount, N

LEMMA RevokeKeeps ==
  ASSUME InstanceConstants, Inv, NEW t \in txs, revokeCommit(t)
  PROVE  Inv'
PROOF
<1> DEFINE s == t.req.subject
<1>1. /\ t \in Tx /\ s \in Invitations /\ t.pc = "invitation" /\ t.req.kind = "revoke"
      /\ granted(t) /\ <<Invitation(s), "update">> \in wants(t)
  BY Request DEF revokeCommit, wants
<1>2. /\ txs' = txs \ {t} /\ locks' = {l \in locks : l.tx # t.id}
      /\ UNCHANGED <<now, begun>>
  BY DEF revokeCommit, end
<1>3. SUFFICES ASSUME invitations[s].status = "pending",
                      invitations' = [invitations EXCEPT ![s].status = "revoked"],
                      log' = Append(log, entry(t, None, NoMember, NoMember)),
                      UNCHANGED <<members, bootstrapped>>
               PROVE  Inv'
  BY <1>2, RollbackKeeps DEF revokeCommit
<1>4. /\ \A i \in Invitations : i # s => invitations'[i] = invitations[i]
      /\ invitations[s] \in InvitationRow
      /\ invitations'[s] = [invitations[s] EXCEPT !.status = "revoked"]
      /\ invitations' \in [Invitations -> InvitationRow]
  <2> DEFINE withdrawn == [invitations[s] EXCEPT !.status = "revoked"]
  <2>1. invitations \in [Invitations -> InvitationRow]
    BY DEF Inv, Typed
  <2>2. invitations[s] \in InvitationRow /\ invitations' = [invitations EXCEPT ![s] = withdrawn]
    BY <1>1, <1>3, <2>1
  <2>3. withdrawn \in InvitationRow
    BY <2>2 DEF InvitationRow
  <2> HIDE DEF withdrawn
  <2>4. /\ \A i \in Invitations : i # s => invitations'[i] = invitations[i]
        /\ invitations'[s] = withdrawn /\ invitations' \in [Invitations -> InvitationRow]
    BY <1>1, <2>1, <2>2, <2>3
  <2> QED
    BY <2>2, <2>4 DEF withdrawn
<1>5. log' \in Seq(Receipt) /\ \A v \in txs : v.pc = "commit" => (receipt(v)' => receipt(v))
  BY <1>1, <1>3, Logged, Tables
<1>6. Typed'
  BY <1>2, <1>3, <1>4, <1>5, EndLocks DEF Inv, Typed
<1>7. /\ invitations'[s].status = "revoked" /\ invitations'[s].by = invitations[s].by
      /\ invitations'[s].to = invitations[s].to /\ invitations'[s].role = invitations[s].role
  BY <1>4 DEF InvitationRow
<1>8. \A i \in Invitations : \A time : live(i, time)' => live(i, time)
  BY <1>4, <1>7 DEF live
<1>9. \A v \in txs' : Reads(v)'
  <2> SUFFICES ASSUME NEW v \in txs' PROVE Reads(v)'
    OBVIOUS
  <2>1. v \in txs /\ v # t /\ Reads(v) /\ Holding(v)
    BY EndLocks, <1>2, Request
  <2>2. v.pc \in {"insert", "publish"} /\ v.req.kind = "accept" =>
          invitations'[v.req.subject] = invitations[v.req.subject]
    <3>1. SUFFICES ASSUME v.pc \in {"insert", "publish"}, v.req.kind = "accept"
                   PROVE  invitations'[v.req.subject] = invitations[v.req.subject]
      OBVIOUS
    <3>2. v.req.subject \in Invitations /\ Holds(v, Invitation(v.req.subject), "update")
      BY <2>1, <3>1, Request DEF Holding
    <3>3. v.req.subject # s
      BY <1>1, <2>1, <3>2, Alone
    <3> QED
      BY <1>4, <3>2, <3>3
  <2>3. owners' = owners /\ \A x \in Users : isMember(x)' = isMember(x)
    BY <1>3 DEF owners, isActive, isMember
  <2> QED
    BY <1>2, <1>3, <1>5, <1>8, <2>1, <2>2, <2>3, ReadsKeep
<1>10. Rows'
  <2>1. \A i \in Invitations :
          IF invitations'[i].status = "absent" THEN invitations'[i] = NoInvitation
          ELSE /\ invitations'[i].by \in Users /\ isMember(invitations'[i].by)
               /\ invitations'[i].to \in Users /\ invitations'[i].role \in Roles
    BY <1>1, <1>3, <1>4, <1>7 DEF Inv, Rows
  <2> QED
    BY <1>2, <1>3, <2>1 DEF Inv, Rows, isMember
<1>11. Covered'
  BY <1>3, <1>4, <1>7 DEF Inv, Covered
<1>12. OwnerKept'
  BY <1>3 DEF Inv, OwnerKept, owners, isActive
<1> QED
  BY <1>2, <1>6, <1>8, <1>9, <1>10, <1>11, <1>12, EndLocks, StillCapped DEF Inv

LEMMA AcceptKeeps ==
  ASSUME InstanceConstants, Inv, NEW t \in txs, acceptCommit(t)
  PROVE  Inv'
PROOF
<1> DEFINE u == t.req.actor
           s == t.req.subject
           m == [role |-> invitations[s].role, status |-> "active", updated |-> t.at]
           after == [role |-> invitations[s].role, status |-> "active"]
<1>1. /\ t \in Tx /\ u \in Users /\ s \in Invitations /\ t.at <= now /\ t.at \in 0..MaxTime
      /\ t.at \in Nat /\ now \in Nat /\ Reads(t) /\ Holding(t)
      /\ t.pc = "publish" /\ t.req.kind = "accept"
  BY Request DEF acceptCommit, Tx
<1>2. /\ txs' = txs \ {t} /\ locks' = {l \in locks : l.tx # t.id}
      /\ UNCHANGED <<now, begun>>
  BY DEF acceptCommit, end
<1>3. SUFFICES ASSUME members' = [members EXCEPT ![u] = m],
                      invitations' = [invitations EXCEPT ![s].status = "accepted",
                                                         ![s].acceptedBy = u],
                      log' = Append(log, entry(t, u, standing(u), after)),
                      UNCHANGED bootstrapped
               PROVE  Inv'
  BY <1>2, RollbackKeeps DEF acceptCommit
<1>4. /\ Holds(t, Member(u), "update") /\ Holds(t, Invitation(s), "update")
      /\ acceptable(t) /\ ~isMember(u)
  BY <1>1 DEF Holding, Reads
<1>5. /\ invitations[s].status = "pending" /\ invitations[s] \in InvitationRow
      /\ invitations[s].role \in Roles /\ isMember(invitations[s].by) /\ invitations[s].by \in Users
      /\ invitations[s].to = u
  BY <1>1, <1>4 DEF Inv, Typed, Rows, acceptable
<1>6. standing(u) \in Standing /\ after \in Standing /\ m \in MemberRow
  BY <1>1, <1>5 DEF standing, Standing, MemberRow, Inv, Typed, Roles
<1>7. log' \in Seq(Receipt) /\ \A v \in txs : v.pc = "commit" => (receipt(v)' => receipt(v))
  BY <1>1, <1>3, <1>6, Logged, Tables
<1>8. /\ \A i \in Invitations : i # s => invitations'[i] = invitations[i]
      /\ invitations'[s] = [invitations[s] EXCEPT !.status = "accepted", !.acceptedBy = u]
      /\ invitations' \in [Invitations -> InvitationRow]
  BY <1>1, <1>3, <1>5 DEF Inv, Typed, InvitationRow
<1>9. /\ invitations'[s].status = "accepted" /\ invitations'[s].by = invitations[s].by
      /\ invitations'[s].to = u /\ invitations'[s].role = invitations[s].role
      /\ invitations'[s].expires = invitations[s].expires
  BY <1>5, <1>8 DEF InvitationRow
<1>10. \A x \in Users : members'[x] = IF x = u THEN m ELSE members[x]
  BY <1>3 DEF Inv, Typed
<1>11. Typed'
  BY <1>1, <1>2, <1>3, <1>6, <1>7, <1>8, EndLocks DEF Inv, Typed
<1>12. \A i \in Invitations : \A time : live(i, time)' => live(i, time)
  BY <1>8, <1>9 DEF live
<1>13. \A x \in Users : isMember(x) => x # u /\ isMember(x)' /\ members'[x] = members[x]
  BY <1>4, <1>10 DEF isMember
<1>14. \A v \in txs' : Reads(v)'
  <2> SUFFICES ASSUME NEW v \in txs' PROVE Reads(v)'
    OBVIOUS
  <2>1. v \in txs /\ v # t /\ Reads(v) /\ Holding(v) /\ v.req.actor \in Users
    BY EndLocks, <1>2, Request
  <2>2. v.pc \in {"insert", "publish"} /\ v.req.kind = "accept" =>
          invitations'[v.req.subject] = invitations[v.req.subject]
    <3>1. SUFFICES ASSUME v.pc \in {"insert", "publish"}, v.req.kind = "accept"
                   PROVE  invitations'[v.req.subject] = invitations[v.req.subject]
      OBVIOUS
    <3>2. v.req.subject \in Invitations /\ Holds(v, Invitation(v.req.subject), "update")
      BY <2>1, <3>1, Request DEF Holding
    <3>3. v.req.subject # s
      BY <1>4, <2>1, <3>2, Apart
    <3> QED
      BY <1>8, <3>2, <3>3
  <2>3. v.pc \in {"singleton", "publish"} /\ v.req.kind # "create" =>
          members'[v.req.actor] = members[v.req.actor]
    BY <1>4, <1>10, <2>1, Apart DEF Holding
  <2>4. v.pc \in {"create", "publish", "invitation"} /\ v.req.kind # "accept" =>
          members'[v.req.actor] = members[v.req.actor]
    BY <1>13, <2>1 DEF Reads, isMember
  <2>5. v.pc = "commit" =>
          /\ members'[v.req.subject] = members[v.req.subject]
          /\ members'[v.req.actor] = members[v.req.actor]
          /\ owners \subseteq owners'
    <3>1. owners \subseteq owners'
      BY <1>13 DEF owners, isActive, isMember
    <3> QED
      BY <1>13, <2>1, <3>1, Request DEF Reads
  <2> QED
    BY <1>2, <1>7, <1>12, <1>13, <2>1, <2>2, <2>3, <2>4, <2>5, ReadsKeep
<1>15. bootstrapped
  BY <1>5 DEF Inv, Rows
<1>16. Rows'
  <2>1. \A i \in Invitations :
          IF invitations'[i].status = "absent" THEN invitations'[i] = NoInvitation
          ELSE /\ invitations'[i].by \in Users /\ members'[invitations'[i].by].role # "none"
               /\ invitations'[i].to \in Users /\ invitations'[i].role \in Roles
    <3> SUFFICES ASSUME NEW i \in Invitations
                 PROVE  IF invitations'[i].status = "absent" THEN invitations'[i] = NoInvitation
                        ELSE /\ invitations'[i].by \in Users /\ members'[invitations'[i].by].role # "none"
                             /\ invitations'[i].to \in Users /\ invitations'[i].role \in Roles
      OBVIOUS
    <3>1. CASE i = s
      BY <1>1, <1>5, <1>9, <1>13, <3>1 DEF isMember
    <3>2. CASE i # s
      BY <1>8, <1>13, <3>2 DEF Inv, Rows, isMember
    <3> QED
      BY <3>1, <3>2
  <2>2. \A x \in Users :
          /\ isMember(x)' <=> members'[x].status # "none"
          /\ isMember(x)' => bootstrapped'
          /\ members'[x].updated <= now'
    BY <1>1, <1>2, <1>3, <1>5, <1>10, <1>15 DEF Inv, Rows, isMember, Roles
  <2> QED
    BY <2>1, <2>2 DEF Rows, isMember
<1>17. Covered'
  <2> SUFFICES ASSUME NEW i \in Invitations, invitations'[i].status = "pending"
               PROVE  \/ Covers(members'[invitations'[i].by], invitations'[i].role)
                      \/ invitations'[i].expires <= members'[invitations'[i].by].updated
    BY DEF Covered, Covers
  <2>1. i # s /\ invitations'[i] = invitations[i]
    BY <1>8, <1>9
  <2>2. members'[invitations[i].by] = members[invitations[i].by]
    BY <1>13, <2>1 DEF Inv, Rows
  <2> QED
    BY <2>1, <2>2 DEF Inv, Covered
<1>18. OwnerKept'
  <2>1. owners \subseteq owners'
    BY <1>13 DEF owners, isActive, isMember, Inv, Rows
  <2> QED
    BY <1>3, <2>1 DEF Inv, OwnerKept
<1> QED
  BY <1>2, <1>11, <1>12, <1>14, <1>16, <1>17, <1>18, EndLocks, StillCapped DEF Inv

\* What a member change is about to write, under its locks.
LEMMA Changing ==
  ASSUME InstanceConstants, Inv, NEW t \in txs, t.pc = "commit"
  PROVE  /\ Changes(t) /\ Reads(t) /\ t.at <= now /\ t.at \in Nat /\ t.at \in 0..MaxTime
         /\ t.req.subject \in Users /\ t.req.actor \in Users
         /\ t.seen = members[t.req.subject] /\ t.seen \in MemberRow
         /\ isMember(t.req.subject) /\ isMember(t.req.actor)
         /\ t.seen.role \in Roles /\ t.seen.status \in {"active", "suspended"}
         /\ changed(t).role = (IF t.req.kind = "set_role" THEN t.req.arg ELSE t.seen.role)
         /\ changed(t).status = (IF t.req.kind = "set_role" THEN t.seen.status ELSE t.req.arg)
         /\ changed(t).updated = t.at
         /\ changed(t) \in MemberRow
         /\ changed(t).role \in Roles /\ changed(t).status \in {"active", "suspended"}
         /\ Holds(t, AdminLock, "update") /\ Holds(t, Member(t.req.subject), "update")
         /\ Holds(t, Member(t.req.actor), "update")
PROOF
<1>1. /\ Changes(t) /\ Reads(t) /\ Holding(t) /\ t.at <= now /\ t.at \in Nat /\ t.at \in 0..MaxTime
      /\ t.req.subject \in Users /\ t.req.actor \in Users /\ wellFormed(t.req)
  BY Request DEF Tx
<1>2. /\ t.seen = members[t.req.subject] /\ t.seen \in MemberRow
      /\ isMember(t.req.subject) /\ isMember(t.req.actor)
  BY <1>1 DEF Reads, Inv, Typed
<1>3. t.seen.role \in Roles /\ t.seen.status \in {"active", "suspended"}
  BY <1>1, <1>2 DEF isMember, MemberRow, Inv, Rows
<1>4. /\ changed(t).role = (IF t.req.kind = "set_role" THEN t.req.arg ELSE t.seen.role)
      /\ changed(t).status = (IF t.req.kind = "set_role" THEN t.seen.status ELSE t.req.arg)
      /\ changed(t).updated = t.at
      /\ changed(t) = [role |-> changed(t).role, status |-> changed(t).status, updated |-> t.at]
  BY <1>2 DEF changed, MemberRow
<1>5. changed(t).role \in Roles /\ changed(t).status \in {"active", "suspended"}
  BY <1>1, <1>3, <1>4 DEF Changes, wellFormed
<1>6. changed(t) \in MemberRow
  BY <1>1, <1>4, <1>5 DEF MemberRow
<1>7. /\ Holds(t, AdminLock, "update") /\ Holds(t, Member(lowest(t)), "update")
      /\ Holds(t, Member(highest(t)), "update")
  BY <1>1 DEF Holding
<1>8. /\ Holds(t, Member(t.req.subject), "update")
      /\ Holds(t, Member(t.req.actor), "update")
  BY <1>7 DEF lowest, highest
<1> QED
  BY <1>1, <1>2, <1>3, <1>4, <1>5, <1>6, <1>7, <1>8

LEMMA MemberKeeps ==
  ASSUME InstanceConstants, Inv, NEW t \in txs, memberCommit(t)
  PROVE  Inv'
PROOF
<1> DEFINE u == t.req.subject
           before == standing(u)
           after == [role |-> changed(t).role, status |-> changed(t).status]
<1>1. t.pc = "commit" /\ granted(t) /\ t \in Tx
  BY Request DEF memberCommit
<1>2. /\ txs' = txs \ {t} /\ locks' = {l \in locks : l.tx # t.id}
      /\ UNCHANGED <<now, begun>>
  BY DEF memberCommit, end
<1>3. PICK m : m = changed(t)
  OBVIOUS
<1>4. /\ Changes(t) /\ t.at <= now /\ t.at \in Nat /\ u \in Users
      /\ t.seen = members[u] /\ t.seen \in MemberRow /\ isMember(u)
      /\ m.role = (IF t.req.kind = "set_role" THEN t.req.arg ELSE t.seen.role)
      /\ m.status = (IF t.req.kind = "set_role" THEN t.seen.status ELSE t.req.arg)
      /\ m.updated = t.at /\ m \in MemberRow
      /\ m.role \in Roles /\ m.status \in {"active", "suspended"}
      /\ t.seen.role \in Roles /\ t.seen.status \in {"active", "suspended"}
      /\ Holds(t, AdminLock, "update") /\ Holds(t, Member(u), "update")
  BY <1>1, <1>3, Changing
<1>5. SUFFICES ASSUME members' = [members EXCEPT ![u] = m],
                      invitations' = [i \in Invitations |->
                        IF i \in cascade(t) THEN [invitations[i] EXCEPT !.status = "revoked"]
                        ELSE invitations[i]],
                      log' = Append(log, entry(t, u, before, after)),
                      UNCHANGED bootstrapped
               PROVE  Inv'
  BY <1>2, <1>3, RollbackKeeps DEF memberCommit
<1>6. before \in Standing /\ after \in Standing
  BY <1>3, <1>4 DEF standing, Standing, MemberRow
<1>7. log' \in Seq(Receipt)
  BY <1>4, <1>5, <1>6, Logged
<1>8. \A i \in Invitations :
        /\ invitations'[i] \in InvitationRow
        /\ i \notin cascade(t) => invitations'[i] = invitations[i]
        /\ i \in cascade(t) => /\ invitations[i].status = "pending"
                               /\ invitations'[i].status = "revoked"
                               /\ invitations'[i].by = invitations[i].by
                               /\ invitations'[i].to = invitations[i].to
                               /\ invitations'[i].role = invitations[i].role
  <2> SUFFICES ASSUME NEW i \in Invitations
               PROVE  /\ invitations'[i] \in InvitationRow
                      /\ i \notin cascade(t) => invitations'[i] = invitations[i]
                      /\ i \in cascade(t) => /\ invitations[i].status = "pending"
                                             /\ invitations'[i].status = "revoked"
                                             /\ invitations'[i].by = invitations[i].by
                                             /\ invitations'[i].to = invitations[i].to
                                             /\ invitations'[i].role = invitations[i].role
    OBVIOUS
  <2> DEFINE withdrawn == [invitations[i] EXCEPT !.status = "revoked"]
  <2>1. /\ invitations[i] \in InvitationRow
        /\ invitations'[i] = IF i \in cascade(t) THEN withdrawn ELSE invitations[i]
    BY <1>5 DEF Inv, Typed
  <2>2. /\ withdrawn \in InvitationRow /\ withdrawn.status = "revoked" /\ withdrawn.by = invitations[i].by
        /\ withdrawn.to = invitations[i].to /\ withdrawn.role = invitations[i].role
    BY <2>1 DEF InvitationRow
  <2>3. i \in cascade(t) => invitations[i].status = "pending"
    BY DEF cascade, live
  <2> HIDE DEF withdrawn
  <2> QED
    BY <2>1, <2>2, <2>3
<1>9. invitations' \in [Invitations -> InvitationRow]
  BY <1>5, <1>8
<1>10. \A x \in Users : members'[x] = IF x = u THEN m ELSE members[x]
  BY <1>5 DEF Inv, Typed
<1>11. Typed'
  BY <1>2, <1>4, <1>5, <1>7, <1>9, EndLocks DEF Inv, Typed
<1>12. \A i \in Invitations : \A time : live(i, time)' => live(i, time)
  BY <1>8 DEF live
<1>13. \A x \in Users : isMember(x)' = isMember(x)
  BY <1>4, <1>10 DEF isMember, Roles
<1>14. \A v \in txs' : Reads(v)'
  <2> SUFFICES ASSUME NEW v \in txs' PROVE Reads(v)'
    OBVIOUS
  <2>1. v \in txs /\ v # t /\ Reads(v) /\ Holding(v) /\ v.req.actor \in Users
    BY EndLocks, <1>2, Request
  <2>2. v.pc # "commit"
    BY <1>4, <2>1, Apart DEF Holding
  <2>3. v.pc \in {"create", "publish", "invitation"} /\ v.req.kind # "accept" =>
          members'[v.req.actor] = members[v.req.actor]
    BY <1>4, <1>10, <2>1, Apart DEF Holding
  <2>4. v.pc \in {"singleton", "publish"} /\ v.req.kind # "create" =>
          members'[v.req.actor] = members[v.req.actor]
    BY <1>4, <1>10, <2>1, Apart DEF Holding
  <2>5. v.pc \in {"insert", "publish"} /\ v.req.kind = "accept" =>
          invitations'[v.req.subject] = invitations[v.req.subject]
    <3>1. SUFFICES ASSUME v.pc \in {"insert", "publish"}, v.req.kind = "accept"
                   PROVE  invitations'[v.req.subject] = invitations[v.req.subject]
      OBVIOUS
    <3>2. v.req.subject \in Invitations /\ Holds(v, Invitation(v.req.subject), "update")
      BY <2>1, <3>1, Request DEF Holding
    <3>3. \A i \in cascade(t) : <<Invitation(i), "update">> \in wants(t)
      BY <1>1 DEF wants
    <3>4. v.req.subject \notin cascade(t)
      BY <1>1, <2>1, <3>2, <3>3, Alone
    <3> QED
      BY <1>8, <3>2, <3>4
  <2> QED
    BY <1>2, <1>12, <1>13, <2>1, <2>2, <2>3, <2>4, <2>5, ReadsKeep
<1>15. Rows'
  <2>1. \A i \in Invitations :
          IF invitations'[i].status = "absent" THEN invitations'[i] = NoInvitation
          ELSE /\ invitations'[i].by \in Users /\ isMember(invitations[i].by)
               /\ invitations'[i].by = invitations[i].by
               /\ invitations'[i].to \in Users /\ invitations'[i].role \in Roles
    BY <1>8 DEF Inv, Rows
  <2>2. \A x \in Users :
          /\ isMember(x)' <=> members'[x].status # "none"
          /\ isMember(x)' => bootstrapped'
          /\ members'[x].updated <= now'
    BY <1>2, <1>4, <1>5, <1>10, <1>13 DEF Inv, Rows, isMember, Roles
  <2> QED
    BY <1>13, <2>1, <2>2 DEF Rows, isMember
<1>16. Covered'
  <2> SUFFICES ASSUME NEW i \in Invitations, invitations'[i].status = "pending"
               PROVE  \/ Covers(members'[invitations'[i].by], invitations'[i].role)
                      \/ invitations'[i].expires <= members'[invitations'[i].by].updated
    BY DEF Covered, Covers
  <2>1. i \notin cascade(t) /\ invitations'[i] = invitations[i] /\ invitations[i].by \in Users
    BY <1>8 DEF Inv, Rows
  <2>2. \/ Covers(members[invitations[i].by], invitations[i].role)
        \/ invitations[i].expires <= members[invitations[i].by].updated
    BY <2>1 DEF Inv, Covered
  <2>3. CASE invitations[i].by # u
    BY <1>10, <2>1, <2>2, <2>3
  <2>4. CASE invitations[i].by = u
    <3>1. members[u].updated <= t.at /\ members[u].updated \in Nat /\ invitations[i].expires \in Nat
      BY <1>1, <1>4, Request DEF Reads, MemberRow, Inv, Typed, InvitationRow
    <3>2. CASE invitations[i].expires <= t.at
      BY <1>4, <1>10, <2>1, <2>4, <3>2
    <3>3. CASE ~(invitations[i].expires <= t.at)
      <4>1. Covers(t.seen, invitations[i].role) /\ live(i, t.at)
        BY <1>4, <2>1, <2>2, <2>4, <3>1, <3>3 DEF live
      <4>2. CASE t.req.kind = "set_status"
        <5>1. t.req.arg # "suspended"
          BY <2>1, <2>4, <4>1, <4>2 DEF cascade
        <5> QED
          BY <1>4, <1>10, <2>1, <2>4, <4>1, <4>2, <5>1 DEF Covers
      <4>3. CASE t.req.kind = "set_role"
        <5>1. /\ roleCascadeKind(t.seen.role, t.req.arg) # "all"
              /\ roleCascadeKind(t.seen.role, t.req.arg) = "non_member" =>
                   invitations[i].role = "member"
          BY <2>1, <2>4, <4>1, <4>3 DEF cascade
        <5>2. /\ ~(t.req.arg = "member" /\ t.seen.role # "member")
              /\ t.req.arg = "admin" /\ t.seen.role = "owner" => invitations[i].role = "member"
          BY <5>1 DEF roleCascadeKind
        <5>3. t.req.arg \in {"owner", "admin", "member"}
          BY <1>4, <4>3 DEF Roles
        <5> QED
          BY <1>4, <1>10, <2>1, <2>4, <4>1, <4>3, <5>2, <5>3 DEF Covers
      <4> QED
        BY <1>4, <4>2, <4>3 DEF Changes
    <3> QED
      BY <3>2, <3>3
  <2> QED
    BY <2>3, <2>4
<1>17. OwnerKept'
  <2>1. owners \ {u} \subseteq owners'
    BY <1>10 DEF owners, isActive
  <2>2. CASE u \notin owners
    BY <1>5, <2>1, <2>2 DEF Inv, OwnerKept
  <2>3. CASE unseats(t)
    BY <1>1, <2>1, <2>3, Request DEF Reads, OwnerKept
  <2>4. CASE u \in owners /\ ~unseats(t)
    <3>1. t.seen.role = "owner" /\ t.seen.status = "active"
      BY <1>4, <2>4 DEF owners, isActive
    <3>2. IF t.req.kind = "set_role" THEN t.req.arg = "owner" ELSE t.req.arg # "suspended"
      BY <2>4 DEF unseats
    <3>3. m.role = "owner" /\ m.status = "active"
      BY <1>4, <3>1, <3>2
    <3>4. u \in owners'
      BY <1>4, <1>10, <3>3 DEF owners, isActive
    <3> QED
      BY <3>4 DEF OwnerKept
  <2> QED
    BY <2>2, <2>3, <2>4
<1> QED
  BY <1>2, <1>11, <1>12, <1>14, <1>15, <1>16, <1>17, EndLocks, StillCapped DEF Inv

-----------------------------------------------------------------------------
(***************************************************************************)
(* The environment, and all steps together.                                *)
(***************************************************************************)

LEMMA BeginKeeps ==
  ASSUME InstanceConstants, Inv, NEW r \in Requests, begin(r)
  PROVE  Inv'
PROOF
<1> PICK v : v = [id |-> begun', req |-> r, at |-> now, pc |-> first(r.kind), seen |-> NoMember]
  OBVIOUS
<1>1. /\ begun' = begun + 1 /\ begun \in Nat /\ txs' = txs \cup {v} /\ now \in 0..MaxTime
      /\ UNCHANGED <<rows, locks, now>>
  BY DEF begin, Inv, Typed
<1>2. r.kind \in Kinds
  BY DEF InstanceConstants, wellFormed
<1>3. first(r.kind) \in places(r.kind) /\ first(r.kind) \in {"precheck", "actor", "self", "admin"}
  BY <1>2 DEF first, places, Kinds
<1>4. v \in Tx
  BY <1>1, <1>3, AllPlaces DEF Tx, MemberRow, NoMember, InstanceConstants
<1>5. v.id = begun + 1 /\ v.req = r /\ v.pc = first(r.kind) /\ v.at = now
  BY <1>1
<1>6. Typed'
  BY <1>1, <1>4 DEF Inv, Typed, rows
<1>7. Numbered'
  BY <1>1, <1>5 DEF Inv, Numbered
<1>8. Exclusive'
  BY <1>1 DEF Inv, Exclusive
<1>9. Holding(v)' /\ Reads(v)'
  BY <1>1, <1>3, <1>5 DEF Holding, Reads
<1>10. \A t \in txs : Holding(t)' /\ Reads(t)'
  <2>1. \A t \in txs : Holding(t)'
    BY <1>1 DEF Inv, Holding, Holds
  <2>2. \A t \in txs : Reads(t)'
    BY <1>1 DEF Inv, Reads, rows, isMember, isActive, acceptable, receipt, permitted, unseats,
                owners, pendingCount, live
  <2> QED
    BY <2>1, <2>2
<1>11. Rows' /\ Covered' /\ OwnerKept' /\ PendingCapped'
  BY <1>1 DEF Inv, Rows, Covered, OwnerKept, PendingCapped, rows, isMember, isActive, owners,
              pendingCount, live
<1> QED
  BY <1>1, <1>6, <1>7, <1>8, <1>9, <1>10, <1>11 DEF Inv

LEMMA TickKeeps ==
  ASSUME InstanceConstants, Inv, tick
  PROVE  Inv'
PROOF
<1>1. /\ now' = now + 1 /\ now \in Nat /\ now < MaxTime /\ MaxTime \in Nat
      /\ UNCHANGED <<rows, txs, locks, begun>>
  BY DEF tick, Inv, Typed, InstanceConstants
<1>2. Typed' /\ Numbered' /\ Exclusive'
  BY <1>1 DEF Inv, Typed, Numbered, Exclusive, rows
<1>3. \A t \in txs : Holding(t)'
  BY <1>1 DEF Inv, Holding, Holds
<1>4. \A t \in txs : Reads(t)'
  <2> SUFFICES ASSUME NEW t \in txs PROVE Reads(t)'
    OBVIOUS
  <2>1. Reads(t) /\ t.at <= now /\ t.at \in Nat
    BY Request
  <2> QED
    BY <1>1, <2>1 DEF Reads, rows, isMember, isActive, acceptable, receipt, permitted,
                      unseats, owners, pendingCount, live
<1>5. Rows'
  BY <1>1 DEF Inv, Rows, rows, isMember, Typed, MemberRow
<1>6. Covered' /\ OwnerKept'
  BY <1>1 DEF Inv, Covered, OwnerKept, rows, isActive, owners
<1>7. PendingCapped'
  <2> DEFINE N == {i \in Invitations : live(i, now)}
  <2>1. IsFiniteSet(N) /\ N' \subseteq N
    BY <1>1, FS_Subset DEF InstanceConstants, live, rows, Inv, Typed, InvitationRow
  <2>2. Cardinality(N') <= Cardinality(N) /\ Cardinality(N') \in Nat /\ Cardinality(N) \in Nat
    BY <2>1, FS_Subset, FS_CardinalityType
  <2>3. Cardinality(N) <= MaxPending /\ MaxPending \in Nat
    BY DEF Inv, PendingCapped, pendingCount, InstanceConstants
  <2> HIDE DEF N
  <2>4. Cardinality(N') <= MaxPending
    BY <2>2, <2>3
  <2> QED
    BY <2>4 DEF PendingCapped, pendingCount, N
<1> QED
  BY <1>1, <1>2, <1>3, <1>4, <1>5, <1>6, <1>7 DEF Inv

LEMMA InitInv ==
  ASSUME InstanceConstants, Init
  PROVE  Inv
PROOF
<1>1. /\ \A u \in Users : members[u] = IF u \in Founders
                            THEN [role |-> "owner", status |-> "active", updated |-> 0]
                            ELSE NoMember
      /\ \A i \in Invitations : invitations[i] = NoInvitation
      /\ Founders \subseteq Users /\ MaxTime \in Nat /\ MaxPending \in Nat
  BY DEF Init, InstanceConstants
<1>2. Typed
  BY <1>1 DEF Init, Typed, MemberRow, InvitationRow, NoMember, NoInvitation, Roles, None
<1>3. Numbered /\ Exclusive /\ \A t \in txs : Holding(t) /\ Reads(t)
  BY DEF Init, Numbered, Exclusive
<1>4. Rows /\ Covered
  <2>1. \A i \in Invitations : invitations[i].status = "absent"
    BY <1>1 DEF NoInvitation
  <2>2. \A u \in Founders : bootstrapped
    BY DEF Init
  <2>3. \A u \in Users : /\ isMember(u) <=> members[u].status # "none"
                         /\ isMember(u) => u \in Founders
                         /\ members[u].updated <= now
    BY <1>1 DEF Init, isMember, NoMember
  <2> QED
    BY <1>1, <2>1, <2>2, <2>3 DEF Rows, Covered
<1>5. OwnerKept
  BY <1>1 DEF Init, OwnerKept, owners, isActive
<1>6. PendingCapped
  <2>1. {i \in Invitations : live(i, now)} = {}
    BY DEF Init, live, NoInvitation
  <2> QED
    BY <1>1, <2>1, FS_EmptySet DEF PendingCapped, pendingCount
<1> QED
  BY <1>2, <1>3, <1>4, <1>5, <1>6 DEF Inv

\* Only the five commits write a row.
LEMMA Commits ==
  ASSUME [Next]_vars
  PROVE  UNCHANGED rows
         \/ \E t \in txs : \/ bootstrapCommit(t) \/ createCommit(t) \/ revokeCommit(t)
                           \/ acceptCommit(t) \/ memberCommit(t)
PROOF
<1>1. ASSUME NEW t, \/ precheck(t) \/ authorize(t) \/ admitCreate(t) \/ acceptSelf(t)
                    \/ acceptInvitation(t) \/ insertMember(t) \/ raced(t) \/ lockMembers(t)
                    \/ decide(t)
      PROVE  UNCHANGED rows
  <2>1. ASSUME NEW u, become(t, u) PROVE UNCHANGED rows
    BY <2>1 DEF become
  <2>2. ASSUME NEW pc, goto(t, pc) PROVE UNCHANGED rows
    BY <2>2, <2>1, Zenon DEF goto
  <2>3. rollback(t) => UNCHANGED rows
    BY DEF rollback
  <2> QED
    BY <1>1, <2>1, <2>2, <2>3, Zenon DEF precheck, authorize, admitCreate, acceptSelf,
       acceptInvitation, insertMember, raced, lockMembers, decide
<1>2. ASSUME NEW t \in txs, step(t), ~(UNCHANGED rows)
      PROVE  \/ bootstrapCommit(t) \/ createCommit(t) \/ revokeCommit(t)
             \/ acceptCommit(t) \/ memberCommit(t)
  BY <1>1, <1>2, Zenon DEF step
<1>3. (\E r \in Requests : begin(r)) \/ tick \/ (\E t \in txs : abort(t)) \/ UNCHANGED vars
      => UNCHANGED rows
  BY DEF begin, tick, abort, vars
<1> QED
  BY <1>2, <1>3, Zenon DEF Next

LEMMA StepInv ==
  ASSUME InstanceConstants, Inv, [Next]_vars
  PROVE  Inv'
PROOF
<1>1. CASE UNCHANGED vars
  <2>1. Typed' /\ Numbered' /\ Exclusive'
    BY <1>1 DEF vars, rows, Inv, Typed, Numbered, Exclusive
  <2>2. \A t \in txs' : Holding(t)' /\ Reads(t)'
    <3>1. \A t \in txs' : Holding(t)'
      BY <1>1 DEF vars, Inv, Holding, Holds
    <3>2. txs' = txs /\ UNCHANGED <<rows, now, begun>>
      BY <1>1 DEF vars
    <3>3. \A t \in txs' : Reads(t)'
      BY <3>2 DEF Inv, Reads, rows, isMember, isActive, acceptable, receipt, permitted,
                  unseats, owners, pendingCount, live
    <3> QED
      BY <3>1, <3>3
  <2>3. Rows' /\ Covered' /\ OwnerKept' /\ PendingCapped'
    BY <1>1 DEF vars, rows, Inv, Rows, Covered, OwnerKept, PendingCapped, isMember, isActive,
                owners, pendingCount, live
  <2> QED
    BY <2>1, <2>2, <2>3 DEF Inv
<1>2. ASSUME NEW t \in txs, step(t) PROVE Inv'
  BY <1>2, PrecheckKeeps, BootstrapKeeps, AuthorizeKeeps, AdmitKeeps, CreateKeeps, RevokeKeeps,
     AcceptSelfKeeps, AcceptInvitationKeeps, InsertKeeps, AcceptKeeps, LockMembersKeeps,
     DecideKeeps, MemberKeeps, RollbackStep
  DEF step, raced
<1>3. ASSUME NEW t \in txs, abort(t) PROVE Inv'
  BY <1>3, RollbackKeeps DEF abort
<1> QED
  BY <1>1, <1>2, <1>3, BeginKeeps, TickKeeps DEF Next

LEMMA SpecInv == InstanceConstants => (Spec => []Inv)
PROOF
<1>1. InstanceConstants /\ Init => Inv
  BY InitInv
<1>2. InstanceConstants /\ Inv /\ [Next]_vars => Inv'
  BY StepInv
<1>3. InstanceConstants => InstanceConstants'
  BY DEF InstanceConstants, wellFormed
<1>4. InstanceConstants => []InstanceConstants
  BY <1>3, PTL
<1> QED
  BY <1>1, <1>2, <1>4, PTL DEF Spec

-----------------------------------------------------------------------------
\* Once bootstrapped, an instance has an active owner, for any number of
\* owners that demote and suspend each other and themselves at the same time.
THEOREM OwnerAlwaysKept == InstanceConstants => (Spec => []OwnerKept)
BY SpecInv, PTL DEF Inv

\* There are never more invitations out than MAX_PENDING_INSTANCE_INVITATIONS,
\* however many are being created at the same time.
THEOREM PendingAlwaysCapped == InstanceConstants => (Spec => []PendingCapped)
BY SpecInv, PTL DEF Inv

LEMMA CoveredEntitles == Inv => InvitersEntitled
PROOF
<1> SUFFICES ASSUME Inv, NEW i \in Invitations, live(i, now)
             PROVE  LET by == invitations[i].by
                    IN  /\ isActive(by)
                        /\ \/ members[by].role = "owner"
                           \/ members[by].role = "admin" /\ invitations[i].role = "member"
  BY DEF InvitersEntitled
<1> DEFINE by == invitations[i].by
<1>1. invitations[i].status = "pending" /\ invitations[i].expires > now
      /\ invitations[i].expires \in Nat /\ now \in Nat
  BY DEF live, Inv, Typed, InvitationRow
<1>2. by \in Users /\ members[by].updated <= now /\ members[by].updated \in Nat
  BY <1>1 DEF Inv, Rows, Typed, MemberRow
<1>3. Covers(members[by], invitations[i].role)
  BY <1>1, <1>2 DEF Inv, Covered
<1> QED
  BY <1>3 DEF Covers, isActive

\* Whoever may no longer invite has no invitation out that has time left, for
\* any interleaving of invitations, demotions and suspensions, and any clock.
THEOREM InvitersAlwaysEntitled == InstanceConstants => (Spec => []InvitersEntitled)
BY SpecInv, CoveredEntitles, PTL

-----------------------------------------------------------------------------
(***************************************************************************)
(* The history in the receipts.                                            *)
(***************************************************************************)

LEMMA ReceiptsTyped ==
  ASSUME Inv
  PROVE  /\ log \in Seq(Receipt) /\ Len(log) \in Nat /\ DOMAIN log = 1..Len(log)
         /\ \A n \in DOMAIN log : log[n].user \in Users \cup {None} /\ log[n].kind \in Kinds
PROOF
<1>1. log \in Seq(Receipt) /\ Len(log) \in Nat /\ DOMAIN log = 1..Len(log)
  BY DEF Inv, Typed
<1>2. \A n \in DOMAIN log : log[n] \in Receipt
  BY <1>1
<1> QED
  BY <1>1, <1>2 DEF Receipt

\* One receipt more, of a key not used before, that tells what happened.
LEMMA ReceiptsGrow ==
  ASSUME InstanceConstants, Inv, ReceiptsExplain, NEW t \in txs, ~receipt(t),
         NEW user \in Users \cup {None},
         NEW before \in Standing \cup {NoMember}, NEW after \in Standing \cup {NoMember},
         log' = Append(log, entry(t, user, before, after)),
         \A x \in Users : IF x = user THEN before = standing(x) /\ after = standing(x)'
                          ELSE standing(x)' = standing(x)
  PROVE  ReceiptsExplain'
PROOF
<1> DEFINE L == Len(log)
           e == entry(t, user, before, after)
<1>1. /\ log \in Seq(Receipt) /\ L \in Nat /\ DOMAIN log = 1..L
      /\ log' \in Seq(Receipt) /\ Len(log') = L + 1 /\ DOMAIN log' = 1..(L + 1)
      /\ \A n \in 1..L : log'[n] = log[n]
      /\ log'[L + 1] = e
  <2>1. log \in Seq(Receipt) /\ L \in Nat /\ DOMAIN log = 1..L
    BY ReceiptsTyped
  <2>2. /\ log' \in Seq(Receipt) /\ Len(log') = L + 1 /\ \A n \in DOMAIN log : log'[n] = log[n]
        /\ log'[L + 1] = e
    BY Logged
  <2>3. DOMAIN log' = 1..(L + 1)
    BY <2>1, <2>2
  <2> QED
    BY <2>1, <2>2, <2>3
<1>2. /\ e.actor = t.req.actor /\ e.key = t.req.key /\ e.kind = t.req.kind
      /\ e.user = user /\ e.before = before /\ e.after = after
  BY DEF entry
<1>3. \A n \in 1..L : log[n].user \in Users \cup {None}
  BY <1>1, ReceiptsTyped
<1> HIDE DEF L, e
<1>4. ASSUME NEW n \in 1..(L + 1), NEW m \in 1..(n - 1),
             log'[m].actor = log'[n].actor, table(log'[m].kind) = table(log'[n].kind)
      PROVE  log'[m].key # log'[n].key
  <2>1. m \in 1..L
    BY <1>1
  <2>2. CASE n \in 1..L
    BY <1>1, <1>4, <2>1, <2>2 DEF ReceiptsExplain
  <2>3. CASE n = L + 1
    BY <1>1, <1>2, <1>4, <2>1, <2>3 DEF receipt
  <2> QED
    BY <1>1, <2>2, <2>3
<1>5. ASSUME NEW n \in 1..(L + 1), NEW m \in 1..(n - 1),
             log'[m].user = log'[n].user, log'[n].user # None,
             \A k \in (m + 1)..(n - 1) : log'[k].user # log'[n].user
      PROVE  log'[n].before = log'[m].after
  <2>1. m \in 1..L
    BY <1>1
  <2>2. CASE n \in 1..L
    <3>1. \A k \in (m + 1)..(n - 1) : log[k].user # log[n].user
      BY <1>1, <1>5, <2>2
    <3>2. log[m].user = log[n].user /\ log[n].user # None
      BY <1>1, <1>5, <2>1, <2>2
    <3>3. log[n].before = log[m].after
      BY <1>1, <2>2, <3>1, <3>2 DEF ReceiptsExplain
    <3> QED
      BY <1>1, <2>1, <2>2, <3>3
  <2>3. CASE n = L + 1
    <3>1. log[m].user = user /\ user \in Users /\ user # None
      BY <1>1, <1>2, <1>5, <2>1, <2>3 DEF None
    <3>2. \A k \in (m + 1)..L : log[k].user # log[m].user
      BY <1>1, <1>2, <1>5, <2>1, <2>3, <3>1
    <3>3. log[m].after = standing(user)
      BY <1>1, <2>1, <3>1, <3>2 DEF ReceiptsExplain
    <3> QED
      BY <1>1, <1>2, <2>1, <2>3, <3>1, <3>3
  <2> QED
    BY <1>1, <2>2, <2>3
<1>6. ASSUME NEW n \in 1..(L + 1), log'[n].user # None,
             \A k \in (n + 1)..(L + 1) : log'[k].user # log'[n].user
      PROVE  log'[n].after = [role |-> members'[log'[n].user].role,
                              status |-> members'[log'[n].user].status]
  <2>1. CASE n = L + 1
    BY <1>1, <1>2, <1>6, <2>1 DEF standing
  <2>2. CASE n \in 1..L
    <3>1. log[n].user \in Users /\ log[n].user # None
      BY <1>1, <1>3, <1>6, <2>2
    <3>2. log[n].user # user
      BY <1>1, <1>2, <1>6, <2>2
    <3>3. \A k \in (n + 1)..L : log[k].user # log[n].user
      BY <1>1, <1>6, <2>2
    <3>4. log[n].after = standing(log[n].user)
      BY <1>1, <2>2, <3>1, <3>3 DEF ReceiptsExplain, L
    <3> QED
      BY <1>1, <2>2, <3>1, <3>2, <3>4 DEF standing
  <2> QED
    BY <1>1, <2>1, <2>2
<1>7. \A n \in DOMAIN log' : \A m \in 1..(n - 1) :
        /\ log'[m].actor = log'[n].actor /\ table(log'[m].kind) = table(log'[n].kind) =>
             log'[m].key # log'[n].key
        /\ /\ log'[m].user = log'[n].user /\ log'[n].user # None
           /\ \A k \in (m + 1)..(n - 1) : log'[k].user # log'[n].user
           => log'[n].before = log'[m].after
  BY <1>1, <1>4, <1>5
<1>8. \A n \in DOMAIN log' :
        /\ log'[n].user # None
        /\ \A k \in (n + 1)..Len(log') : log'[k].user # log'[n].user
        => log'[n].after = [role |-> members'[log'[n].user].role,
                            status |-> members'[log'[n].user].status]
  BY <1>1, <1>6
<1> QED
  BY <1>7, <1>8 DEF ReceiptsExplain, standing

\* Nothing committed.
LEMMA QuietHistory ==
  ASSUME History, UNCHANGED rows
  PROVE  History'
PROOF
<1>1. ReceiptsExplain'
  BY DEF History, ReceiptsExplain, rows, standing
<1>2. Enrolled'
  BY DEF History, Enrolled, rows, isMember, accepted, founded
<1> QED
  BY <1>1, <1>2 DEF History

\* A receipt that is not of a bootstrap founds nobody.
LEMMA FoundedStays ==
  ASSUME InstanceConstants, Inv, NEW t \in txs, t.req.kind # "bootstrap",
         NEW user \in Users \cup {None},
         NEW before \in Standing \cup {NoMember}, NEW after \in Standing \cup {NoMember},
         log' = Append(log, entry(t, user, before, after))
  PROVE  /\ \A u \in Users : founded(u)' = founded(u)
         /\ \A n \in DOMAIN log' : log'[n].kind = "bootstrap" =>
              n \in DOMAIN log /\ log[n].kind = "bootstrap"
         /\ \A n \in DOMAIN log : n \in DOMAIN log'
PROOF
<1>1. /\ log \in Seq(Receipt) /\ log' \in Seq(Receipt) /\ Len(log') = Len(log) + 1
      /\ \A n \in DOMAIN log : n \in DOMAIN log' /\ log'[n] = log[n]
      /\ log'[Len(log) + 1] = entry(t, user, before, after)
  BY Logged DEF Inv, Typed
<1>2. log'[Len(log) + 1].kind # "bootstrap"
  BY <1>1 DEF entry
<1>3. \A n \in DOMAIN log' : n \in DOMAIN log \/ n = Len(log) + 1
  BY <1>1
<1> QED
  BY <1>1, <1>2, <1>3 DEF founded

LEMMA BootstrapHistory ==
  ASSUME InstanceConstants, Inv, History, NEW t \in txs, bootstrapCommit(t)
  PROVE  History'
PROOF
<1> DEFINE u == t.req.actor
           m == [role |-> "owner", status |-> "active", updated |-> t.at]
           after == [role |-> "owner", status |-> "active"]
<1>1. u \in Users /\ t.req.kind = "bootstrap"
  BY Request DEF bootstrapCommit
<1>2. SUFFICES ASSUME ~bootstrapped, members' = [members EXCEPT ![u] = m], bootstrapped' = TRUE,
                      log' = Append(log, entry(t, u, standing(u), after)),
                      UNCHANGED invitations
               PROVE  History'
  BY QuietHistory DEF bootstrapCommit, singletonTaken
<1>3. standing(u) \in Standing /\ after \in Standing
  BY <1>1 DEF standing, Standing, MemberRow, Inv, Typed, Roles
<1>4. \A x \in Users : members'[x] = IF x = u THEN m ELSE members[x]
  BY <1>2 DEF Inv, Typed
<1>5. \A x \in Users : ~isMember(x)
  BY <1>2 DEF Inv, Rows
<1>6. /\ log \in Seq(Receipt) /\ log' \in Seq(Receipt) /\ Len(log') = Len(log) + 1
      /\ \A n \in DOMAIN log : n \in DOMAIN log' /\ log'[n] = log[n]
      /\ log'[Len(log) + 1] = entry(t, u, standing(u), after)
  BY <1>1, <1>2, <1>3, Logged DEF Inv, Typed
<1>7. \A n \in DOMAIN log : log[n].kind # "bootstrap"
  BY <1>2 DEF History, Enrolled
<1>8. ~receipt(t)
  <2>1. \A k \in Kinds : table(k) = "bootstrap" => k = "bootstrap"
    BY DEF table, Kinds
  <2>2. \A n \in DOMAIN log : log[n].kind \in Kinds
    BY ReceiptsTyped
  <2> QED
    BY <1>1, <1>7, <2>1, <2>2 DEF receipt, table
<1>9. ReceiptsExplain'
  <2>1. \A x \in Users : IF x = u THEN after = standing(x)' ELSE standing(x)' = standing(x)
    BY <1>4 DEF standing
  <2> QED
    BY <1>1, <1>2, <1>3, <1>8, <2>1, ReceiptsGrow DEF History
<1>10. \A n \in DOMAIN log' : n \in DOMAIN log \/ n = Len(log) + 1
  BY <1>6
<1>11. /\ log'[Len(log) + 1].kind = "bootstrap" /\ log'[Len(log) + 1].user = u
       /\ Len(log) + 1 \in DOMAIN log'
  BY <1>1, <1>6 DEF entry
<1>12. \A x \in Users : founded(x)' = IF x = u THEN {Len(log) + 1} ELSE {}
  BY <1>6, <1>7, <1>10, <1>11 DEF founded
<1>13. u \notin Founders /\ \A x \in Users : accepted(x)' = {} /\ x \notin Founders
  BY <1>1, <1>2, <1>5 DEF History, Enrolled, accepted
<1>14. \A x \in Users : isMember(x)' <=> x = u
  BY <1>4, <1>5 DEF isMember
<1>15. Enrolled'
  <2>1. \A x \in Users :
          IF ~isMember(x)' \/ x \in Founders THEN accepted(x)' = {} /\ founded(x)' = {}
          ELSE accepted(x)' = {} /\ \E n \in DOMAIN log' : founded(x)' = {n}
    BY <1>11, <1>12, <1>13, <1>14
  <2>2. \A x \in Founders : FALSE
    BY <1>13 DEF InstanceConstants
  <2>3. \A i \in Invitations :
          invitations'[i].acceptedBy # None =>
            invitations'[i].status = "accepted"
            /\ invitations'[i].acceptedBy = invitations'[i].to
    BY <1>2 DEF History, Enrolled
  <2>4. \A n, k \in DOMAIN log' :
          log'[n].kind = "bootstrap" /\ log'[k].kind = "bootstrap" => n = k
    BY <1>6, <1>7, <1>10
  <2> QED
    BY <1>2, <2>1, <2>2, <2>3, <2>4 DEF Enrolled
<1> QED
  BY <1>9, <1>15 DEF History

LEMMA CreateHistory ==
  ASSUME InstanceConstants, Inv, History, NEW t \in txs, createCommit(t)
  PROVE  History'
PROOF
<1> DEFINE s == t.req.subject
           inv == [status |-> "pending", role |-> t.req.arg, by |-> t.req.actor, to |-> t.req.to,
                   expires |-> t.at + 1, acceptedBy |-> None]
<1>1. s \in Invitations /\ t.req.kind = "create"
  BY Request DEF createCommit
<1>2. SUFFICES ASSUME invitations[s].status = "absent", ~receipt(t),
                      invitations' = [invitations EXCEPT ![s] = inv],
                      log' = Append(log, entry(t, None, NoMember, NoMember)),
                      UNCHANGED <<members, bootstrapped>>
               PROVE  History'
  BY QuietHistory DEF createCommit
<1>3. \A i \in Invitations : invitations'[i] = IF i = s THEN inv ELSE invitations[i]
  BY <1>2 DEF Inv, Typed
<1>4. invitations[s].acceptedBy = None
  BY <1>1, <1>2 DEF History, Enrolled
<1>5. \A i \in Invitations : invitations'[i].acceptedBy = invitations[i].acceptedBy
  BY <1>3, <1>4
<1>6. ReceiptsExplain'
  <2>1. \A x \in Users : x # None /\ standing(x)' = standing(x)
    BY <1>2 DEF standing, InstanceConstants, None
  <2>2. None \in Users \cup {None} /\ NoMember \in Standing \cup {NoMember}
    OBVIOUS
  <2>3. \A x \in Users : IF x = None THEN NoMember = standing(x) /\ NoMember = standing(x)'
                          ELSE standing(x)' = standing(x)
    BY <2>1
  <2> QED
    BY <1>2, <2>2, <2>3, ReceiptsGrow DEF History
<1>7. Enrolled'
  <2>1. \A x \in Users : accepted(x)' = accepted(x) /\ isMember(x)' = isMember(x)
    BY <1>2, <1>5 DEF accepted, isMember
  <2>2. \A i \in Invitations :
          invitations'[i].acceptedBy # None =>
            invitations'[i].status = "accepted"
            /\ invitations'[i].acceptedBy = invitations'[i].to
    BY <1>3, <1>4, <1>5 DEF History, Enrolled
  <2>3. Founders \subseteq Users
    BY DEF InstanceConstants
  <2>4. None \in Users \cup {None} /\ NoMember \in Standing \cup {NoMember}
    OBVIOUS
  <2>5. /\ \A x \in Users : founded(x)' = founded(x)
        /\ \A n \in DOMAIN log' : log'[n].kind = "bootstrap" =>
             n \in DOMAIN log /\ log[n].kind = "bootstrap"
        /\ \A n \in DOMAIN log : n \in DOMAIN log'
    BY <1>1, <1>2, <2>4, FoundedStays
  <2> QED
    BY <1>2, <2>1, <2>2, <2>3, <2>5 DEF History, Enrolled
<1> QED
  BY <1>6, <1>7 DEF History

LEMMA RevokeHistory ==
  ASSUME InstanceConstants, Inv, History, NEW t \in txs, revokeCommit(t)
  PROVE  History'
PROOF
<1> DEFINE s == t.req.subject
<1>1. s \in Invitations /\ t.req.kind = "revoke"
  BY Request DEF revokeCommit
<1>2. SUFFICES ASSUME invitations[s].status = "pending", ~receipt(t),
                      invitations' = [invitations EXCEPT ![s].status = "revoked"],
                      log' = Append(log, entry(t, None, NoMember, NoMember)),
                      UNCHANGED <<members, bootstrapped>>
               PROVE  History'
  BY QuietHistory DEF revokeCommit
<1>3. \A i \in Invitations :
        /\ invitations'[i].acceptedBy = invitations[i].acceptedBy
        /\ invitations'[i].to = invitations[i].to
        /\ invitations'[i].status = IF i = s THEN "revoked" ELSE invitations[i].status
  BY <1>1, <1>2 DEF Inv, Typed, InvitationRow
<1>4. ReceiptsExplain'
  <2>1. \A x \in Users : x # None /\ standing(x)' = standing(x)
    BY <1>2 DEF standing, InstanceConstants, None
  <2>2. None \in Users \cup {None} /\ NoMember \in Standing \cup {NoMember}
    OBVIOUS
  <2>3. \A x \in Users : IF x = None THEN NoMember = standing(x) /\ NoMember = standing(x)'
                          ELSE standing(x)' = standing(x)
    BY <2>1
  <2> QED
    BY <1>2, <2>2, <2>3, ReceiptsGrow DEF History
<1>5. Enrolled'
  <2>1. \A x \in Users : accepted(x)' = accepted(x) /\ isMember(x)' = isMember(x)
    BY <1>2, <1>3 DEF accepted, isMember
  <2>2. \A i \in Invitations :
          invitations'[i].acceptedBy # None =>
            invitations'[i].status = "accepted"
            /\ invitations'[i].acceptedBy = invitations'[i].to
    BY <1>2, <1>3 DEF History, Enrolled
  <2>3. Founders \subseteq Users
    BY DEF InstanceConstants
  <2>4. None \in Users \cup {None} /\ NoMember \in Standing \cup {NoMember}
    OBVIOUS
  <2>5. /\ \A x \in Users : founded(x)' = founded(x)
        /\ \A n \in DOMAIN log' : log'[n].kind = "bootstrap" =>
             n \in DOMAIN log /\ log[n].kind = "bootstrap"
        /\ \A n \in DOMAIN log : n \in DOMAIN log'
    BY <1>1, <1>2, <2>4, FoundedStays
  <2> QED
    BY <1>2, <2>1, <2>2, <2>3, <2>5 DEF History, Enrolled
<1> QED
  BY <1>4, <1>5 DEF History

LEMMA AcceptHistory ==
  ASSUME InstanceConstants, Inv, History, NEW t \in txs, acceptCommit(t)
  PROVE  History'
PROOF
<1> DEFINE u == t.req.actor
           s == t.req.subject
           m == [role |-> invitations[s].role, status |-> "active", updated |-> t.at]
           after == [role |-> invitations[s].role, status |-> "active"]
<1>1. /\ u \in Users /\ s \in Invitations /\ t.req.kind = "accept"
      /\ acceptable(t) /\ ~isMember(u) /\ u # None
  BY Request DEF acceptCommit, Reads, InstanceConstants, None
<1>2. SUFFICES ASSUME members' = [members EXCEPT ![u] = m], ~receipt(t),
                      invitations' = [invitations EXCEPT ![s].status = "accepted",
                                                         ![s].acceptedBy = u],
                      log' = Append(log, entry(t, u, standing(u), after)),
                      UNCHANGED bootstrapped
               PROVE  History'
  BY QuietHistory DEF acceptCommit
<1>3. invitations[s].status = "pending" /\ invitations[s].role \in Roles /\ invitations[s].to = u
  BY <1>1 DEF acceptable, Inv, Rows
<1>4. standing(u) \in Standing /\ after \in Standing
  BY <1>1, <1>3 DEF standing, Standing, MemberRow, Inv, Typed
<1>5. /\ \A x \in Users : members'[x] = IF x = u THEN m ELSE members[x]
      /\ \A i \in Invitations :
           /\ invitations'[i].to = invitations[i].to
           /\ invitations'[i].acceptedBy = IF i = s THEN u ELSE invitations[i].acceptedBy
           /\ invitations'[i].status = IF i = s THEN "accepted" ELSE invitations[i].status
  BY <1>1, <1>2 DEF Inv, Typed, InvitationRow
<1>6. ReceiptsExplain'
  <2>1. \A x \in Users : IF x = u THEN after = standing(x)' ELSE standing(x)' = standing(x)
    BY <1>5 DEF standing
  <2> QED
    BY <1>1, <1>2, <1>4, <2>1, ReceiptsGrow DEF History
<1>7. \A x \in Users : isMember(x)' <=> x = u \/ isMember(x)
  BY <1>3, <1>5 DEF isMember, Roles
<1>8. invitations[s].acceptedBy = None
  BY <1>1, <1>3 DEF History, Enrolled
<1>9. accepted(u) = {} /\ founded(u) = {} /\ u \notin Founders
  BY <1>1 DEF History, Enrolled
<1>10. accepted(u)' = {s} /\ \A x \in Users : x # u => accepted(x)' = accepted(x)
  <2>1. accepted(u)' = {s}
    BY <1>1, <1>5, <1>9 DEF accepted
  <2>2. ASSUME NEW x \in Users, x # u PROVE accepted(x)' = accepted(x)
    <3>1. x # None
      BY DEF InstanceConstants, None
    <3> QED
      BY <1>1, <1>5, <1>8, <2>2, <3>1 DEF accepted
  <2> QED
    BY <2>1, <2>2
<1>11. /\ \A x \in Users : founded(x)' = founded(x)
       /\ \A n \in DOMAIN log' : log'[n].kind = "bootstrap" =>
            n \in DOMAIN log /\ log[n].kind = "bootstrap"
       /\ \A n \in DOMAIN log : n \in DOMAIN log'
  BY <1>1, <1>2, <1>4, FoundedStays
<1>12. Enrolled'
  <2>1. \A x \in Users :
          IF ~isMember(x)' \/ x \in Founders THEN accepted(x)' = {} /\ founded(x)' = {}
          ELSE \/ founded(x)' = {} /\ \E i \in Invitations : accepted(x)' = {i}
               \/ accepted(x)' = {} /\ \E n \in DOMAIN log' : founded(x)' = {n}
    <3> SUFFICES ASSUME NEW x \in Users
                 PROVE  IF ~isMember(x)' \/ x \in Founders
                        THEN accepted(x)' = {} /\ founded(x)' = {}
                        ELSE \/ founded(x)' = {} /\ \E i \in Invitations : accepted(x)' = {i}
                             \/ accepted(x)' = {} /\ \E n \in DOMAIN log' : founded(x)' = {n}
      OBVIOUS
    <3>1. CASE x = u
      BY <1>1, <1>7, <1>9, <1>10, <1>11, <3>1
    <3>2. CASE x # u
      BY <1>7, <1>10, <1>11, <3>2 DEF History, Enrolled
    <3> QED
      BY <3>1, <3>2
  <2>2. \A x \in Founders : isMember(x)'
    BY <1>7 DEF History, Enrolled, InstanceConstants
  <2>3. \A i \in Invitations :
          invitations'[i].acceptedBy # None =>
            invitations'[i].status = "accepted"
            /\ invitations'[i].acceptedBy = invitations'[i].to
    BY <1>3, <1>5 DEF History, Enrolled
  <2> QED
    BY <1>2, <1>11, <2>1, <2>2, <2>3 DEF History, Enrolled
<1> QED
  BY <1>6, <1>12 DEF History

LEMMA MemberHistory ==
  ASSUME InstanceConstants, Inv, History, NEW t \in txs, memberCommit(t)
  PROVE  History'
PROOF
<1> DEFINE u == t.req.subject
           before == standing(u)
           after == [role |-> changed(t).role, status |-> changed(t).status]
<1>1. t.pc = "commit" /\ ~receipt(t)
  BY Request DEF memberCommit, Reads
<1>2. PICK m : m = changed(t)
  OBVIOUS
<1>3. /\ u \in Users /\ isMember(u) /\ t.req.kind # "bootstrap"
      /\ m.role \in Roles /\ m.status \in {"active", "suspended"} /\ m \in MemberRow
  BY <1>1, <1>2, Changing DEF Changes
<1>4. SUFFICES ASSUME members' = [members EXCEPT ![u] = m],
                      invitations' = [i \in Invitations |->
                        IF i \in cascade(t) THEN [invitations[i] EXCEPT !.status = "revoked"]
                        ELSE invitations[i]],
                      log' = Append(log, entry(t, u, before, after)),
                      UNCHANGED bootstrapped
               PROVE  History'
  BY <1>2, QuietHistory DEF memberCommit
<1>5. before \in Standing /\ after \in Standing
  BY <1>2, <1>3 DEF standing, Standing, MemberRow, Inv, Typed
<1>6. \A x \in Users : members'[x] = IF x = u THEN m ELSE members[x]
  BY <1>4 DEF Inv, Typed
<1>7. \A i \in Invitations :
        /\ invitations'[i].acceptedBy = invitations[i].acceptedBy
        /\ invitations'[i].to = invitations[i].to
        /\ invitations[i].status = "accepted" => invitations'[i].status = "accepted"
  BY <1>4 DEF Inv, Typed, InvitationRow, cascade, live
<1>8. ReceiptsExplain'
  <2>1. \A x \in Users : IF x = u THEN after = standing(x)' ELSE standing(x)' = standing(x)
    BY <1>2, <1>6 DEF standing
  <2> QED
    BY <1>1, <1>3, <1>4, <1>5, <2>1, ReceiptsGrow DEF History
<1>9. Enrolled'
  <2>1. \A x \in Users : accepted(x)' = accepted(x) /\ isMember(x)' = isMember(x)
    BY <1>3, <1>6, <1>7 DEF accepted, isMember, Roles
  <2>2. \A i \in Invitations :
          invitations'[i].acceptedBy # None =>
            invitations'[i].status = "accepted"
            /\ invitations'[i].acceptedBy = invitations'[i].to
    BY <1>7 DEF History, Enrolled
  <2>3. Founders \subseteq Users
    BY DEF InstanceConstants
  <2>4. /\ \A x \in Users : founded(x)' = founded(x)
        /\ \A n \in DOMAIN log' : log'[n].kind = "bootstrap" =>
             n \in DOMAIN log /\ log[n].kind = "bootstrap"
        /\ \A n \in DOMAIN log : n \in DOMAIN log'
    BY <1>3, <1>4, <1>5, FoundedStays
  <2> QED
    BY <1>4, <2>1, <2>2, <2>3, <2>4 DEF History, Enrolled
<1> QED
  BY <1>8, <1>9 DEF History

LEMMA StepHistory ==
  ASSUME InstanceConstants, Inv, History, [Next]_vars
  PROVE  History'
BY Commits, QuietHistory, BootstrapHistory, CreateHistory, RevokeHistory, AcceptHistory,
   MemberHistory

LEMMA InitHistory ==
  ASSUME InstanceConstants, Init
  PROVE  History
PROOF
<1>1. log = <<>> /\ DOMAIN log = {} /\ Len(log) = 0
  BY DEF Init
<1>2. \A i \in Invitations : invitations[i].acceptedBy = None
  BY DEF Init, NoInvitation
<1>3. \A u \in Users : isMember(u) <=> u \in Founders
  BY DEF Init, isMember, NoMember
<1>4. \A u \in Users : accepted(u) = {} /\ founded(u) = {}
  BY <1>1, <1>2 DEF accepted, founded, InstanceConstants, None
<1>5. Enrolled
  BY <1>1, <1>2, <1>3, <1>4 DEF Enrolled, InstanceConstants
<1>6. ReceiptsExplain
  BY <1>1 DEF ReceiptsExplain
<1> QED
  BY <1>5, <1>6 DEF History

LEMMA SpecHistory == InstanceConstants => (Spec => []History)
PROOF
<1>1. InstanceConstants /\ Init => History
  BY InitHistory
<1>2. InstanceConstants /\ Inv /\ History /\ [Next]_vars => History'
  BY StepHistory
<1>3. InstanceConstants => InstanceConstants'
  BY DEF InstanceConstants, wellFormed
<1> QED
  BY <1>1, <1>2, <1>3, SpecInv, PTL DEF Spec

\* The receipts tell the whole history of the members, and no idempotency key
\* is used twice in a table, for any number of concurrent commands.
THEOREM ReceiptsAlwaysExplain == InstanceConstants => (Spec => []ReceiptsExplain)
BY SpecHistory, PTL DEF History

LEMMA EnrolledCounts ==
  ASSUME InstanceConstants, Inv, History
  PROVE  EnrolledOnce
PROOF
<1>1. ASSUME NEW u \in Users
      PROVE  isMember(u) <=>
               u \in Founders \/ Cardinality(accepted(u)) + Cardinality(founded(u)) = 1
  <2>1. CASE ~isMember(u) \/ u \in Founders
    <3>1. accepted(u) = {} /\ founded(u) = {} /\ (u \in Founders => isMember(u))
      BY <2>1 DEF History, Enrolled
    <3>2. Cardinality(accepted(u)) = 0 /\ Cardinality(founded(u)) = 0
      BY <3>1, FS_EmptySet
    <3> QED
      BY <2>1, <3>1, <3>2
  <2>2. CASE isMember(u) /\ u \notin Founders
    <3>1. \/ founded(u) = {} /\ \E i \in Invitations : accepted(u) = {i}
          \/ accepted(u) = {} /\ \E n \in DOMAIN log : founded(u) = {n}
      BY <2>2 DEF History, Enrolled
    <3>2. Cardinality({}) = 0 /\ \A x : Cardinality({x}) = 1
      BY FS_EmptySet, FS_Singleton
    <3>3. \/ Cardinality(accepted(u)) = 1 /\ Cardinality(founded(u)) = 0
          \/ Cardinality(accepted(u)) = 0 /\ Cardinality(founded(u)) = 1
      <4>1. ASSUME NEW S, NEW T, T = {}, NEW x, S = {x}
            PROVE  Cardinality(S) = 1 /\ Cardinality(T) = 0
        BY <3>2, <4>1
      <4> QED
        BY <3>1, <4>1
    <3>4. Cardinality(accepted(u)) + Cardinality(founded(u)) = 1
      BY <3>3
    <3> QED
      BY <2>2, <3>4
  <2> QED
    BY <2>1, <2>2
<1>2. Cardinality({n \in DOMAIN log : log[n].kind = "bootstrap"}) <= 1
  <2> DEFINE B == {n \in DOMAIN log : log[n].kind = "bootstrap"}
  <2>1. CASE B = {}
    BY <2>1, FS_EmptySet
  <2>2. CASE B # {}
    <3>1. PICK n : B = {n}
      BY <2>2 DEF History, Enrolled
    <3> QED
      BY <3>1, FS_Singleton
  <2> QED
    BY <2>1, <2>2
<1>3. \A i \in Invitations :
        invitations[i].acceptedBy # None =>
          invitations[i].status = "accepted" /\ invitations[i].acceptedBy = invitations[i].to
  BY DEF History, Enrolled
<1> QED
  BY <1>1, <1>2, <1>3 DEF EnrolledOnce, accepted, founded

\* Every member came in one way only, and an invitation enrols the user it was
\* bound to, for any number of acceptances and bootstraps at the same time.
THEOREM AlwaysEnrolledOnce == InstanceConstants => (Spec => []EnrolledOnce)
PROOF
<1>1. InstanceConstants /\ Inv /\ History => EnrolledOnce
  BY EnrolledCounts
<1>2. InstanceConstants => InstanceConstants'
  BY DEF InstanceConstants, wellFormed
<1> QED
  BY <1>1, <1>2, SpecInv, SpecHistory, PTL

-----------------------------------------------------------------------------
(***************************************************************************)
(* The abstract governance.                                                *)
(***************************************************************************)

Actors == [n \in DOMAIN log |-> log[n].actor]

LEMMA ActorsGrow ==
  ASSUME InstanceConstants, Inv, NEW t \in txs, NEW user \in Users \cup {None},
         NEW before \in Standing \cup {NoMember}, NEW after \in Standing \cup {NoMember},
         log' = Append(log, entry(t, user, before, after))
  PROVE  Actors' = Append(Actors, t.req.actor) /\ Actors' # Actors
PROOF
<1>1. /\ log \in Seq(Receipt) /\ Len(log) \in Nat /\ DOMAIN log = 1..Len(log)
      /\ log' \in Seq(Receipt) /\ Len(log') = Len(log) + 1
      /\ \A n \in DOMAIN log : log'[n] = log[n]
      /\ log'[Len(log) + 1].actor = t.req.actor
  BY Logged, ReceiptsTyped DEF entry
<1>2. DOMAIN log' = 1..(Len(log) + 1)
  BY <1>1
<1>3. t.req.actor \in Users /\ \A n \in DOMAIN log : log[n].actor \in Users
  <2>1. \A n \in DOMAIN log : log[n] \in Receipt
    BY <1>1
  <2> QED
    BY <2>1, Request DEF Receipt
<1>4. Actors \in Seq(Users) /\ Len(Actors) = Len(log)
  BY <1>1, <1>3 DEF Actors
<1>5. /\ Append(Actors, t.req.actor) \in Seq(Users)
      /\ Len(Append(Actors, t.req.actor)) = Len(log) + 1
      /\ \A n \in 1..Len(log) : Append(Actors, t.req.actor)[n] = log[n].actor
      /\ Append(Actors, t.req.actor)[Len(log) + 1] = t.req.actor
  BY <1>1, <1>3, <1>4 DEF Actors
<1>6. /\ Actors' \in Seq(Users) /\ Len(Actors') = Len(log) + 1
      /\ \A n \in 1..(Len(log) + 1) :
           Actors'[n] = IF n = Len(log) + 1 THEN t.req.actor ELSE log[n].actor
  <2>1. \A n \in 1..(Len(log) + 1) :
          log'[n].actor = IF n = Len(log) + 1 THEN t.req.actor ELSE log[n].actor
    BY <1>1
  <2> QED
    BY <1>1, <1>2, <1>3, <2>1 DEF Actors
<1>7. \A n \in 1..(Len(log) + 1) : Actors'[n] = Append(Actors, t.req.actor)[n]
  BY <1>1, <1>5, <1>6
<1> HIDE DEF Actors
<1>8. Actors' = Append(Actors, t.req.actor)
  BY <1>1, <1>5, <1>6, <1>7
<1> QED
  BY <1>1, <1>4, <1>6, <1>8

\* A commit under the name of its actor, as one of the abstract changes.
LEMMA GovernedBy ==
  ASSUME InstanceConstants, Inv, NEW t \in txs, Actors' = Append(Actors, t.req.actor),
         Actors' # Actors,
         \/ Governance!Bootstrap(t.req.actor, t.at)
         \/ \E i \in Invitations :
              \/ Governance!Revoke(t.req.actor, i) \/ Governance!Accept(t.req.actor, i, t.at)
              \/ \E role \in Roles : Governance!Invite(t.req.actor, i, role, t.at)
         \/ \E u \in Users, role \in Roles, status \in {"active", "suspended"} :
              Governance!Administer(t.req.actor, u, role, status, t.at)
  PROVE  Governance!GovernanceNext
PROOF
<1>1. t.req.actor \in Users /\ t.at \in 0..MaxTime
  BY Request DEF Tx
<1> QED
  BY <1>1 DEF Governance!GovernanceNext, Actors, Roles

LEMMA BootstrapGoverned ==
  ASSUME InstanceConstants, Inv, NEW t \in txs, bootstrapCommit(t)
  PROVE  Governance!GovernanceNext \/ UNCHANGED rows
PROOF
<1> DEFINE u == t.req.actor
           after == [role |-> "owner", status |-> "active"]
<1>1. u \in Users /\ \/ UNCHANGED rows
                     \/ /\ ~bootstrapped /\ bootstrapped' = TRUE /\ UNCHANGED invitations
                        /\ members' = [members EXCEPT ![u] =
                             [role |-> "owner", status |-> "active", updated |-> t.at]]
                        /\ log' = Append(log, entry(t, u, standing(u), after))
  BY Request DEF bootstrapCommit, singletonTaken
<1>2. SUFFICES ASSUME ~(UNCHANGED rows)
               PROVE  Governance!GovernanceNext
  OBVIOUS
<1>3. standing(u) \in Standing /\ after \in Standing
  BY <1>1 DEF standing, Standing, MemberRow, Inv, Typed, Roles
<1>4. Actors' = Append(Actors, u) /\ Actors' # Actors
  BY <1>1, <1>2, <1>3, ActorsGrow
<1>5. \A v \in Users : members[v].role = "none"
  BY <1>1, <1>2 DEF Inv, Rows, isMember
<1>6. Governance!Bootstrap(u, t.at)
  BY <1>1, <1>2, <1>4, <1>5 DEF Governance!Bootstrap, Governance!By, Actors
<1> QED
  BY <1>4, <1>6, GovernedBy

LEMMA CreateGoverned ==
  ASSUME InstanceConstants, Inv, NEW t \in txs, createCommit(t)
  PROVE  Governance!GovernanceNext \/ UNCHANGED rows
PROOF
<1> DEFINE a == t.req.actor
           s == t.req.subject
<1>1. SUFFICES ASSUME ~(UNCHANGED rows)
               PROVE  Governance!GovernanceNext
  OBVIOUS
<1>2. /\ invitations[s].status = "absent" /\ UNCHANGED <<members, bootstrapped>>
      /\ invitations' = [invitations EXCEPT ![s] =
           [status |-> "pending", role |-> t.req.arg, by |-> a, to |-> t.req.to,
            expires |-> t.at + 1, acceptedBy |-> 0]]
      /\ log' = Append(log, entry(t, None, NoMember, NoMember))
  BY <1>1 DEF createCommit, None
<1>3. /\ a \in Users /\ s \in Invitations /\ t.req.arg \in Roles /\ t.req.to \in Users
      /\ Reads(t) /\ t.pc = "publish" /\ t.req.kind = "create"
  BY Request DEF createCommit, wellFormed
<1>4. None \in Users \cup {None} /\ NoMember \in Standing \cup {NoMember}
  OBVIOUS
<1>5. Actors' = Append(Actors, a) /\ Actors' # Actors
  BY <1>2, <1>4, ActorsGrow
<1>6. Governance!Over(a, t.req.arg)
  BY <1>3 DEF Reads, isActive, Governance!Over, Governance!Active
<1>7. Cardinality({j \in Invitations : Governance!Live(j, t.at)}) < MaxPending
  BY <1>3 DEF Reads, pendingCount, live, Governance!Live
<1>8. \E to \in Users :
         invitations' = [invitations EXCEPT ![s] =
           [status |-> "pending", role |-> t.req.arg, by |-> a, to |-> to,
            expires |-> t.at + 1, acceptedBy |-> 0]]
  BY <1>2, <1>3
<1>9. Governance!By(a)
  BY <1>5 DEF Governance!By, Actors
<1>10. Governance!Invite(a, s, t.req.arg, t.at)
  <2>1. invitations[s].status = "absent" /\ UNCHANGED <<members, bootstrapped>>
    BY <1>2
  <2>2. \A S : Governance!Cardinality(S) = Cardinality(S)
    BY Zenon DEF Governance!Cardinality, Cardinality
  <2> QED
    BY <2>1, <2>2, <1>6, <1>7, <1>8, <1>9, Zenon DEF Governance!Invite
<1> QED
  BY <1>3, <1>5, <1>10, GovernedBy

LEMMA RevokeGoverned ==
  ASSUME InstanceConstants, Inv, NEW t \in txs, revokeCommit(t)
  PROVE  Governance!GovernanceNext \/ UNCHANGED rows
PROOF
<1> DEFINE a == t.req.actor
           s == t.req.subject
<1>1. SUFFICES ASSUME ~(UNCHANGED rows)
               PROVE  Governance!GovernanceNext
  OBVIOUS
<1>2. /\ invitations[s].status = "pending" /\ UNCHANGED <<members, bootstrapped>>
      /\ ~(members[a].role = "admin" /\ invitations[s].role # "member")
      /\ invitations' = [invitations EXCEPT ![s].status = "revoked"]
      /\ log' = Append(log, entry(t, None, NoMember, NoMember))
  BY <1>1 DEF revokeCommit
<1>3. /\ a \in Users /\ s \in Invitations /\ Reads(t) /\ t.pc = "invitation"
      /\ t.req.kind = "revoke"
  BY Request DEF revokeCommit
<1>4. None \in Users \cup {None} /\ NoMember \in Standing \cup {NoMember}
  OBVIOUS
<1>5. Actors' = Append(Actors, a) /\ Actors' # Actors
  BY <1>2, <1>4, ActorsGrow
<1>6. Governance!Over(a, invitations[s].role)
  BY <1>2, <1>3 DEF Reads, isActive, Governance!Over, Governance!Active
<1>7. Governance!Revoke(a, s)
  BY <1>2, <1>5, <1>6 DEF Governance!Revoke, Governance!By, Actors
<1> QED
  BY <1>3, <1>5, <1>7, GovernedBy

LEMMA AcceptGoverned ==
  ASSUME InstanceConstants, Inv, NEW t \in txs, acceptCommit(t)
  PROVE  Governance!GovernanceNext \/ UNCHANGED rows
PROOF
<1> DEFINE u == t.req.actor
           s == t.req.subject
           after == [role |-> invitations[s].role, status |-> "active"]
<1>1. SUFFICES ASSUME ~(UNCHANGED rows)
               PROVE  Governance!GovernanceNext
  OBVIOUS
<1>2. /\ UNCHANGED bootstrapped
      /\ members' = [members EXCEPT ![u] =
           [role |-> invitations[s].role, status |-> "active", updated |-> t.at]]
      /\ invitations' = [invitations EXCEPT ![s].status = "accepted", ![s].acceptedBy = u]
      /\ log' = Append(log, entry(t, u, standing(u), after))
  BY <1>1 DEF acceptCommit
<1>3. u \in Users /\ s \in Invitations /\ acceptable(t) /\ ~isMember(u)
  BY Request DEF acceptCommit, Reads
<1>4. /\ invitations[s].role \in Roles
      /\ standing(u) \in Standing /\ after \in Standing
  BY <1>3 DEF acceptable, standing, Standing, MemberRow, Inv, Typed, Rows
<1>5. Actors' = Append(Actors, u) /\ Actors' # Actors
  BY <1>2, <1>3, <1>4, ActorsGrow
<1>6. Governance!Live(s, t.at) /\ invitations[s].to = u /\ members[u].role = "none"
  <2>1. t.at \in Nat /\ invitations[s].expires \in Nat
    BY <1>3, Request DEF Inv, Typed, InvitationRow
  <2>2. invitations[s].status = "pending" /\ invitations[s].to = u /\ t.at < invitations[s].expires
    BY <1>3 DEF acceptable
  <2> HIDE DEF u, s, after
  <2>3. members[u].role = "none"
    BY <1>3, Zenon DEF isMember
  <2> QED
    BY <2>1, <2>2, <2>3 DEF Governance!Live
<1>7. Governance!Accept(u, s, t.at)
  BY <1>2, <1>5, <1>6 DEF Governance!Accept, Governance!By, Actors
<1> QED
  BY <1>3, <1>5, <1>7, GovernedBy

\* The cascade takes back what the member may no longer make: nothing else of
\* what it made is pending, has time left and is beyond its new standing.
LEMMA CascadeIsLost ==
  ASSUME InstanceConstants, Inv, NEW t \in txs, t.pc = "commit", NEW i \in Invitations
  PROVE  i \in cascade(t) <=> /\ live(i, t.at) /\ invitations[i].by = t.req.subject
                              /\ ~Covers(changed(t), invitations[i].role)
PROOF
<1> DEFINE u == t.req.subject
           role == invitations[i].role
<1>1. PICK m : m = changed(t)
  OBVIOUS
<1>2. /\ Changes(t) /\ u \in Users /\ t.seen = members[u] /\ t.seen \in MemberRow
      /\ t.seen.role \in Roles /\ m.role \in Roles /\ t.at \in Nat
      /\ m.role = (IF t.req.kind = "set_role" THEN t.req.arg ELSE t.seen.role)
      /\ m.status = (IF t.req.kind = "set_role" THEN t.seen.status ELSE t.req.arg)
      /\ m.status \in {"active", "suspended"} /\ members[u].updated <= t.at
  BY <1>1, Changing DEF Reads, Inv, Typed, MemberRow
<1>3. SUFFICES ASSUME live(i, t.at), invitations[i].by = u
               PROVE  i \in cascade(t) <=> ~Covers(m, role)
  BY <1>1 DEF cascade
<1>4. Covers(t.seen, role)
  <2>1. invitations[i].expires > t.at /\ invitations[i].expires \in Nat
        /\ members[u].updated \in Nat
    BY <1>2, <1>3 DEF live, Inv, Typed, InvitationRow, MemberRow
  <2>2. Covers(members[u], role) \/ invitations[i].expires <= members[u].updated
    BY <1>3 DEF live, Inv, Covered
  <2> QED
    BY <1>2, <2>1, <2>2
<1>5. CASE t.req.kind = "set_status"
  <2>1. i \in cascade(t) <=> t.req.arg = "suspended"
    BY <1>3, <1>5 DEF cascade
  <2> QED
    BY <1>2, <1>4, <1>5, <2>1 DEF Covers
<1>6. CASE t.req.kind = "set_role"
  <2>1. i \in cascade(t) <=>
          \/ roleCascadeKind(t.seen.role, t.req.arg) = "all"
          \/ roleCascadeKind(t.seen.role, t.req.arg) = "non_member" /\ role # "member"
    BY <1>3, <1>6 DEF cascade
  <2>2. i \in cascade(t) <=>
          \/ t.req.arg = "member" /\ t.seen.role # "member"
          \/ t.req.arg = "admin" /\ t.seen.role = "owner" /\ role # "member"
    BY <2>1 DEF roleCascadeKind
  <2>3. t.req.arg \in {"owner", "admin", "member"}
    BY <1>2, <1>6 DEF Roles
  <2> QED
    BY <1>2, <1>4, <1>6, <2>2, <2>3 DEF Covers
<1> QED
  BY <1>2, <1>5, <1>6 DEF Changes

LEMMA MemberGoverned ==
  ASSUME InstanceConstants, Inv, Inv', NEW t \in txs, memberCommit(t)
  PROVE  Governance!GovernanceNext \/ UNCHANGED rows
PROOF
<1> DEFINE u == t.req.subject
           a == t.req.actor
           before == standing(u)
           after == [role |-> changed(t).role, status |-> changed(t).status]
<1>1. SUFFICES ASSUME ~(UNCHANGED rows)
               PROVE  Governance!GovernanceNext
  OBVIOUS
<1>2. PICK m : m = changed(t)
  OBVIOUS
<1>3. /\ t.pc = "commit" /\ UNCHANGED bootstrapped
      /\ members' = [members EXCEPT ![u] = m]
      /\ invitations' = [i \in Invitations |->
           IF i \in cascade(t) THEN [invitations[i] EXCEPT !.status = "revoked"]
           ELSE invitations[i]]
      /\ log' = Append(log, entry(t, u, before, after))
  BY <1>1, <1>2 DEF memberCommit
<1>4. /\ Changes(t) /\ Reads(t) /\ u \in Users /\ a \in Users /\ isMember(u) /\ isMember(a)
      /\ t.seen = members[u] /\ t.seen \in MemberRow /\ m \in MemberRow
      /\ m.role = (IF t.req.kind = "set_role" THEN t.req.arg ELSE t.seen.role)
      /\ m.status = (IF t.req.kind = "set_role" THEN t.seen.status ELSE t.req.arg)
      /\ m.updated = t.at /\ m.role \in Roles /\ m.status \in {"active", "suspended"}
  BY <1>2, <1>3, Changing
<1>5. before \in Standing /\ after \in Standing
  BY <1>2, <1>4 DEF standing, Standing, MemberRow
<1>6. Actors' = Append(Actors, a) /\ Actors' # Actors
  BY <1>3, <1>4, <1>5, ActorsGrow
<1>7. permitted(t) /\ t.at >= members[u].updated
  BY <1>3, <1>4 DEF Reads
<1>8. /\ Governance!Over(a, members[u].role) /\ Governance!Over(a, m.role)
      /\ m.role = members[u].role \/ m.status = members[u].status
      /\ m.status # members[u].status => a # u
  BY <1>4, <1>7 DEF permitted, Changes, Governance!Over, Governance!Active
<1>9. m = [role |-> m.role, status |-> m.status, updated |-> t.at]
  BY <1>4 DEF MemberRow
<1>10. {v \in Users : members'[v].role = "owner" /\ members'[v].status = "active"} # {}
  <2>1. bootstrapped'
    BY <1>3, <1>4 DEF Inv, Rows
  <2> QED
    BY <2>1 DEF Inv, OwnerKept, owners, isActive
<1>11. \A i \in Invitations :
         i \in cascade(t) <=>
           /\ Governance!Live(i, t.at) /\ invitations[i].by = u
           /\ ~(m.status = "active" /\ \/ m.role = "owner"
                                       \/ m.role = "admin" /\ invitations[i].role = "member")
  BY <1>2, <1>3, CascadeIsLost DEF Covers, live, Governance!Live
<1>12. Governance!Administer(a, u, m.role, m.status, t.at)
  <2> DEFINE lost == {i \in Invitations :
               /\ Governance!Live(i, t.at) /\ invitations[i].by = u
               /\ ~(m.status = "active" /\ \/ m.role = "owner"
                                           \/ m.role = "admin" /\ invitations[i].role = "member")}
  <2>1. invitations' = [i \in Invitations |->
           IF i \in lost THEN [invitations[i] EXCEPT !.status = "revoked"] ELSE invitations[i]]
    BY <1>3, <1>11
  <2>2. members[u].role # "none" /\ members' = [members EXCEPT ![u] =
                                       [role |-> m.role, status |-> m.status, updated |-> t.at]]
    BY <1>3, <1>4, <1>9 DEF isMember
  <2>3. Governance!By(a)
    BY <1>6 DEF Governance!By, Actors
  <2> QED
    BY <1>3, <1>7, <1>8, <1>10, <2>1, <2>2, <2>3 DEF Governance!Administer
<1> QED
  BY <1>4, <1>6, <1>12, GovernedBy

\* Every commit of the PostgreSQL store is one atomic change that the members
\* as they are at that moment entitle, although it decided on what it read
\* before: for any number of users, commands and concurrent transactions.
THEOREM GovernanceImplemented == InstanceConstants => (Spec => ImplementsGovernance)
PROOF
<1>1. ASSUME InstanceConstants, Inv, Inv', [Next]_vars
      PROVE  [Governance!GovernanceNext]_(Governance!governed)
  <2>1. UNCHANGED rows \/ Governance!GovernanceNext
    BY <1>1, Commits, BootstrapGoverned, CreateGoverned, RevokeGoverned, AcceptGoverned,
       MemberGoverned
  <2>2. UNCHANGED rows => UNCHANGED Governance!governed
    BY DEF rows, Governance!governed
  <2> QED
    BY <2>1, <2>2
<1>2. InstanceConstants => InstanceConstants'
  BY DEF InstanceConstants, wellFormed
<1>3. InstanceConstants /\ Inv /\ Inv' /\ [Next]_vars =>
        [Governance!GovernanceNext]_(Governance!governed)
  BY <1>1
<1> QED
  BY <1>2, <1>3, SpecInv, PTL DEF Spec, ImplementsGovernance
=============================================================================
