------------------------------- MODULE ApiKeys -------------------------------
(***************************************************************************)
(* Owner-scoped API keys: creating and revoking them under an idempotency  *)
(* key, listing them page by page, and resolving a bearer token with its   *)
(* rate window.  The PostgreSQL store does each command in one transaction *)
(* (the owner's member row is locked, conflicting inserts wait for each    *)
(* other); the D1 store first reads a gate, then writes a batch, then      *)
(* classifies a batch that did not apply or whose answer was lost.  Both   *)
(* share tables, results and properties; Backend picks one.                *)
(* A credential is identified with its key id; its hash is unique as the   *)
(* id is, and either collision sends the service round its retry loop.     *)
(***************************************************************************)
EXTENDS Naturals, FiniteSets, Sequences

CONSTANTS Backend,      \* "postgres" or "d1"
          Owners, KeyIds, Idems, Callers,
          MaxAttempts,  \* MAX_CREDENTIAL_ATTEMPTS
          PageLimit,    \* keys per page
          Window,       \* API_KEY_RATE_WINDOW_MS
          MaxRequests,  \* API_KEY_RATE_WINDOW_MAX_REQUESTS
          Lifetime,     \* ticks until a key expires
          MaxTime,      \* bound: the clock
          MaxCalls,     \* bound: management commands
          MaxUses,      \* bound: bearer requests
          MaxFaults     \* bound: D1 answers lost

ASSUME ApiKeysAssumption ==
    /\ Backend \in {"postgres", "d1"} /\ KeyIds \subseteq Nat \ {0} /\ "none" \notin Owners
    /\ {MaxAttempts, PageLimit, Window, MaxRequests} \subseteq Nat \ {0}
    /\ {Lifetime, MaxTime} \subseteq Nat /\ MaxTime > 0

VARIABLES
    member,    \* instance_member.status of every owner
    keys,      \* api_key rows by id
    creates,   \* api_key_create_command by <<owner, idempotency key>>
    revokes,   \* api_key_revoke_command by <<owner, idempotency key>>
    call,      \* management and bearer requests in flight
    disclosed, \* plaintext tokens handed out: <<owner, idempotency key, key>>
    used,      \* times of authenticated requests, per key
    pager,     \* one client walking an owner's list
    now, budget

vars == <<member, keys, creates, revokes, call, disclosed, used, pager, now, budget>>

NoKey == [owner |-> "none", created |-> 0, expires |-> 0, revoked |-> 0, start |-> 0, count |-> 0]
NoReceipt == [key |-> 0, at |-> 0]
Idle == [pc |-> "idle"]
Commands == Owners \X Idems
Existing == {k \in KeyIds : keys[k] # NoKey}
Active(o) == member[o] = "active"

Init ==
    /\ member = [o \in Owners |-> "active"]
    /\ keys = [k \in KeyIds |-> NoKey]
    /\ creates = [c \in Commands |-> NoReceipt] /\ revokes = [c \in Commands |-> NoReceipt]
    /\ call = [c \in Callers |-> Idle]
    /\ disclosed = {} /\ used = [k \in KeyIds |-> <<>>]
    /\ pager = Idle
    /\ now = 1
    /\ budget = [calls |-> MaxCalls, uses |-> MaxUses, faults |-> MaxFaults]

End(c) == call' = [call EXCEPT ![c] = Idle]
TakeCall == budget.calls > 0 /\ budget' = [budget EXCEPT !.calls = @ - 1]
Fault == budget.faults > 0 /\ budget' = [budget EXCEPT !.faults = @ - 1]

-----------------------------------------------------------------------------
(* Creating *)

(* ApiKeyApplication.createApiKey up to the store: created and expiry times
   are sampled once.  The request fingerprint only decides whether a receipt
   found later is answered as a replay or as a conflict; neither writes. *)
CreateApiKey(c, o, i) ==
    /\ call[c] = Idle /\ TakeCall
    /\ call' = [call EXCEPT ![c] = [pc |-> IF Backend = "d1" THEN "createGate" ELSE "createTx",
                                    owner |-> o, idem |-> i, at |-> now,
                                    attempt |-> 1, key |-> 0]]
    /\ UNCHANGED <<member, keys, creates, revokes, disclosed, used, pager, now>>

NewKey(x) == [NoKey EXCEPT !.owner = x.owner, !.created = x.at, !.expires = x.at + Lifetime]

(* The key row and its receipt, written together. *)
Insert(x, k) ==
    /\ keys' = [keys EXCEPT ![k] = NewKey(x)]
    /\ creates' = [creates EXCEPT ![<<x.owner, x.idem>>] =
                       [key |-> k, at |-> x.at]]

(* A credential collision: a fresh id and token are tried, a bounded number
   of times. *)
RetryCredential(c) ==
    LET x == call[c]
    IN call' = [call EXCEPT ![c] =
           IF x.attempt < MaxAttempts
             THEN [x EXCEPT !.attempt = x.attempt + 1,
                            !.pc = IF Backend = "d1" THEN "createGate" ELSE x.pc]
             ELSE Idle]

(* #resolveCreateReceipt: the command has a receipt, so the request is a
   replay or a conflict and never carries a token. *)
Issued(x) == creates[<<x.owner, x.idem>>] # NoReceipt

(* PostgresApiKeyStore.createApiKey: owner locked, receipt looked up, key and
   receipt inserted, in one transaction. *)
CreateTx(c) ==
    LET x == call[c]
    IN /\ x.pc = "createTx"
       /\ \/ /\ ~Active(x.owner) \/ Issued(x)
             /\ End(c) /\ UNCHANGED <<keys, creates, disclosed>>
          \/ /\ Active(x.owner) /\ ~Issued(x)
             /\ \E k \in KeyIds :
                  IF k \in Existing
                    THEN RetryCredential(c) /\ UNCHANGED <<keys, creates, disclosed>>
                    ELSE /\ Insert(x, k) /\ End(c)
                         /\ disclosed' = disclosed \cup {<<x.owner, x.idem, k>>}
       /\ UNCHANGED <<member, revokes, used, pager, now, budget>>

(* D1ApiKeyStore.#resolveCreateGate: member status and receipt in one batch. *)
CreateGate(c) ==
    LET x == call[c]
    IN /\ x.pc = "createGate"
       /\ IF ~Active(x.owner) \/ Issued(x)
            THEN End(c)
            ELSE \E k \in KeyIds : call' = [call EXCEPT ![c].pc = "createBatch", ![c].key = k]
       /\ UNCHANGED <<member, keys, creates, revokes, disclosed, used, pager, now, budget>>

CreateApplies_unguardedOwner(x) ==
    x.key \notin Existing /\ ~Issued(x)

CreateApplies_looseReceipt(x) == Active(x.owner) /\ x.key \notin Existing

(* The batch applies when the owner is still active, the id (or hash) is free
   and the receipt's primary key is free: otherwise nothing is written. *)
CreateApplies(x) ==
    Active(x.owner) /\ x.key \notin Existing /\ ~Issued(x)

CreateBatch(c) ==
    LET x == call[c]
    IN /\ x.pc = "createBatch"
       /\ \/ /\ CreateApplies(x) /\ Insert(x, x.key)
             /\ \/ /\ End(c) /\ disclosed' = disclosed \cup {<<x.owner, x.idem, x.key>>}
                   /\ UNCHANGED budget
                \/ /\ Fault /\ call' = [call EXCEPT ![c].pc = "createClassify"]
                   /\ UNCHANGED disclosed
          \/ /\ ~CreateApplies(x)
             /\ call' = [call EXCEPT ![c].pc = "createClassify"]
             /\ UNCHANGED <<keys, creates, disclosed, budget>>
       /\ UNCHANGED <<member, revokes, used, pager, now>>

(* #classifyCreateFailure: the gate again (a receipt is a replay that carries
   no token), then the id or hash that is taken, else the error stands. *)
CreateClassify(c) ==
    LET x == call[c]
    IN /\ x.pc = "createClassify"
       /\ IF Active(x.owner) /\ ~Issued(x) /\ x.key \in Existing
            THEN RetryCredential(c)
            ELSE End(c)
       /\ UNCHANGED <<member, keys, creates, revokes, disclosed, used, pager, now, budget>>

-----------------------------------------------------------------------------
(* Revoking *)

RevokeApiKey(c, o, i, k) ==
    /\ call[c] = Idle /\ TakeCall
    /\ call' = [call EXCEPT ![c] = [pc |-> IF Backend = "d1" THEN "revokeGate" ELSE "revokeTx",
                                    owner |-> o, idem |-> i, key |-> k, at |-> now]]
    /\ UNCHANGED <<member, keys, creates, revokes, disclosed, used, pager, now>>

(* #resolveRevokeReceipt: a receipt under this idempotency key answers the
   request, as a replay, a conflict or an integrity error. *)
Revoked(x) == revokes[<<x.owner, x.idem>>] # NoReceipt

(* #resolveRevokeGate finds an active owner, no receipt, and the owner's own
   unrevoked key; anything else is answered without writing. *)
Revocable(x) ==
    /\ Active(x.owner) /\ ~Revoked(x)
    /\ keys[x.key].owner = x.owner /\ keys[x.key].revoked = 0
RevokeApplies_staleKey(x) ==
    Active(x.owner) /\ ~Revoked(x) /\ keys[x.key].owner = x.owner

(* The batch's own predicates: both statements re-read owner and key, and the
   receipt's primary key must be free. *)
RevokeApplies(x) == Revocable(x)

WriteRevocation(x) ==
    /\ revokes' = [revokes EXCEPT ![<<x.owner, x.idem>>] =
                       [key |-> x.key, at |-> x.at]]
    /\ keys' = [keys EXCEPT ![x.key].revoked = x.at]

(* PostgresApiKeyStore.revokeApiKey: the key row is locked FOR UPDATE. *)
RevokeTx(c) ==
    LET x == call[c]
    IN /\ x.pc = "revokeTx" /\ End(c)
       /\ IF Revocable(x) THEN WriteRevocation(x) ELSE UNCHANGED <<keys, revokes>>
       /\ UNCHANGED <<member, creates, disclosed, used, pager, now, budget>>

RevokeGate(c) ==
    LET x == call[c]
    IN /\ x.pc = "revokeGate"
       /\ IF Revocable(x) THEN call' = [call EXCEPT ![c].pc = "revokeBatch"] ELSE End(c)
       /\ UNCHANGED <<member, keys, creates, revokes, disclosed, used, pager, now, budget>>

(* The batch, and the gate once more when it did not apply or its answer was
   lost: that reading only chooses the answer. *)
RevokeBatch(c) ==
    LET x == call[c]
    IN /\ x.pc = "revokeBatch" /\ End(c)
       /\ IF RevokeApplies(x) THEN WriteRevocation(x) ELSE UNCHANGED <<keys, revokes>>
       /\ UNCHANGED <<member, creates, disclosed, used, pager, now, budget>>

-----------------------------------------------------------------------------
(* Listing *)

(* Newest first, the id breaking ties of the creation time. *)
Before(j, k) ==
    \/ keys[j].created > keys[k].created
    \/ keys[j].created = keys[k].created /\ j > k
After_timeOnly(k, cursor) == cursor = 0 \/ keys[cursor].created > keys[k].created

After(k, cursor) == cursor = 0 \/ Before(cursor, k)

OpenList(o) ==
    /\ pager = Idle /\ TakeCall
    /\ pager' = [pc |-> "page", owner |-> o, cursor |-> 0, seen |-> <<>>,
                 start |-> {k \in Existing : keys[k].owner = o}]
    /\ UNCHANGED <<member, keys, creates, revokes, call, disclosed, used, now>>

(* listApiKeys: the first PageLimit keys after the cursor; a further one
   makes the last item the next cursor.  An inactive owner reads nothing. *)
ListApiKeys ==
    LET rest == {k \in Existing : keys[k].owner = pager.owner /\ After(k, pager.cursor)}
        Rank(k) == Cardinality({j \in rest : Before(j, k)})
        page == {k \in rest : Rank(k) < PageLimit}
        last == CHOOSE k \in page : \A j \in page : j = k \/ Before(j, k)
    IN /\ pager.pc = "page"
       /\ IF ~Active(pager.owner) THEN pager' = Idle
          ELSE pager' = [pager EXCEPT
                   !.seen = @ \o [n \in 1..Cardinality(page) |->
                                     CHOOSE k \in page : Rank(k) = n - 1],
                   !.cursor = IF page = {} THEN @ ELSE last,
                   !.pc = IF page = rest THEN "done" ELSE "page"]
       /\ UNCHANGED <<member, keys, creates, revokes, call, disclosed, used, now, budget>>

CloseList ==
    /\ pager.pc = "done" /\ pager' = Idle
    /\ UNCHANGED <<member, keys, creates, revokes, call, disclosed, used, now, budget>>

-----------------------------------------------------------------------------
(* Authenticating *)

(* authenticateApiKey's single SELECT: live key of an active owner. *)
Authenticate(c, k) ==
    /\ call[c] = Idle /\ budget.uses > 0
    /\ k \in Existing /\ keys[k].revoked = 0 /\ keys[k].expires > now /\ Active(keys[k].owner)
    /\ call' = [call EXCEPT ![c] = [pc |-> "use", key |-> k, at |-> now]]
    /\ budget' = [budget EXCEPT !.uses = @ - 1]
    /\ UNCHANGED <<member, keys, creates, revokes, disclosed, used, pager, now>>

(* #recordUse's UPDATE: a request whose window is over opens the next one,
   the others count up to the limit; a key revoked meanwhile matches nothing. *)
WindowOver(row, at) == row.start = 0 \/ row.start + Window <= at
Admits_revoked(row, at) == WindowOver(row, at) \/ row.count < MaxRequests

Admits_offByOne(row, at) == row.revoked = 0 /\ (WindowOver(row, at) \/ row.count <= MaxRequests)

Admits(row, at) == row.revoked = 0 /\ (WindowOver(row, at) \/ row.count < MaxRequests)

RecordUse(c) ==
    LET x == call[c]
        row == keys[x.key]
    IN /\ x.pc = "use" /\ End(c)
       /\ IF Admits(row, x.at)
            THEN /\ keys' = [keys EXCEPT ![x.key].start = IF WindowOver(row, x.at) THEN x.at ELSE @,
                                         ![x.key].count = IF WindowOver(row, x.at) THEN 1 ELSE @ + 1]
                 /\ used' = [used EXCEPT ![x.key] = Append(@, x.at)]
            ELSE UNCHANGED <<keys, used>>
       /\ UNCHANGED <<member, creates, revokes, disclosed, pager, now, budget>>

-----------------------------------------------------------------------------
(* Environment: an administrator suspends and reactivates members; time. *)

SetStatus(o) ==
    /\ member' = [member EXCEPT ![o] = IF @ = "active" THEN "suspended" ELSE "active"]
    /\ TakeCall
    /\ UNCHANGED <<keys, creates, revokes, call, disclosed, used, pager, now>>

Tick ==
    /\ now < MaxTime /\ now' = now + 1
    /\ UNCHANGED <<member, keys, creates, revokes, call, disclosed, used, pager, budget>>

Step(c) ==
    \/ CreateTx(c) \/ CreateGate(c) \/ CreateBatch(c) \/ CreateClassify(c)
    \/ RevokeTx(c) \/ RevokeGate(c) \/ RevokeBatch(c)
    \/ RecordUse(c)

Next ==
    \/ \E c \in Callers : Step(c)
    \/ \E c \in Callers, o \in Owners, i \in Idems : CreateApiKey(c, o, i)
    \/ \E c \in Callers, o \in Owners, i \in Idems, k \in KeyIds : RevokeApiKey(c, o, i, k)
    \/ \E c \in Callers, k \in KeyIds : Authenticate(c, k)
    \/ \E o \in Owners : OpenList(o) \/ SetStatus(o)
    \/ ListApiKeys \/ CloseList
    \/ Tick

Spec == Init /\ [][Next]_vars

-----------------------------------------------------------------------------
(* Properties *)

(* Tables, calls and counters keep their types; a create makes at most
   MAX_CREDENTIAL_ATTEMPTS attempts. *)
TypeOK ==
    /\ member \in [Owners -> {"active", "suspended"}]
    /\ \A k \in KeyIds : keys[k].owner \in Owners \cup {"none"} /\ keys[k].count \in Nat
    /\ \A c \in Commands : creates[c].key \in KeyIds \cup {0} /\ revokes[c].key \in KeyIds \cup {0}
    /\ disclosed \subseteq Owners \X Idems \X KeyIds
    /\ \A c \in Callers : "attempt" \in DOMAIN call[c] => call[c].attempt \in 1..MaxAttempts
    /\ now \in 1..MaxTime

(* One idempotency key issues at most one credential, however its requests
   race, collide on a credential or lose their answers: every key has exactly
   one receipt, its owner's, and a token is only ever handed out by the
   request that wrote it. *)
OneKeyPerCommand ==
    /\ \A k \in Existing :
          \E c \in Commands : /\ creates[c].key = k /\ c[1] = keys[k].owner
                              /\ \A d \in Commands : creates[d].key = k => d = c
    /\ \A d \in disclosed : creates[<<d[1], d[2]>>].key = d[3]

(* A key is revoked exactly when one revocation receipt says so, with the
   same time: concurrent revocations under different idempotency keys leave
   one receipt, and a replay can prove it. *)
RevocationMatchesReceipt ==
    \A k \in KeyIds :
        LET receipts == {c \in Commands : revokes[c].key = k}
        IN /\ Cardinality(receipts) <= 1
           /\ \A c \in receipts : revokes[c].at = keys[k].revoked
           /\ keys[k].revoked # 0 => receipts # {}

(* No key is created or revoked for an owner who is suspended at that
   moment, although D1 checks the owner in an earlier request. *)
WritesWhileActive ==
    [][\A k \in KeyIds :
          (keys'[k].owner # keys[k].owner \/ keys'[k].revoked # keys[k].revoked)
              => Active(keys'[k].owner)]_vars

(* A request is only authenticated by a key that is not revoked, even when
   the revocation commits between its lookup and the recording of its use. *)
RevokedNeverAuthenticates ==
    [][\A k \in KeyIds : used'[k] # used[k] => keys[k].revoked = 0]_vars

(* However late a request's clock reading is recorded, and although lookup and
   recording are two statements, a key is used no more often than its limit
   times the windows that have begun.  (A late reading may be counted in a
   later window, so an interval of one window's length has no such bound.) *)
RateBounded ==
    \A k \in KeyIds : Len(used[k]) <= MaxRequests * ((now - 1) \div Window + 1)

(* Walking the pages to the end shows every key that existed when the walk
   began, and none twice, whatever is created or revoked meanwhile and
   however many keys share a creation time. *)
PagesComplete ==
    pager.pc = "done" =>
        /\ \A k \in pager.start : \E n \in DOMAIN pager.seen : pager.seen[n] = k
        /\ \A m, n \in DOMAIN pager.seen : pager.seen[m] = pager.seen[n] => m = n

=============================================================================
