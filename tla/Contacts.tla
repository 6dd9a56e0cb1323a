------------------------------ MODULE Contacts ------------------------------
(***************************************************************************)
(* The personal contact book: contacts are created, replaced at an exact   *)
(* version and deleted at an exact version, each under an idempotency key, *)
(* and listed or searched page by page.  PostgreSQL runs a command as one  *)
(* transaction (owner shared-locked, contact locked FOR UPDATE; a unique   *)
(* violation is rolled back and classified in a second transaction); D1    *)
(* reads a gate, writes a batch and classifies a batch that did not apply. *)
(* A request's fingerprint is its canonical payload, its commandMarker the *)
(* fingerprint together with owner and idempotency key.                    *)
(***************************************************************************)
EXTENDS Naturals, FiniteSets, Sequences

CONSTANTS Backend,      \* "postgres" or "d1"
          Owners, Ids, Idems, Callers,
          Names, Emails, \* searchable names and normalized emails, in order
          MaxIdAttempts, \* MAX_ID_ATTEMPTS
          PageLimit,     \* contacts per page
          MaxCalls,      \* bound: commands and list walks started
          MaxSuspends,   \* bound: suspensions and reactivations
          MaxFaults      \* bound: D1 batches whose answer is lost

ContactsAssumption ==
    /\ Backend \in {"postgres", "d1"} /\ PageLimit \in Nat \ {0} /\ MaxIdAttempts \in Nat \ {0}
    /\ Ids \subseteq Nat \ {0} /\ Cardinality(Ids) > MaxCalls /\ Names \subseteq Nat \ {0} /\ Emails \subseteq Nat \ {0}

VARIABLES
    member,    \* instance_member.status of every owner
    contacts,  \* contact rows by id
    receipts,  \* contact_command rows by <<owner, idempotency key>>
    call,      \* requests in flight
    gone,      \* history: ids of deleted contacts
    answers,   \* history: successful first answers, as receipts
    pager,     \* one client walking a list or a search
    budget

vars == <<member, contacts, receipts, call, gone, answers, pager, budget>>

NoContact == [owner |-> "none", name |-> 0, email |-> 0, version |-> 0, marker |-> <<>>]
NoReceipt == [type |-> "none", request |-> <<>>, id |-> 0, version |-> 0]
Idle == [pc |-> "idle"]
Commands == Owners \X Idems
Saved == {k \in Ids : contacts[k] # NoContact}
Active(o) == member[o] = "active"
Receipt(x) == receipts[<<x.owner, x.idem>>]

Init ==
    /\ member = [o \in Owners |-> "active"]
    /\ contacts = [k \in Ids |-> NoContact]
    /\ receipts = [c \in Commands |-> NoReceipt]
    /\ call = [c \in Callers |-> Idle]
    /\ gone = {} /\ answers = {}
    /\ pager = Idle
    /\ budget = [calls |-> MaxCalls, suspends |-> MaxSuspends, faults |-> MaxFaults]

TakeCall == budget.calls > 0 /\ budget' = [budget EXCEPT !.calls = @ - 1]
End(c) == call' = [call EXCEPT ![c] = Idle]
Begin(c, x) ==
    /\ call[c] = Idle /\ TakeCall
    /\ call' = [call EXCEPT ![c] = x]
    /\ UNCHANGED <<member, contacts, receipts, gone, answers, pager>>

-----------------------------------------------------------------------------
(* ContactApplication: what a request carries. *)

Create(c, o, i, n, e) ==
    Begin(c, [pc |-> "gate", type |-> "create", owner |-> o, idem |-> i, id |-> 0,
              name |-> n, email |-> e, expected |-> 0, attempt |-> 1, request |-> <<n, e>>])

Update(c, o, i, k, v, n, e) ==
    Begin(c, [pc |-> "gate", type |-> "update", owner |-> o, idem |-> i, id |-> k,
              name |-> n, email |-> e, expected |-> v, attempt |-> 1, request |-> <<k, v, n, e>>])

Delete(c, o, i, k, v) ==
    Begin(c, [pc |-> "gate", type |-> "delete", owner |-> o, idem |-> i, id |-> k,
              name |-> 0, email |-> 0, expected |-> v, attempt |-> 1, request |-> <<k, v>>])

(* The create loop, at most MaxIdAttempts times.  A generated UUID is a fresh
   one or collides with a saved contact, never with a deleted one. *)
RetryId(c) ==
    call' = [call EXCEPT ![c] = IF @.attempt < MaxIdAttempts
                                THEN [@ EXCEPT !.pc = "gate", !.attempt = @ + 1] ELSE Idle]

(* The request as the store gets it, with the id of this attempt. *)
WithId(x) ==
    IF x.type # "create" THEN {x}
    ELSE {[x EXCEPT !.id = k] : k \in Saved \cup {CHOOSE f \in Ids : f \notin Saved \cup gone}}

-----------------------------------------------------------------------------
(* The store *)

Marker(x) == <<x.owner, x.idem, x.type, x.request>>
ReceiptOf(x) ==
    [type |-> x.type, request |-> x.request, id |-> x.id,
     version |-> CASE x.type = "create" -> 1
                   [] x.type = "update" -> x.expected + 1
                   [] OTHER -> x.expected]

Own(x) == contacts[x.id].owner = x.owner
AtVersion_any(x) == Own(x)
(* The owner's contact at exactly the version the request expects. *)
AtVersion(x) == Own(x) /\ contacts[x.id].version = x.expected

EmailFree_self(x) == TRUE
(* UNIQUE (owner_user_id, email), the contact itself aside. *)
EmailFree(x) ==
    \A k \in Saved : contacts[k].owner = x.owner /\ contacts[k].email = x.email => k = x.id

(* Every command looks for these first: an inactive owner, or a receipt that
   makes the request a replay or an idempotency conflict.  Nothing is written. *)
Answered(x) == ~Active(x.owner) \/ Receipt(x) # NoReceipt

(* The gates of update and delete also answer an unknown contact and a stale
   version. *)
Refused(x) == Answered(x) \/ (x.type # "create" /\ ~AtVersion(x))

Insertable(x) == x.id \notin Saved
WriteContact(x) ==
    contacts' = [contacts EXCEPT ![x.id] =
                    CASE x.type = "delete" -> NoContact
                      [] OTHER -> [owner |-> x.owner, name |-> x.name, email |-> x.email,
                                   version |-> ReceiptOf(x).version, marker |-> Marker(x)]]

(* The contact and its receipt. *)
Write(x) ==
    /\ WriteContact(x)
    /\ receipts' = [receipts EXCEPT ![<<x.owner, x.idem>>] = ReceiptOf(x)]

Touch(x) ==
    /\ gone' = IF x.type = "delete" THEN gone \cup {x.id} ELSE gone
    /\ pager' = IF pager # Idle /\ x.type # "create"
                THEN [pager EXCEPT !.touched = @ \cup {x.id}] ELSE pager

Applies(x) ==
    CASE x.type = "create" -> Insertable(x) /\ EmailFree(x)
      [] x.type = "update" -> AtVersion(x) /\ EmailFree(x)
      [] x.type = "delete" -> AtVersion(x)

Success(c, x) ==
    /\ answers' = answers \cup {<<c, x.owner, x.idem, ReceiptOf(x)>>}
    /\ End(c)

(* PostgresContactStore: one transaction.  A taken id sends create round its
   loop; a taken email or a stale version is answered. *)
Transaction(c) ==
    /\ Backend = "postgres" /\ call[c] # Idle /\ call[c].pc = "gate"
    /\ \E x \in WithId(call[c]) :
       /\ \/ /\ ~Refused(x) /\ Applies(x)
             /\ Write(x) /\ Touch(x) /\ Success(c, x)
          \/ /\ Refused(x) \/ ~Applies(x)
             /\ IF x.type = "create" /\ ~Answered(x) /\ ~Insertable(x) THEN RetryId(c) ELSE End(c)
             /\ UNCHANGED <<contacts, receipts, gone, answers, pager>>
       /\ UNCHANGED <<member, budget>>

(* D1: createGate, updateGate, deleteGate over one snapshot. *)
Gate(c) ==
    LET x == call[c]
    IN /\ Backend = "d1" /\ x # Idle /\ x.pc = "gate"
       /\ IF Refused(x) THEN End(c) ELSE call' = [call EXCEPT ![c].pc = "batch"]
       /\ UNCHANGED <<member, contacts, receipts, gone, answers, pager, budget>>

BatchApplies_unguarded(x) == Applies(x) /\ Receipt(x) = NoReceipt
(* Both statements write: the owner is read again, and the receipt's primary
   key must be free. *)
BatchApplies(x) == Active(x.owner) /\ Applies(x) /\ Receipt(x) = NoReceipt

(* A create whose owner is no longer active inserts no contact, yet takes its
   receipt from whatever contact the owner has under that id at version 1.
   (An update looks for its own marker, a delete for the active owner; while
   the owner is active a taken id fails the whole batch.) *)
StrayReceipt(x) ==
    /\ x.type = "create" /\ ~Active(x.owner) /\ Receipt(x) = NoReceipt
    /\ Own(x) /\ contacts[x.id].version = 1

Unapplied_ignored(c, x) == Success(c, x)

(* A batch that did not change both rows is classified. *)
Unapplied(c, x) == call' = [call EXCEPT ![c] = [x EXCEPT !.pc = "classify"]] /\ UNCHANGED answers

Batch(c) ==
    /\ call[c] # Idle /\ call[c].pc = "batch"
    /\ \E x \in WithId(call[c]) :
       /\ \/ /\ BatchApplies(x) /\ Write(x) /\ Touch(x)
             /\ \/ Success(c, x) /\ UNCHANGED budget
                \/ /\ budget.faults > 0 /\ budget' = [budget EXCEPT !.faults = @ - 1]
                   /\ Unapplied(c, x)
          \/ /\ StrayReceipt(x) /\ Unapplied(c, x)
             /\ receipts' = [receipts EXCEPT ![<<x.owner, x.idem>>] = ReceiptOf(x)]
             /\ UNCHANGED <<contacts, gone, pager, budget>>
          \/ /\ ~BatchApplies(x) /\ ~StrayReceipt(x) /\ Unapplied(c, x)
             /\ UNCHANGED <<contacts, receipts, gone, pager, budget>>
       /\ UNCHANGED member

(* classifyCreate, classifyUpdate, deleteGate: only durable evidence decides
   the answer; a taken id sends create round its loop. *)
Classify(c) ==
    LET x == call[c]
    IN /\ x # Idle /\ x.pc = "classify"
       /\ IF x.type = "create" /\ ~Answered(x) /\ ~Insertable(x) THEN RetryId(c) ELSE End(c)
       /\ UNCHANGED <<member, contacts, receipts, gone, answers, pager, budget>>

-----------------------------------------------------------------------------
(* Listing and searching *)

(* Row order (name_search, email, id). *)
Before(j, k) ==
    LET a == contacts[j]
        b == contacts[k]
    IN \/ a.name < b.name
       \/ a.name = b.name /\ (a.email < b.email \/ (a.email = b.email /\ j < k))

After_nameOnly(rows, cursor) == {k \in rows : contacts[cursor].name < contacts[k].name}
(* The keyset predicate. *)
After(rows, cursor) == {k \in rows : Before(cursor, k)}

(* The rows a list (every name) or a search reads. *)
Matching(p) == {k \in Saved : contacts[k].owner = p.owner /\ contacts[k].name \in p.filter}

OpenList(o, filter) ==
    /\ pager = Idle /\ TakeCall
    /\ pager' = [pc |-> "page", owner |-> o, filter |-> filter, cursor |-> 0, seen |-> <<>>,
                 start |-> {k \in Saved : contacts[k].owner = o /\ contacts[k].name \in filter},
                 touched |-> {}, moved |-> FALSE]
    /\ UNCHANGED <<member, contacts, receipts, call, gone, answers>>

(* listContacts: the cursor is only a contact's id, so its position is read
   again on every page; a cursor row that is gone or no longer matches ends
   the walk with an empty page. *)
ListContacts ==
    LET rows == Matching(pager)
        after == IF pager.cursor = 0 THEN rows
                 ELSE IF pager.cursor \notin rows THEN {}
                 ELSE After(rows, pager.cursor)
        Rank(k) == Cardinality({j \in after : Before(j, k)})
        page == {k \in after : Rank(k) < PageLimit}
        last == CHOOSE k \in page : \A j \in page : j = k \/ Before(j, k)
    IN /\ pager.pc = "page"
       /\ IF ~Active(pager.owner) THEN pager' = Idle
          ELSE pager' = [pager EXCEPT
                   !.seen = @ \o [n \in 1..Cardinality(page) |->
                                     CHOOSE k \in page : Rank(k) = n - 1],
                   !.moved = @ \/ pager.cursor \in pager.touched,
                   !.cursor = IF page = {} THEN @ ELSE last,
                   !.pc = IF page = after THEN "done" ELSE "page"]
       /\ UNCHANGED <<member, contacts, receipts, call, gone, answers, budget>>

CloseList ==
    /\ pager.pc = "done" /\ pager' = Idle
    /\ UNCHANGED <<member, contacts, receipts, call, gone, answers, budget>>

(* An administrator suspends and reactivates the owner. *)
SetStatus(o) ==
    /\ budget.suspends > 0 /\ budget' = [budget EXCEPT !.suspends = @ - 1]
    /\ member' = [member EXCEPT ![o] = IF @ = "active" THEN "suspended" ELSE "active"]
    /\ UNCHANGED <<contacts, receipts, call, gone, answers, pager>>

Next ==
    \/ \E c \in Callers, o \in Owners, i \in Idems :
         \/ \E n \in Names, e \in Emails : Create(c, o, i, n, e)
         \/ \E k \in Saved : \E v \in 1..contacts[k].version :
              \/ Delete(c, o, i, k, v)
              \/ \E n \in Names, e \in Emails : Update(c, o, i, k, v, n, e)
    \/ \E c \in Callers : Transaction(c) \/ Gate(c) \/ Batch(c) \/ Classify(c)
    \/ \E o \in Owners : SetStatus(o) \/ \E f \in {Names} \cup {{n} : n \in Names} : OpenList(o, f)
    \/ ListContacts \/ CloseList

Spec == Init /\ [][Next]_vars

-----------------------------------------------------------------------------
(* Properties *)

(* Tables and calls keep their types, and an id generation that collides is
   retried at most MAX_ID_ATTEMPTS times. *)
TypeOK ==
    /\ member \in [Owners -> {"active", "suspended"}]
    /\ \A k \in Saved : /\ contacts[k].owner \in Owners /\ contacts[k].name \in Names
                        /\ contacts[k].email \in Emails /\ contacts[k].version \in 1..MaxCalls
    /\ \A c \in Commands : receipts[c].type \in {"none", "create", "update", "delete"}
    /\ \A c \in Callers : call[c] # Idle => call[c].attempt \in 1..MaxIdAttempts

(* An owner's book never holds one email twice, though both stores look for
   the email before (or after) they write and requests race in between. *)
EmailUnique ==
    \A j, k \in Saved : /\ contacts[j].owner = contacts[k].owner
                        /\ contacts[j].email = contacts[k].email => j = k

(* No update is lost and none is applied twice: every version a contact went
   through has a receipt, and exactly one unless it is the first version and
   an owner was suspended (StrayReceipt); a deleted contact has exactly one
   delete receipt, at its last version, and a saved one has none. *)
VersionsAccounted ==
    \A k \in Ids :
        LET Made(v) == {c \in Commands : receipts[c].id = k /\ receipts[c].version = v
                                          /\ receipts[c].type # "delete"}
            deleted == {c \in Commands : receipts[c].id = k /\ receipts[c].type = "delete"}
            Accounted(last) ==
                /\ \A v \in 1..last :
                      /\ Made(v) # {}
                      /\ v > 1 \/ budget.suspends = MaxSuspends => Cardinality(Made(v)) = 1
                /\ Made(last + 1) = {}
        IN /\ k \in Saved => Accounted(contacts[k].version) /\ deleted = {}
           /\ k \in gone =>
                /\ Cardinality(deleted) = 1
                /\ \A c \in deleted : Accounted(receipts[c].version)
           /\ k \notin Saved \cup gone => deleted = {} /\ Made(1) = {}

(* Two requests are never both told that they made the change: a first
   success (created, updated, deleted) of an idempotency key is unique and is
   the one its receipt proves, so any later request can only be a replay. *)
FirstAnswerProven ==
    /\ \A a \in answers : receipts[<<a[2], a[3]>>] = a[4]
    /\ \A a, b \in answers : a[2] = b[2] /\ a[3] = b[3] => a = b

(* Nothing is inserted into, changed in or removed from the book of an owner
   who is suspended at that moment, and no receipt claims it was, although D1
   checked the owner in an earlier request; all that such an owner's requests
   can still leave behind is the receipt of a create. *)
BookOfActiveOwner ==
    [][\A o \in Owners : ~Active(o) =>
          /\ \A k \in Ids : o \in {contacts[k].owner, contacts'[k].owner} =>
                contacts'[k] = contacts[k]
          /\ \A i \in Idems : receipts'[<<o, i>>] # receipts[<<o, i>>] =>
                receipts'[<<o, i>>].type = "create"]_vars

(* A create that is answered as a replay (the gate finds an active owner, its
   receipt and a contact) shows the name and email it asked for, unless the
   contact was edited since, never the contact of another request: the "safe
   replay" of docs/architecture/recipient-contact-book.md.  A StrayReceipt of
   D1 breaks it. *)
ReplaySafe ==
    \A c \in Callers :
        LET x == call[c]
            k == Receipt(x).id
        IN x # Idle /\ x.pc = "gate" /\ x.type = "create" /\ Active(x.owner)
             /\ Receipt(x).type = "create" /\ Receipt(x).request = x.request
             /\ k \in Saved /\ contacts[k].version = 1
           => <<contacts[k].name, contacts[k].email>> = x.request

(* A walk that was not cut short by a change of one of its own cursor rows
   shows every contact that was in the list when it began and that nobody
   edited, exactly once, whatever else is created, edited or deleted. *)
PagesComplete ==
    pager # Idle /\ pager.pc = "done" /\ ~pager.moved =>
        \A k \in pager.start \ pager.touched :
            Cardinality({n \in DOMAIN pager.seen : pager.seen[n] = k}) = 1

=============================================================================
