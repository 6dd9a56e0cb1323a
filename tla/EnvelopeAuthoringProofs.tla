------------------------ MODULE EnvelopeAuthoringProofs ------------------------
(***************************************************************************)
(* Authoring in both stores, for any number of senders, keys, uploads and  *)
(* repeated commands: what is sent is what its sender reviewed, placements *)
(* do not dangle, a command takes effect once, no row points to an object  *)
(* that is not there, and no edit is lost.                                 *)
(*                                                                         *)
(* A publication is prepared from reads made one after the other, and      *)
(* compares less than it has read.  The invariant says of each request     *)
(* under way what its readings still mean: the generation tells the text,  *)
(* the audit head tells the placements, and the objects it has written are *)
(* still there.                                                            *)
(***************************************************************************)
EXTENDS D1EnvelopeAuthoring, FiniteSetTheorems, WellFoundedInduction, TLAPS

Edits == [by : Requests \cup {None}, pdf : Pdfs \cup {None}]
Statuses == {"draft", "ready", "sent", "voided"}

EventTypes ==
  {"envelope.created", "draft.revision_created", "envelope.ready", "envelope.fields_placed",
   "envelope.reopened", "envelope.sent", "envelope.voided"}

\* Where a command is between its first read and its publication.
Reading ==
  {"head", "anchor", "recipients", "workspace", "render", "archive", "publish", "insert"}

Uploading == {"upload", "ledger", "existing"}

Places ==
  Reading \cup Uploading \cup {"prepare", "envelope", "answered",
                            "receiptAgain", "envelopeAgain", "headAgain"}

Envelope == [status : Statuses, generation : Nat, text : Seq(Edits), fieldGeneration : Nat,
             sent : Seq(Edits)]
Event == [type : EventTypes, by : Requests \cup {None}, generation : Nat, text : Seq(Edits)]
FieldSet == [by : Requests \cup {None}, text : Seq(Edits), graph : Nat]
Screen == [status : Statuses, generation : Nat, fieldGeneration : Nat, ready : Nat, graph : Nat]
Command == [kind : Kinds, key : Keys, pdf : Pdfs \cup {None}, view : Screen, pc : Places,
            text : Seq(Edits), head : Nat, graph : Nat, fields : FieldSet, attempt : Nat]

Typed ==
  /\ env \in Envelope
  /\ recipients \in Nat
  /\ fields \in FieldSet
  /\ audit \in Seq(Event)
  /\ requests \in [Requests -> Command \cup {NoRequest}]
  /\ uploads \subseteq Pdfs /\ ledger \subseteq Pdfs /\ IsFiniteSet(ledger)

\* Where a request of each kind may be between its reads and its publication.
placesOf(kind) ==
  CASE kind = "commit" -> {"head", "archive", "publish", "insert"}
    [] kind = "fields" -> {"head", "recipients", "workspace", "publish", "insert"}
    [] kind = "send" -> {"head", "anchor", "recipients", "render", "publish", "insert"}
    [] kind = "reopen" -> {"head", "anchor", "publish", "insert"}
    [] OTHER -> {"head", "publish", "insert"}

Publishing == {"publish", "insert"}

\* A command goes to the places of its kind, an upload with its PDF.
Placed(q) ==
  /\ q.pc # "idle"
  /\ q.pc \in Uploading => q.pdf # None
  /\ q.pc \in Reading => q.pc \in placesOf(q.kind)

\* What its sender saw lies behind: a ready event for what needs one.
Seen(q) ==
  /\ q.view.generation <= env.generation
  /\ q.kind \in {"reopen", "send"} =>
       q.view.ready \in DOMAIN audit /\ audit[q.view.ready].type = "envelope.ready"

\* What it has read: at an unchanged generation the text is the one it read,
\* behind an unchanged audit head the placements are.
Read(q) ==
  /\ q.head <= Len(audit)
  /\ q.pc \in Reading =>
       /\ env.generation = q.view.generation => env.text = q.text
       /\ q.kind = "ready" => q.text # <<>>
  /\ q.pc \in Publishing /\ q.kind = "send" /\ q.head = Len(audit) => q.fields = fields

\* What it has stored before its publication refers to it.
Stored(r) ==
  LET q == requests[r]
      next == Append(q.text, edit(r))
  IN  /\ q.pc = "ledger" => q.pdf \in uploads
      /\ q.pc \in Publishing /\ q.kind = "commit" =>
           <<"draft", next>> \in archives /\ pdfsOf(next) \subseteq ledger
      /\ q.pc \in Publishing /\ q.kind = "send" => <<"sent", q.text>> \in archives

InFlight(r) ==
  requests[r] # NoRequest =>
    /\ requests[r] \in Command
    /\ Placed(requests[r]) /\ Seen(requests[r]) /\ Read(requests[r]) /\ Stored(r)

\* Every event of a request has its receipt.
Receipted ==
  \A i \in DOMAIN audit :
    audit[i].by # None =>
      /\ requests[audit[i].by] # NoRequest
      /\ \E c \in receipts :
           c.kind = requests[audit[i].by].kind /\ c.key = requests[audit[i].by].key

\* Recipients were declared by a ready event.
Declared == recipients # 0 => recipients \in DOMAIN audit /\ audit[recipients].type = "envelope.ready"

Inv ==
  /\ Typed /\ Declared /\ Receipted
  /\ \A r \in Requests : InFlight(r)
  /\ SentAsReviewed /\ FieldsCoherent /\ EffectOnce /\ PointersBacked

-----------------------------------------------------------------------------
\* The latest ready event is a ready event, and no other lies behind it.
LEMMA LatestReady ==
  ASSUME audit \in Seq(Event)
  PROVE  LET ready == {i \in DOMAIN audit : audit[i].type = "envelope.ready"}
         IN  /\ ready = {} => latestReady = 0
             /\ ready # {} => latestReady \in ready /\ \A j \in ready : j <= latestReady
PROOF
<1> DEFINE ready == {i \in DOMAIN audit : audit[i].type = "envelope.ready"}
           bounds == {n \in Nat : \A j \in ready : j <= n}
<1>1. ready \subseteq 1..Len(audit) /\ Len(audit) \in Nat
  OBVIOUS
<1>2. SUFFICES ASSUME ready # {}
               PROVE  \E i \in ready : \A j \in ready : j <= i
  BY DEF latestReady
<1>3. Len(audit) \in bounds
  BY <1>1
<1>4. PICK n \in bounds : \A m \in bounds : ~(<<m, n>> \in OpToRel(<, Nat))
  <2>1. bounds \subseteq Nat /\ bounds # {}
    BY <1>3
  <2> HIDE DEF bounds
  <2> QED
    BY <2>1, NatLessThanWellFounded, WFMin
<1>5. \A m \in bounds : n <= m
  <2>1. ASSUME NEW m \in bounds, m < n PROVE FALSE
    <3>1. <<m, n>> \in Nat \X Nat
      OBVIOUS
    <3>2. <<m, n>>[1] < <<m, n>>[2]
      BY <2>1
    <3>3. <<m, n>> \in OpToRel(<, Nat)
      BY <3>1, <3>2, Zenon DEF OpToRel
    <3> QED
      BY <1>4, <3>3
  <2> QED
    BY <2>1
<1>6. n \in ready
  <2>1. SUFFICES ASSUME n \notin ready PROVE FALSE
    OBVIOUS
  <2>2. \A j \in ready : j <= n - 1 /\ j >= 1 /\ j \in Nat
    BY <1>1, <2>1
  <2>3. n - 1 \in bounds
    BY <1>2, <2>2
  <2> QED
    BY <2>3, <1>5
<1> QED
  BY <1>6


\* A command under way, with the fields that do not change any more.
LEMMA UnderWay ==
  ASSUME Inv, NEW r \in Requests, requests[r].pc # "idle"
  PROVE  /\ requests[r] # NoRequest /\ requests[r] \in Command
         /\ Placed(requests[r]) /\ Seen(requests[r]) /\ Read(requests[r]) /\ Stored(r)
         /\ requests \in [Requests -> Command \cup {NoRequest}]
PROOF
<1>1. requests[r] # NoRequest
  BY DEF NoRequest
<1> QED
  BY <1>1 DEF Inv, InFlight, Typed

\* A command that does not move is not disturbed by an object stored.
LEMMA Undisturbed ==
  ASSUME Inv, UNCHANGED rows,
         archives \subseteq archives', uploads \subseteq uploads', ledger \subseteq ledger',
         NEW u \in Requests, requests'[u] = requests[u]
  PROVE  InFlight(u)'
PROOF
<1>1. UNCHANGED <<env, recipients, fields, audit, receipts, pinned>>
  BY DEF rows
<1>2. Stored(u) => Stored(u)'
  BY DEF Stored, edit, pdfsOf
<1> QED
  BY <1>1, <1>2 DEF Inv, InFlight, Placed, Seen, Read

\* A step that changes no row moves one command on and may store an object.
LEMMA Advance ==
  ASSUME AuthoringConstants, Inv, NEW r \in Requests, requests[r].pc # "idle",
         NEW q \in Command, q.kind = requests[r].kind, q.key = requests[r].key,
         q.pdf = requests[r].pdf, q.view = requests[r].view,
         requests' = [requests EXCEPT ![r] = q], UNCHANGED rows,
         archives \subseteq archives', uploads \subseteq uploads', ledger \subseteq ledger',
         uploads' \subseteq Pdfs, ledger' \subseteq uploads', IsFiniteSet(ledger'),
         Cardinality(ledger') <= MaxUploads,
         Placed(q), Read(q), Stored(r)'
  PROVE  Inv'
PROOF
<1>1. /\ requests[r] \in Command /\ requests[r] # NoRequest /\ Seen(requests[r])
      /\ requests \in [Requests -> Command \cup {NoRequest}]
  BY UnderWay
<1>2. requests'[r] = q /\ \A u \in Requests \ {r} : requests'[u] = requests[u]
  BY <1>1
<1>3. \A u \in Requests : /\ requests'[u].kind = requests[u].kind
                          /\ requests'[u].key = requests[u].key
                          /\ requests'[u].pdf = requests[u].pdf
  BY <1>2
<1>4. q # NoRequest
  BY DEF Placed, NoRequest
<1>5. UNCHANGED <<env, recipients, fields, audit, receipts, pinned>>
  BY DEF rows
<1>6. Typed'
  BY <1>1, <1>5 DEF Inv, Typed
<1>7. Declared' /\ SentAsReviewed' /\ FieldsCoherent' /\ EffectOnce'
  BY <1>5 DEF Inv, Declared, SentAsReviewed, FieldsCoherent, EffectOnce, latestReady
<1>8. Receipted'
  <2>1. \A i \in DOMAIN audit : audit[i].by \in Requests \cup {None}
    <3>1. \A i \in DOMAIN audit : audit[i] \in Event
      BY DEF Inv, Typed
    <3> QED
      BY <3>1 DEF Event
  <2> QED
    BY <1>2, <1>3, <1>4, <1>5, <2>1 DEF Inv, Receipted
<1>9. PointersBacked'
  BY <1>5 DEF Inv, PointersBacked, pdfsOf
<1>10. ASSUME NEW u \in Requests, u # r PROVE InFlight(u)'
  BY <1>2, <1>10, Undisturbed
<1>11. InFlight(r)'
  <2>1. Placed(q)' /\ Seen(q)' /\ Read(q)'
    BY <1>1, <1>5 DEF Placed, Seen, Read
  <2> QED
    BY <2>1, <1>2 DEF InFlight, Placed, Seen, Read
<1> QED
  BY <1>6, <1>7, <1>8, <1>9, <1>10, <1>11 DEF Inv

\* The store as it is satisfies what Advance asks of the next one.
LEMMA StoreUnchanged ==
  ASSUME Inv, UNCHANGED stored
  PROVE  /\ UNCHANGED <<archives, uploads, ledger>>
         /\ archives \subseteq archives' /\ uploads \subseteq uploads' /\ ledger \subseteq ledger'
         /\ uploads' \subseteq Pdfs /\ ledger' \subseteq uploads' /\ IsFiniteSet(ledger')
         /\ Cardinality(ledger') <= MaxUploads
BY DEF stored, Inv, Typed, PointersBacked

\* Commands with one field changed.
Same(p, q) == q.kind = p.kind /\ q.key = p.key /\ q.pdf = p.pdf /\ q.view = p.view

LEMMA PcUpdated ==
  ASSUME NEW p \in Command, NEW x \in Places, NEW q, q = [p EXCEPT !.pc = x]
  PROVE  q \in Command /\ Same(p, q) /\ q.pc = x /\ q.text = p.text /\ q.head = p.head /\ q.fields = p.fields
BY DEF Command, Same

LEMMA TextUpdated ==
  ASSUME NEW p \in Command, NEW x \in Seq(Edits), NEW q, q = [p EXCEPT !.text = x]
  PROVE  q \in Command /\ Same(p, q) /\ q.pc = p.pc /\ q.text = x /\ q.head = p.head /\ q.fields = p.fields
BY DEF Command, Same

LEMMA HeadUpdated ==
  ASSUME NEW p \in Command, NEW x \in Nat, NEW q, q = [p EXCEPT !.head = x]
  PROVE  q \in Command /\ Same(p, q) /\ q.pc = p.pc /\ q.text = p.text /\ q.head = x /\ q.fields = p.fields
BY DEF Command, Same

LEMMA GraphUpdated ==
  ASSUME NEW p \in Command, NEW x \in Nat, NEW q, q = [p EXCEPT !.graph = x]
  PROVE  q \in Command /\ Same(p, q) /\ q.pc = p.pc /\ q.text = p.text /\ q.head = p.head /\ q.fields = p.fields
BY DEF Command, Same

LEMMA FieldsUpdated ==
  ASSUME NEW p \in Command, NEW x \in FieldSet, NEW q, q = [p EXCEPT !.fields = x]
  PROVE  q \in Command /\ Same(p, q) /\ q.pc = p.pc /\ q.text = p.text /\ q.head = p.head /\ q.fields = x
BY DEF Command, Same

LEMMA AttemptUpdated ==
  ASSUME NEW p \in Command, NEW x \in Nat, NEW q, q = [p EXCEPT !.attempt = x]
  PROVE  q \in Command /\ Same(p, q) /\ q.pc = p.pc /\ q.text = p.text /\ q.head = p.head /\ q.fields = p.fields
BY DEF Command, Same

\* An answered command has forgotten what it read.
LEMMA Answered ==
  ASSUME NEW r \in Requests, requests[r] \in Command,
         requests \in [Requests -> Command \cup {NoRequest}], answer(r)
  PROVE  \E q \in Command :
           /\ Same(requests[r], q) /\ q.pc = "answered" /\ q.head = 0
           /\ requests' = [requests EXCEPT ![r] = q]
PROOF
<1> DEFINE p == requests[r]
           q1 == [p EXCEPT !.pc = "answered"]
           q2 == [q1 EXCEPT !.text = <<>>]
           q3 == [q2 EXCEPT !.head = 0]
           q4 == [q3 EXCEPT !.graph = 0]
           q5 == [q4 EXCEPT !.fields = NoFields]
           q == [q5 EXCEPT !.attempt = 0]
<1>2. requests' = [requests EXCEPT ![r] = q]
  BY DEF answer
<1>3. NoFields \in FieldSet /\ <<>> \in Seq(Edits)
  BY DEF NoFields, FieldSet
<1> HIDE DEF q
<1>4. q \in Command /\ Same(p, q) /\ q.pc = "answered" /\ q.head = 0
  <2> HIDE DEF p, q1, q2, q3, q4, q5
  <2>1. p \in Command
    BY DEF p
  <2>2. q1 \in Command /\ Same(p, q1) /\ q1.pc = "answered"
    BY <2>1, PcUpdated DEF q1, Places
  <2>3. q2 \in Command /\ Same(q1, q2) /\ q2.pc = q1.pc
    BY <2>2, <1>3 DEF q2, Command, Same
  <2>4. q3 \in Command /\ Same(q2, q3) /\ q3.pc = q2.pc /\ q3.head = 0
    BY <2>3, HeadUpdated DEF q3
  <2>5. q4 \in Command /\ Same(q3, q4) /\ q4.pc = q3.pc /\ q4.head = q3.head
    BY <2>4, GraphUpdated DEF q4
  <2>6. q5 \in Command /\ Same(q4, q5) /\ q5.pc = q4.pc /\ q5.head = q4.head
    BY <2>5, <1>3, FieldsUpdated DEF q5
  <2>7. q \in Command /\ Same(q5, q) /\ q.pc = q5.pc /\ q.head = q5.head
    BY <2>6, AttemptUpdated DEF q
  <2> QED
    BY <2>2, <2>3, <2>4, <2>5, <2>6, <2>7 DEF Same
<1> QED
  BY <1>2, <1>4

LEMMA Answers ==
  ASSUME AuthoringConstants, Inv, NEW r \in Requests, requests[r].pc # "idle", answer(r),
         UNCHANGED <<rows, stored>>
  PROVE  Inv'
PROOF
<1>1. requests[r] \in Command /\ requests \in [Requests -> Command \cup {NoRequest}]
  BY UnderWay
<1>4. PICK q \in Command :
           /\ Same(requests[r], q) /\ q.pc = "answered" /\ q.head = 0
           /\ requests' = [requests EXCEPT ![r] = q]
  BY <1>1, Answered
<1>5. requests'[r] = q
  BY <1>1, <1>4
<1>6. Placed(q) /\ Read(q)
  BY <1>4 DEF Placed, Uploading, Read, Reading, Publishing, Inv, Typed
<1>7. Stored(r)'
  BY <1>4, <1>5 DEF Stored, Publishing
<1> QED
  BY <1>4, <1>6, <1>7, StoreUnchanged, Advance DEF Same

\* A command that reads on, before it publishes what it has stored.
LEMMA ReadsOn ==
  ASSUME AuthoringConstants, Inv, NEW r \in Requests, requests[r].pc # "idle",
         NEW q \in Command, Same(requests[r], q), requests' = [requests EXCEPT ![r] = q],
         UNCHANGED <<rows, stored>>, Placed(q), Read(q), q.pc # "ledger",
         q.pc \in Publishing => requests[r].pc \in Publishing \/ q.kind \notin {"commit", "send"},
         q.text = requests[r].text \/ q.pc \notin Publishing
  PROVE  Inv'
PROOF
<1>1. requests \in [Requests -> Command \cup {NoRequest}] /\ Stored(r)
  BY UnderWay
<1>2. requests'[r] = q
  BY <1>1
<1>3. UNCHANGED archives /\ UNCHANGED ledger /\ UNCHANGED uploads
  BY DEF stored
<1>4. edit(r)' = edit(r) /\ \A t : pdfsOf(t)' = pdfsOf(t)
  BY <1>2 DEF edit, pdfsOf, Same
<1>5. Stored(r)'
  BY <1>1, <1>2, <1>3, <1>4 DEF Stored, Same
<1> QED
  BY <1>5, StoreUnchanged, Advance DEF Same

\* A command at pc, as read so far, goes on to another place.
LEMMA GoesTo ==
  ASSUME AuthoringConstants, Inv, NEW r \in Requests, requests[r].pc # "idle",
         NEW pc \in Places, go(r, pc), UNCHANGED <<rows, stored>>,
         pc \in Uploading => requests[r].pdf # None,
         \/ pc \notin Reading /\ pc # "ledger"
         \/ /\ requests[r].pc \in Reading /\ pc \in placesOf(requests[r].kind)
            /\ pc \in Publishing => requests[r].pc \in Publishing \/ requests[r].kind \notin {"commit", "send"}
  PROVE  Inv'
PROOF
<1> DEFINE q == [requests[r] EXCEPT !.pc = pc]
<1>1. /\ requests[r] \in Command /\ requests \in [Requests -> Command \cup {NoRequest}]
      /\ Read(requests[r]) /\ Stored(r)
  BY UnderWay
<1>2. /\ q \in Command /\ q.kind = requests[r].kind /\ q.key = requests[r].key
      /\ q.pdf = requests[r].pdf /\ q.view = requests[r].view /\ q.pc = pc
      /\ q.head = requests[r].head /\ q.text = requests[r].text /\ q.fields = requests[r].fields
  BY <1>1 DEF Command
<1>3. requests' = [requests EXCEPT ![r] = q] /\ requests'[r] = q
  BY <1>1 DEF go
<1> HIDE DEF q
<1>4. Placed(q)
  BY <1>2 DEF Placed, Places, Reading, Uploading
<1>5. Read(q)
  BY <1>1, <1>2 DEF Read, Publishing, Reading
<1> QED
  BY <1>1, <1>2, <1>3, <1>4, <1>5, ReadsOn DEF Same, Reading, Publishing, placesOf

-----------------------------------------------------------------------------
(***************************************************************************)
(* The steps that publish nothing.                                         *)
(***************************************************************************)

LEMMA RetryInv ==
  ASSUME AuthoringConstants, Inv, NEW r \in Requests, retry(r)
  PROVE  Inv'
PROOF
<1>1. requests[r].pc = "answered" /\ UNCHANGED <<rows, stored>>
  BY DEF retry, at
<1>2. PICK pc \in {"upload", "prepare"} :
             go(r, pc) /\ (pc = "upload" => requests[r].pdf # None)
  BY DEF retry
<1> QED
  BY <1>1, <1>2, GoesTo DEF Places, Reading, Uploading

LEMMA FailInv ==
  ASSUME AuthoringConstants, Inv, NEW r \in Requests, fail(r)
  PROVE  Inv'
BY Answers DEF fail, at

LEMMA UploadPdfInv ==
  ASSUME AuthoringConstants, Inv, NEW r \in Requests, uploadPdf(r)
  PROVE  Inv'
PROOF
<1> DEFINE q == [requests[r] EXCEPT !.pc = "ledger"]
<1>1. /\ requests[r].pc = "upload" /\ requests' = [requests EXCEPT ![r] = q]
      /\ uploads' = uploads \cup {requests[r].pdf} /\ UNCHANGED <<rows, archives, ledger>>
  BY DEF uploadPdf, at, go
<1>2. requests[r] \in Command /\ requests \in [Requests -> Command \cup {NoRequest}]
      /\ Read(requests[r])
  BY <1>1, UnderWay
<1>3. q \in Command /\ Same(requests[r], q) /\ q.pc = "ledger" /\ q.head = requests[r].head
  BY <1>2, PcUpdated DEF Places, Uploading
<1>4. requests'[r] = q
  BY <1>1, <1>2
<1> HIDE DEF q
<1>5. requests[r].pdf \in Pdfs /\ requests[r].pdf # None
  BY <1>1, <1>2, UnderWay DEF Placed, Uploading, Command
<1>6. Placed(q) /\ Read(q)
  BY <1>2, <1>3, <1>5 DEF Placed, Read, Reading, Publishing, Uploading, Same
<1>7. Stored(r)'
  BY <1>1, <1>3, <1>4 DEF Stored, Publishing, Same
<1>8. /\ archives \subseteq archives' /\ uploads \subseteq uploads' /\ ledger \subseteq ledger'
      /\ uploads' \subseteq Pdfs /\ ledger' \subseteq uploads' /\ IsFiniteSet(ledger')
      /\ Cardinality(ledger') <= MaxUploads
  BY <1>1, <1>5 DEF Inv, Typed, PointersBacked
<1> QED
  BY <1>1, <1>3, <1>6, <1>7, <1>8, Advance DEF Same

\* Both stores count under the insert, so that a row is new only with room.
LEMMA LedgerGrows ==
  ASSUME AuthoringConstants, Inv, NEW r \in Requests, requests[r].pc = "ledger",
         go(r, "prepare"), UNCHANGED <<rows, archives, uploads>>,
         ledger' = ledger \cup {requests[r].pdf},
         requests[r].pdf \in ledger \/ Cardinality(ledger) < MaxUploads
  PROVE  Inv'
PROOF
<1> DEFINE q == [requests[r] EXCEPT !.pc = "prepare"]
<1>1. requests' = [requests EXCEPT ![r] = q]
  BY DEF go
<1>2. requests[r] \in Command /\ requests \in [Requests -> Command \cup {NoRequest}]
      /\ Read(requests[r]) /\ requests[r].pdf \in uploads
  BY UnderWay DEF Stored
<1>3. q \in Command /\ Same(requests[r], q) /\ q.pc = "prepare" /\ q.head = requests[r].head
  BY <1>2, PcUpdated DEF Places
<1>4. requests'[r] = q
  BY <1>1, <1>2
<1> HIDE DEF q
<1>5. Placed(q) /\ Read(q)
  BY <1>2, <1>3 DEF Placed, Read, Reading, Publishing, Uploading, Same
<1>6. Stored(r)'
  BY <1>1, <1>3, <1>4 DEF Stored, Publishing, Same
<1>7. IsFiniteSet(ledger') /\ Cardinality(ledger') <= MaxUploads
  <2>1. IsFiniteSet(ledger) /\ Cardinality(ledger) <= MaxUploads /\ MaxUploads \in Nat
    BY DEF Inv, Typed, PointersBacked, AuthoringConstants
  <2>2. /\ IsFiniteSet(ledger')
        /\ Cardinality(ledger') =
             IF requests[r].pdf \in ledger THEN Cardinality(ledger) ELSE Cardinality(ledger) + 1
    BY <2>1, FS_AddElement
  <2>3. Cardinality(ledger) \in Nat
    BY <2>1, FS_CardinalityType
  <2> QED
    BY <2>1, <2>2, <2>3
<1>8. /\ archives \subseteq archives' /\ uploads \subseteq uploads' /\ ledger \subseteq ledger'
      /\ uploads' \subseteq Pdfs /\ ledger' \subseteq uploads'
  BY <1>1, <1>2 DEF Inv, Typed, PointersBacked
<1> QED
  BY <1>1, <1>3, <1>5, <1>6, <1>7, <1>8, Advance DEF Same

LEMMA InsertUploadedInv ==
  ASSUME AuthoringConstants, Inv, NEW r \in Requests, insertUploaded(r)
  PROVE  Inv'
PROOF
<1>1. requests[r].pc = "ledger" /\ UNCHANGED <<rows, archives, uploads>>
  BY DEF insertUploaded, at
<1>2. CASE /\ ledger' = ledger \cup {requests[r].pdf} /\ go(r, "prepare")
           /\ requests[r].pdf \in ledger \/ Cardinality(ledger) < MaxUploads
  BY <1>1, <1>2, LedgerGrows
<1>3. CASE answer(r) /\ UNCHANGED ledger
  BY <1>1, <1>3, Answers DEF stored
<1> QED
  BY <1>2, <1>3 DEF insertUploaded

LEMMA D1InsertUploadedInv ==
  ASSUME AuthoringConstants, Inv, NEW r \in Requests, d1insertUploaded(r)
  PROVE  Inv'
PROOF
<1>1. requests[r].pc = "ledger" /\ UNCHANGED <<rows, archives, uploads>>
  BY DEF d1insertUploaded, at
<1>2. CASE /\ ledger' = ledger \cup {requests[r].pdf} /\ go(r, "prepare")
           /\ Cardinality(ledger) < MaxUploads
  BY <1>1, <1>2, LedgerGrows
<1>3. CASE go(r, "existing") /\ UNCHANGED ledger
  <2>1. requests[r].pdf # None
    BY <1>1, UnderWay DEF Placed, Uploading
  <2> QED
    BY <1>1, <1>3, <2>1, GoesTo DEF stored, Places, Reading, Uploading
<1> QED
  BY <1>2, <1>3 DEF d1insertUploaded

LEMMA ReadExistingInv ==
  ASSUME AuthoringConstants, Inv, NEW r \in Requests, readExisting(r)
  PROVE  Inv'
PROOF
<1>1. requests[r].pc = "existing" /\ UNCHANGED <<rows, stored>>
  BY DEF readExisting, at, commandStep
<1>2. CASE answer(r)
  BY <1>1, <1>2, Answers
<1>3. CASE go(r, "prepare")
  BY <1>1, <1>3, GoesTo DEF Places, Reading, Uploading
<1> QED
  BY <1>2, <1>3 DEF readExisting

\* The envelope row is read: the text is the one of its generation.
LEMMA EnvelopeRead ==
  ASSUME AuthoringConstants, Inv, NEW r \in Requests, requests[r].pc # "idle",
         requests' = [requests EXCEPT ![r].pc = "head", ![r].text = env.text],
         requests[r].kind = "ready" => env.text # <<>>, UNCHANGED <<rows, stored>>
  PROVE  Inv'
PROOF
<1> DEFINE q == [requests[r] EXCEPT !.pc = "head", !.text = env.text]
<1>1. requests[r] \in Command /\ requests \in [Requests -> Command \cup {NoRequest}]
      /\ Read(requests[r])
  BY UnderWay
<1>2. requests' = [requests EXCEPT ![r] = q]
  OBVIOUS
<1>3. env.text \in Seq(Edits)
  BY DEF Inv, Typed, Envelope
<1>4. q \in Command /\ Same(requests[r], q) /\ q.pc = "head" /\ q.head = requests[r].head
      /\ q.text = env.text
  BY <1>1, <1>3 DEF Command, Same, Places, Reading
<1> HIDE DEF q
<1>5. Placed(q)
  BY <1>4 DEF Placed, placesOf, Uploading, Reading
<1>6. Read(q)
  BY <1>1, <1>4 DEF Read, Publishing, Same
<1> QED
  BY <1>2, <1>4, <1>5, <1>6, ReadsOn DEF Publishing

LEMMA PrepareEnvelopeInv ==
  ASSUME AuthoringConstants, Inv, NEW r \in Requests, prepareEnvelope(r)
  PROVE  Inv'
PROOF
<1>1. requests[r].pc # "idle" /\ UNCHANGED <<rows, stored>>
  BY DEF prepareEnvelope, at
<1>2. CASE answer(r)
  BY <1>1, <1>2, Answers
<1>3. CASE /\ envelopeAccepts(r)
           /\ requests' = [requests EXCEPT ![r].pc = "head", ![r].text = env.text]
  BY <1>1, <1>3, EnvelopeRead DEF envelopeAccepts
<1> QED
  BY <1>2, <1>3 DEF prepareEnvelope

LEMMA FindEnvelopeInv ==
  ASSUME AuthoringConstants, Inv, NEW r \in Requests, findEnvelope(r)
  PROVE  Inv'
PROOF
<1>1. requests[r].pc # "idle" /\ UNCHANGED <<rows, stored>>
  BY DEF findEnvelope, at, commandStep
<1>2. CASE answer(r)
  BY <1>1, <1>2, Answers
<1>3. CASE /\ envelopeAccepts(r)
           /\ requests' = [requests EXCEPT ![r].pc = "head", ![r].text = env.text]
  BY <1>1, <1>3, EnvelopeRead DEF envelopeAccepts
<1> QED
  BY <1>2, <1>3 DEF findEnvelope

\* The audit head is read after the envelope.
LEMMA HeadRead ==
  ASSUME AuthoringConstants, Inv, NEW r \in Requests, requests[r].pc = "head",
         NEW pc \in placesOf(requests[r].kind) \ {"head", "insert"},
         requests' = [requests EXCEPT ![r].head = Len(audit), ![r].pc = pc],
         pc = "publish" => requests[r].kind \notin {"commit", "send"},
         UNCHANGED <<rows, stored>>
  PROVE  Inv'
PROOF
<1> DEFINE q == [requests[r] EXCEPT !.head = Len(audit), !.pc = pc]
<1>1. requests[r] \in Command /\ requests \in [Requests -> Command \cup {NoRequest}]
      /\ Read(requests[r])
  BY UnderWay
<1>2. requests' = [requests EXCEPT ![r] = q]
  OBVIOUS
<1>3. Len(audit) \in Nat
  BY DEF Inv, Typed
<1>4. pc \in Reading
  BY <1>1 DEF placesOf, Reading, Command, Kinds
<1>5. q \in Command /\ Same(requests[r], q) /\ q.pc = pc /\ q.head = Len(audit)
      /\ q.text = requests[r].text
  BY <1>1, <1>3, <1>4 DEF Command, Same, Places
<1> HIDE DEF q
<1>6. Placed(q)
  BY <1>4, <1>5 DEF Placed, Uploading, Reading, Same
<1>7. Read(q)
  BY <1>1, <1>3, <1>4, <1>5 DEF Read, Publishing, Reading, Same
<1> QED
  BY <1>2, <1>4, <1>5, <1>6, <1>7, ReadsOn DEF Publishing, Reading, Same

LEMMA ReadAuditHeadInv ==
  ASSUME AuthoringConstants, Inv, NEW r \in Requests, readAuditHead(r)
  PROVE  Inv'
PROOF
<1>1. requests[r].pc = "head" /\ UNCHANGED <<rows, stored>>
  BY DEF readAuditHead, at
<1>2. requests[r] \in Command
  BY <1>1, UnderWay
<1>3. CASE answer(r)
  BY <1>1, <1>3, Answers
<1>4. CASE ~answer(r)
  <2> DEFINE pc == CASE requests[r].kind = "commit" -> "archive"
                     [] requests[r].kind \in {"fields", "send"} -> "recipients"
                     [] OTHER -> "publish"
  <2>1. requests' = [requests EXCEPT ![r].head = Len(audit), ![r].pc = pc]
    BY <1>4 DEF readAuditHead
  <2>2. pc \in placesOf(requests[r].kind) \ {"head", "insert"}
        /\ (pc = "publish" => requests[r].kind \notin {"commit", "send"})
    BY <1>2 DEF placesOf, Command, Kinds
  <2> HIDE DEF pc
  <2> QED
    BY <1>1, <2>1, <2>2, HeadRead
<1> QED
  BY <1>3, <1>4

LEMMA D1ReadAuditHeadInv ==
  ASSUME AuthoringConstants, Inv, NEW r \in Requests, d1readAuditHead(r)
  PROVE  Inv'
PROOF
<1> DEFINE pc == CASE requests[r].kind = "commit" -> "archive"
                   [] requests[r].kind = "fields" -> "recipients"
                   [] requests[r].kind \in {"reopen", "send"} -> "anchor"
                   [] OTHER -> "publish"
<1>1. requests[r].pc = "head" /\ UNCHANGED <<rows, stored>>
      /\ requests' = [requests EXCEPT ![r].head = Len(audit), ![r].pc = pc]
  BY DEF d1readAuditHead, at, commandStep
<1>2. requests[r] \in Command
  BY <1>1, UnderWay
<1>3. pc \in placesOf(requests[r].kind) \ {"head", "insert"}
      /\ (pc = "publish" => requests[r].kind \notin {"commit", "send"})
  BY <1>2 DEF placesOf, Command, Kinds
<1> HIDE DEF pc
<1> QED
  BY <1>1, <1>3, HeadRead

LEMMA ReadAnchorInv ==
  ASSUME AuthoringConstants, Inv, NEW r \in Requests, readAnchor(r)
  PROVE  Inv'
PROOF
<1>1. requests[r].pc = "anchor" /\ UNCHANGED <<rows, stored>>
  BY DEF readAnchor, at, commandStep
<1>2. requests[r] \in Command /\ requests[r].kind \in {"send", "reopen"}
  BY <1>1, UnderWay DEF Placed, Reading, placesOf, Command, Kinds
<1>3. CASE answer(r)
  BY <1>1, <1>3, Answers
<1>4. CASE go(r, afterAnchor(requests[r].kind))
  <2>1. CASE requests[r].kind = "send"
    BY <1>1, <1>4, <2>1, GoesTo DEF afterAnchor, placesOf, Places, Reading, Uploading, Publishing
  <2>2. CASE requests[r].kind = "reopen"
    BY <1>1, <1>4, <2>2, GoesTo DEF afterAnchor, placesOf, Places, Reading, Uploading, Publishing
  <2> QED
    BY <1>2, <2>1, <2>2
<1> QED
  BY <1>3, <1>4 DEF readAnchor

LEMMA ReadRecipientsInv ==
  ASSUME AuthoringConstants, Inv, NEW r \in Requests, readRecipients(r)
  PROVE  Inv'
PROOF
<1>1. requests[r].pc = "recipients" /\ UNCHANGED <<rows, stored>>
  BY DEF readRecipients, at
<1>2. /\ requests[r] \in Command /\ requests \in [Requests -> Command \cup {NoRequest}]
      /\ requests[r].kind \in {"send", "fields"} /\ Read(requests[r])
  BY <1>1, UnderWay DEF Placed, Reading, placesOf, Command, Kinds
<1>3. CASE answer(r)
  BY <1>1, <1>3, Answers
<1>4. CASE ~answer(r)
  <2> DEFINE pc == IF requests[r].kind = "fields" THEN "workspace" ELSE "render"
             q == [requests[r] EXCEPT !.graph = recipients, !.pc = pc]
  <2>1. requests' = [requests EXCEPT ![r] = q]
    BY <1>4 DEF readRecipients
  <2>2. recipients \in Nat
    BY DEF Inv, Typed
  <2>3. pc \in {"workspace", "render"} /\ pc \in placesOf(requests[r].kind)
    BY <1>2 DEF placesOf
  <2> HIDE DEF pc
  <2>4. q \in Command /\ Same(requests[r], q) /\ q.pc = pc /\ q.head = requests[r].head
        /\ q.text = requests[r].text
    BY <1>2, <2>2, <2>3 DEF Command, Same, Places, Reading
  <2> HIDE DEF q
  <2>5. Placed(q)
    BY <2>3, <2>4 DEF Placed, Uploading, Same
  <2>6. Read(q)
    BY <1>1, <1>2, <2>3, <2>4 DEF Read, Publishing, Reading, Same
  <2> QED
    BY <1>1, <2>1, <2>3, <2>4, <2>5, <2>6, ReadsOn DEF Publishing
<1> QED
  BY <1>3, <1>4

LEMMA ReadWorkspaceInv ==
  ASSUME AuthoringConstants, Inv, NEW r \in Requests, readWorkspace(r)
  PROVE  Inv'
PROOF
<1>1. requests[r].pc = "workspace" /\ UNCHANGED <<rows, stored>>
  BY DEF readWorkspace, at
<1>2. requests[r].kind = "fields"
  BY <1>1, UnderWay DEF Placed, Reading, placesOf, Command, Kinds
<1>3. CASE answer(r)
  BY <1>1, <1>3, Answers
<1>4. CASE go(r, "publish")
  BY <1>1, <1>2, <1>4, GoesTo DEF placesOf, Places, Reading, Uploading, Publishing
<1> QED
  BY <1>3, <1>4 DEF readWorkspace

LEMMA RenderSentInv ==
  ASSUME AuthoringConstants, Inv, NEW r \in Requests, renderSent(r)
  PROVE  Inv'
PROOF
<1> DEFINE q == [requests[r] EXCEPT !.fields = fields, !.pc = "publish"]
<1>1. /\ requests[r].pc = "render" /\ UNCHANGED <<rows, uploads, ledger>>
      /\ archives' = archives \cup {<<"sent", requests[r].text>>}
      /\ requests' = [requests EXCEPT ![r] = q]
  BY DEF renderSent, at
<1>2. /\ requests[r] \in Command /\ requests \in [Requests -> Command \cup {NoRequest}]
      /\ requests[r].kind = "send" /\ Read(requests[r])
  BY <1>1, UnderWay DEF Placed, Reading, placesOf, Command, Kinds
<1>3. fields \in FieldSet
  BY DEF Inv, Typed
<1>4. q \in Command /\ Same(requests[r], q) /\ q.pc = "publish" /\ q.head = requests[r].head
      /\ q.text = requests[r].text /\ q.fields = fields
  BY <1>2, <1>3 DEF Command, Same, Places, Reading
<1>5. requests'[r] = q
  BY <1>1, <1>2
<1> HIDE DEF q
<1>6. Placed(q)
  BY <1>2, <1>4 DEF Placed, placesOf, Uploading, Same
<1>7. Read(q)
  BY <1>1, <1>2, <1>4 DEF Read, Reading, Same
<1>8. Stored(r)'
  BY <1>1, <1>2, <1>4, <1>5 DEF Stored, Same
<1>9. /\ archives \subseteq archives' /\ uploads \subseteq uploads' /\ ledger \subseteq ledger'
      /\ uploads' \subseteq Pdfs /\ ledger' \subseteq uploads' /\ IsFiniteSet(ledger')
      /\ Cardinality(ledger') <= MaxUploads
  BY <1>1 DEF Inv, Typed, PointersBacked
<1> QED
  BY <1>1, <1>4, <1>6, <1>7, <1>8, <1>9, Advance DEF Same

LEMMA PersistArchiveInv ==
  ASSUME AuthoringConstants, Inv, NEW r \in Requests, persistImmutableArchive(r)
  PROVE  Inv'
PROOF
<1> DEFINE next == Append(requests[r].text, edit(r))
<1>1. /\ requests[r].pc = "archive" /\ UNCHANGED <<rows, uploads, ledger>>
  BY DEF persistImmutableArchive, at
<1>2. /\ requests[r] \in Command /\ requests \in [Requests -> Command \cup {NoRequest}]
      /\ requests[r].kind = "commit" /\ Read(requests[r])
  BY <1>1, UnderWay DEF Placed, Reading, placesOf, Command, Kinds
<1>3. CASE answer(r) /\ UNCHANGED archives
  BY <1>1, <1>3, Answers DEF stored
<1>4. CASE pdfsOf(next) \subseteq ledger /\ archives' = archives \cup {<<"draft", next>>}
           /\ go(r, "publish")
  <2> DEFINE q == [requests[r] EXCEPT !.pc = "publish"]
  <2>1. requests' = [requests EXCEPT ![r] = q]
    BY <1>4 DEF go
  <2>2. q \in Command /\ Same(requests[r], q) /\ q.pc = "publish" /\ q.head = requests[r].head
        /\ q.text = requests[r].text
    BY <1>2, PcUpdated DEF Places, Reading
  <2>3. requests'[r] = q
    BY <1>2, <2>1
  <2> HIDE DEF q
  <2>4. Placed(q)
    BY <1>2, <2>2 DEF Placed, placesOf, Uploading, Same
  <2>5. Read(q)
    BY <1>1, <1>2, <2>2 DEF Read, Reading, Same
  <2>6. edit(r)' = edit(r) /\ \A t : pdfsOf(t)' = pdfsOf(t)
    BY <2>2, <2>3 DEF edit, pdfsOf, Same
  <2>7. Stored(r)'
    BY <1>1, <1>2, <1>4, <2>2, <2>3, <2>6 DEF Stored, Same
  <2>8. /\ archives \subseteq archives' /\ uploads \subseteq uploads' /\ ledger \subseteq ledger'
        /\ uploads' \subseteq Pdfs /\ ledger' \subseteq uploads' /\ IsFiniteSet(ledger')
        /\ Cardinality(ledger') <= MaxUploads
    BY <1>1, <1>4 DEF Inv, Typed, PointersBacked
  <2> QED
    BY <1>1, <2>1, <2>2, <2>4, <2>5, <2>7, <2>8, Advance DEF Same
<1> QED
  BY <1>3, <1>4 DEF persistImmutableArchive

LEMMA ResolveInv ==
  ASSUME AuthoringConstants, Inv, NEW r \in Requests, resolveFirst(r) \/ resolveAgain(r)
  PROVE  Inv'
PROOF
<1>1. UNCHANGED <<rows, stored>>
  BY DEF resolveFirst, resolveAgain, commandStep
<1>2. requests[r].pc \in {"prepare", "publish"}
  BY DEF resolveFirst, resolveAgain, at
<1>3. CASE answer(r)
  BY <1>1, <1>2, <1>3, Answers
<1>4. CASE go(r, "envelope")
  BY <1>1, <1>2, <1>4, GoesTo DEF Places, Reading, Uploading
<1>5. CASE requests[r].pc = "publish" /\ go(r, "insert")
  <2>1. "insert" \in placesOf(requests[r].kind)
    BY DEF placesOf
  <2> QED
    BY <1>1, <1>5, <2>1, GoesTo DEF Places, Reading, Uploading, Publishing
<1> QED
  BY <1>3, <1>4, <1>5 DEF resolveFirst, resolveAgain, at

\* A void that found only the audit head moved prepares once more.
LEMMA AgainInv ==
  ASSUME AuthoringConstants, Inv, NEW r \in Requests, requests[r].pc # "idle",
         requests' = [requests EXCEPT ![r].pc = "prepare", ![r].attempt = @ + 1],
         UNCHANGED <<rows, stored>>
  PROVE  Inv'
PROOF
<1> DEFINE q == [requests[r] EXCEPT !.pc = "prepare", !.attempt = @ + 1]
<1>1. requests[r] \in Command /\ requests \in [Requests -> Command \cup {NoRequest}]
      /\ Read(requests[r])
  BY UnderWay
<1>2. requests' = [requests EXCEPT ![r] = q]
  OBVIOUS
<1>3. q \in Command /\ Same(requests[r], q) /\ q.pc = "prepare" /\ q.head = requests[r].head
  BY <1>1 DEF Command, Same, Places
<1> HIDE DEF q
<1>4. Placed(q) /\ Read(q)
  BY <1>1, <1>3 DEF Placed, Read, Reading, Publishing, Uploading
<1> QED
  BY <1>2, <1>3, <1>4, ReadsOn DEF Publishing

LEMMA ClassifyVoidInv ==
  ASSUME AuthoringConstants, Inv, NEW r \in Requests, classifyVoid(r)
  PROVE  Inv'
PROOF
<1>1. requests[r].pc # "idle" /\ UNCHANGED <<rows, stored>>
  BY DEF classifyVoid, at, commandStep
<1>2. CASE answer(r)
  BY <1>1, <1>2, Answers
<1>3. CASE go(r, "envelopeAgain")
  BY <1>1, <1>3, GoesTo DEF Places, Reading, Uploading
<1>4. CASE go(r, "headAgain")
  BY <1>1, <1>4, GoesTo DEF Places, Reading, Uploading
<1>5. CASE requests' = [requests EXCEPT ![r].pc = "prepare", ![r].attempt = @ + 1]
  BY <1>1, <1>5, AgainInv
<1> QED
  BY <1>2, <1>3, <1>4, <1>5 DEF classifyVoid

\* What a sender sees when it starts.
LEMMA StartInv ==
  ASSUME AuthoringConstants, Inv, NEW r \in Requests, start(r)
  PROVE  Inv'
PROOF
<1>1. PICK kind \in Kinds, key \in Keys, pdf \in Pdfs \cup {None} :
         /\ kind \in {"fields", "reopen", "send"} => recipients # 0
         /\ requests' = [requests EXCEPT ![r] =
              [NoRequest EXCEPT !.kind = kind, !.key = key, !.pdf = pdf, !.view = view,
                                !.pc = IF pdf # None THEN "upload" ELSE "prepare"]]
  BY Zenon DEF start
<1> DEFINE pc == IF pdf # None THEN "upload" ELSE "prepare"
           q == [NoRequest EXCEPT !.kind = kind, !.key = key, !.pdf = pdf, !.view = view, !.pc = pc]
<1>2. requests \in [Requests -> Command \cup {NoRequest}] /\ audit \in Seq(Event)
      /\ env \in Envelope /\ recipients \in Nat
  BY DEF Inv, Typed
<1>3. requests'[r] = q /\ \A u \in Requests \ {r} : requests'[u] = requests[u]
  BY <1>1, <1>2
<1>4. requests[r] = NoRequest
  BY DEF Inv, InFlight, Placed, start, at
<1>5. UNCHANGED <<env, recipients, fields, audit, receipts, pinned>>
      /\ UNCHANGED <<archives, uploads, ledger>> /\ UNCHANGED rows
  BY DEF start, rows, stored
<1>6. latestReady \in Nat
      /\ (recipients # 0 => latestReady \in DOMAIN audit
                             /\ audit[latestReady].type = "envelope.ready")
  <2> DEFINE ready == {i \in DOMAIN audit : audit[i].type = "envelope.ready"}
  <2>1. /\ ready = {} => latestReady = 0
        /\ ready # {} => latestReady \in ready
    BY <1>2, LatestReady
  <2>2. ready \subseteq Nat /\ (recipients # 0 => recipients \in ready)
    BY <1>2 DEF Inv, Declared
  <2> QED
    BY <2>1, <2>2
<1>7. view \in Screen /\ view.generation = env.generation /\ view.ready = latestReady
  BY <1>2, <1>6 DEF view, Screen, Envelope
<1>8. pc \in Places /\ pc \notin Reading /\ pc # "idle" /\ pc # "ledger"
      /\ (pc \in Uploading => pdf # None)
  BY DEF Places, Reading, Uploading
<1>9. NoFields \in FieldSet /\ <<>> \in Seq(Edits)
  BY DEF NoFields, FieldSet
<1> HIDE DEF pc
<1>10. q = [kind |-> kind, key |-> key, pdf |-> pdf, view |-> view, pc |-> pc,
             text |-> <<>>, head |-> 0, graph |-> 0, fields |-> NoFields, attempt |-> 0]
  <2> DEFINE fresh(k, y, d, w, c) ==
               [kind |-> k, key |-> y, pdf |-> d, view |-> w, pc |-> c,
                text |-> <<>>, head |-> 0, graph |-> 0, fields |-> NoFields, attempt |-> 0]
             n0 == fresh("none", None, None, None, "idle")
             n1 == [n0 EXCEPT !.kind = kind]
             n2 == [n1 EXCEPT !.key = key]
             n3 == [n2 EXCEPT !.pdf = pdf]
             n4 == [n3 EXCEPT !.view = view]
  <2>1. NoRequest = n0
    BY DEF NoRequest
  <2>2. n1 = fresh(kind, None, None, None, "idle")
    OBVIOUS
  <2>3. n2 = fresh(kind, key, None, None, "idle")
    <3> HIDE DEF n1
    <3> QED
      BY <2>2
  <2>4. n3 = fresh(kind, key, pdf, None, "idle")
    <3> HIDE DEF n2
    <3> QED
      BY <2>3
  <2>5. n4 = fresh(kind, key, pdf, view, "idle")
    <3> HIDE DEF n3
    <3> QED
      BY <2>4
  <2>6. [n4 EXCEPT !.pc = pc] = fresh(kind, key, pdf, view, pc)
    <3> HIDE DEF n4
    <3> QED
      BY <2>5
  <2> QED
    BY <2>1, <2>6
<1>11. /\ q \in Command /\ q.kind = kind /\ q.pdf = pdf /\ q.view = view /\ q.pc = pc
       /\ q.head = 0
  <2> HIDE DEF q
  <2> QED
    BY <1>7, <1>8, <1>9, <1>10 DEF Command
<1> HIDE DEF q
<1>12. Placed(q) /\ Seen(q) /\ Read(q)
  <2>1. Placed(q)
    BY <1>8, <1>11 DEF Placed
  <2>2. Seen(q)
    BY <1>1, <1>2, <1>6, <1>7, <1>11 DEF Seen, Envelope
  <2>3. Read(q)
    BY <1>2, <1>8, <1>11 DEF Read, Reading, Publishing
  <2> QED
    BY <2>1, <2>2, <2>3
<1>13. Stored(r)'
  BY <1>3, <1>8, <1>11 DEF Stored, Publishing, Reading
<1>14. InFlight(r)'
  BY <1>3, <1>5, <1>11, <1>12, <1>13 DEF InFlight, Placed, Seen, Read
<1>15. ASSUME NEW u \in Requests, u # r PROVE InFlight(u)'
  BY <1>3, <1>5, <1>15, Undisturbed
<1>16. Typed'
  BY <1>2, <1>3, <1>5, <1>11, <1>1 DEF Inv, Typed
<1>17. Declared' /\ SentAsReviewed' /\ FieldsCoherent' /\ EffectOnce'
  BY <1>5 DEF Inv, Declared, SentAsReviewed, FieldsCoherent, EffectOnce, latestReady
<1>18. Receipted'
  <2>1. SUFFICES ASSUME NEW i \in DOMAIN audit, audit[i].by # None
                 PROVE  /\ requests'[audit[i].by] # NoRequest
                        /\ \E c \in receipts : /\ c.kind = requests'[audit[i].by].kind
                                               /\ c.key = requests'[audit[i].by].key
    BY <1>5 DEF Receipted
  <2>2. audit[i].by \in Requests \ {r}
    <3>1. audit[i] \in Event
      BY <1>2
    <3>2. audit[i].by \in Requests
      BY <2>1, <3>1 DEF Event
    <3>3. requests[audit[i].by] # NoRequest
      BY <2>1 DEF Inv, Receipted
    <3> QED
      BY <1>4, <3>2, <3>3
  <2> QED
    BY <1>3, <1>5, <2>1, <2>2 DEF Inv, Receipted
<1>19. PointersBacked'
  BY <1>5 DEF Inv, PointersBacked, pdfsOf
<1> QED
  BY <1>14, <1>15, <1>16, <1>17, <1>18, <1>19 DEF Inv

-----------------------------------------------------------------------------
(***************************************************************************)
(* The publications, which the two stores guard in ways of their own.      *)
(***************************************************************************)

\* What either store compares before it writes anything.
Accepted(r) ==
  /\ requests[r].pc \in Publishing
  /\ ~resolveCommand(r) /\ auditHeadCurrent(r) /\ generationSeen(r)
  /\ answer(r) /\ UNCHANGED <<stored, retries>>

CommitAccepted(r) == Accepted(r) /\ env.status = "draft" /\ publishDraftRevision(r)

ReadyAccepted(r) ==
  Accepted(r) /\ env.status = "draft" /\ env.text = requests[r].text /\ publishReady(r)

FieldsAccepted(r) ==
  /\ Accepted(r) /\ env.status = "ready" /\ env.text = requests[r].text
  /\ recipients = requests[r].graph /\ publishFieldPlacement(r)

ReopenAccepted(r) == Accepted(r) /\ env.status = "ready" /\ publishReopen(r)

SendAccepted(r) ==
  /\ Accepted(r) /\ env.status = "ready" /\ env.sent = <<>> /\ env.text = requests[r].text
  /\ readyAnchor(r, env.text) /\ recipients = requests[r].graph /\ publishSend(r)

VoidAccepted(r) == Accepted(r) /\ env.status \in {"draft", "ready"} /\ publishVoid(r)

Publication(r) ==
  \/ CommitAccepted(r) \/ ReadyAccepted(r) \/ FieldsAccepted(r)
  \/ ReopenAccepted(r) \/ SendAccepted(r) \/ VoidAccepted(r)

\* An event is appended to the chain.
LEMMA EventAppended ==
  ASSUME Inv, NEW r \in Requests, NEW type \in EventTypes, record(r, type), env' \in Envelope
  PROVE  /\ audit' \in Seq(Event) /\ Len(audit) \in Nat /\ Len(audit') = Len(audit) + 1
         /\ DOMAIN audit = 1..Len(audit) /\ DOMAIN audit' = 1..(Len(audit) + 1)
         /\ \A i \in DOMAIN audit : audit'[i] = audit[i]
         /\ audit'[Len(audit) + 1].type = type /\ audit'[Len(audit) + 1].by = r
PROOF
<1> DEFINE e == [type |-> type, by |-> r, generation |-> env'.generation, text |-> env'.text]
<1>1. e \in Event /\ e.type = type /\ e.by = r
  BY DEF Event, Envelope
<1>2. audit' = Append(audit, e)
  BY DEF record
<1>3. audit \in Seq(Event)
  BY DEF Inv, Typed
<1> HIDE DEF e
<1> QED
  BY <1>1, <1>2, <1>3

\* Nothing but a ready event moves the latest one.
LEMMA LatestUnmoved ==
  ASSUME Inv, NEW r \in Requests, NEW type \in EventTypes \ {"envelope.ready"},
         record(r, type), env' \in Envelope
  PROVE  latestReady' = latestReady
PROOF
<1> DEFINE latest(s) == IF s = {} THEN 0 ELSE CHOOSE i \in s : \A j \in s : j <= i
           ready == {i \in DOMAIN audit : audit[i].type = "envelope.ready"}
           readyNext == {i \in DOMAIN audit' : audit'[i].type = "envelope.ready"}
<1>1. latestReady = latest(ready) /\ latestReady' = latest(readyNext)
  BY DEF latestReady
<1>2. ready = readyNext
  BY EventAppended
<1> HIDE DEF latest
<1> QED
  BY <1>1, <1>2

\* What every publication leaves: the command answered, its event and receipt
\* written, and the readings of the other commands as true as before.
LEMMA Published ==
  ASSUME AuthoringConstants, Inv, NEW r \in Requests, NEW type \in EventTypes,
         Accepted(r), record(r, type),
         env' \in Envelope, fields' \in FieldSet, recipients' \in Nat,
         env'.generation >= env.generation,
         env'.generation = env.generation => env'.text = env.text
  PROVE  /\ Typed' /\ Receipted' /\ EffectOnce' /\ \A u \in Requests : InFlight(u)'
         /\ UNCHANGED <<archives, uploads, ledger>>
PROOF
<1>1. /\ requests[r].pc # "idle"
      /\ UNCHANGED <<archives, uploads, ledger>>
  BY DEF Accepted, Publishing, stored
<1>2. /\ requests[r] \in Command /\ requests \in [Requests -> Command \cup {NoRequest}]
      /\ Seen(requests[r])
  BY <1>1, UnderWay
<1>3. PICK q \in Command :
         /\ Same(requests[r], q) /\ q.pc = "answered" /\ q.head = 0
         /\ requests' = [requests EXCEPT ![r] = q]
  BY <1>2, Answered DEF Accepted
<1>4. requests'[r] = q /\ \A u \in Requests \ {r} : requests'[u] = requests[u]
  BY <1>2, <1>3
<1>5. q # NoRequest
  BY <1>3 DEF NoRequest
<1>6. /\ audit \in Seq(Event) /\ audit' \in Seq(Event) /\ Len(audit) \in Nat
      /\ Len(audit') = Len(audit) + 1
      /\ DOMAIN audit = 1..Len(audit) /\ DOMAIN audit' = 1..(Len(audit) + 1)
      /\ \A i \in DOMAIN audit : audit'[i] = audit[i]
      /\ audit'[Len(audit) + 1].type = type /\ audit'[Len(audit) + 1].by = r
  BY EventAppended DEF Inv, Typed
<1>7. env \in Envelope /\ env.generation \in Nat /\ env'.generation \in Nat
  BY DEF Inv, Typed, Envelope
<1>8. Typed'
  BY <1>1, <1>2, <1>3, <1>6 DEF Inv, Typed
<1>9. PICK c \in receipts' : /\ receipts' = receipts \cup {c}
                             /\ c.kind = requests[r].kind /\ c.key = requests[r].key
  <2> DEFINE c == [kind |-> requests[r].kind, key |-> requests[r].key, by |-> r]
  <2>1. receipts' = receipts \cup {c}
    BY DEF record
  <2>2. c.kind = requests[r].kind /\ c.key = requests[r].key
    OBVIOUS
  <2> HIDE DEF c
  <2> QED
    BY <2>1, <2>2
<1>10. \A u \in Requests : /\ requests'[u].kind = requests[u].kind
                           /\ requests'[u].key = requests[u].key
  BY <1>3, <1>4 DEF Same
<1>11. \A i \in DOMAIN audit : audit[i].by \in Requests \cup {None}
  <2>1. \A i \in DOMAIN audit : audit[i] \in Event
    BY <1>6
  <2> QED
    BY <2>1 DEF Event
<1>12. Receipted'
  <2>1. SUFFICES ASSUME NEW i \in DOMAIN audit', audit'[i].by # None
                 PROVE  /\ requests'[audit'[i].by] # NoRequest
                        /\ \E d \in receipts' : /\ d.kind = requests'[audit'[i].by].kind
                                                /\ d.key = requests'[audit'[i].by].key
    BY DEF Receipted
  <2>2. CASE i = Len(audit) + 1
    BY <1>3, <1>4, <1>5, <1>6, <1>9, <2>2 DEF Same
  <2>3. CASE i \in DOMAIN audit
    <3>1. PICK b \in Requests : audit[i].by = b /\ audit'[i].by = b
      BY <1>6, <1>11, <2>1, <2>3
    <3>2. requests[b] # NoRequest
          /\ \E d \in receipts : d.kind = requests[b].kind /\ d.key = requests[b].key
      BY <2>1, <2>3, <3>1 DEF Inv, Receipted
    <3>3. requests'[b] # NoRequest
          /\ \E d \in receipts' : d.kind = requests'[b].kind /\ d.key = requests'[b].key
      BY <1>4, <1>5, <1>9, <1>10, <3>2
    <3> QED
      BY <3>1, <3>3
  <2> QED
    BY <1>6, <2>2, <2>3
<1>13. EffectOnce'
  <2>1. \A i \in DOMAIN audit : audit[i].by # r
    BY DEF Inv, Receipted, resolveCommand, Accepted, AuthoringConstants
  <2> QED
    BY <1>6, <2>1 DEF Inv, EffectOnce
<1>14. ASSUME NEW p \in Command, Seen(p) PROVE Seen(p)'
  <2>1. p.view.generation \in Nat
    BY DEF Command, Screen
  <2> QED
    BY <1>6, <1>7, <1>14, <2>1 DEF Seen
<1>15. InFlight(r)'
  <2>1. Seen(q)
    BY <1>2, <1>3 DEF Seen, Same
  <2>2. Seen(q)'
    BY <1>14, <2>1
  <2>3. Placed(q)' /\ Read(q)'
    BY <1>3, <1>6 DEF Placed, Read, Uploading, Reading, Publishing
  <2>4. Stored(r)'
    BY <1>3, <1>4 DEF Stored, Publishing
  <2> QED
    BY <1>4, <2>2, <2>3, <2>4 DEF InFlight, Placed, Seen, Read
<1>16. ASSUME NEW u \in Requests, u # r PROVE InFlight(u)'
  <2>1. requests'[u] = requests[u] /\ InFlight(u)
    BY <1>4, <1>16 DEF Inv
  <2>2. CASE requests[u] = NoRequest
    BY <2>1, <2>2 DEF InFlight
  <2>3. CASE requests[u] # NoRequest
    <3>1. PICK p \in Command : p = requests[u] /\ Placed(p) /\ Seen(p) /\ Read(p) /\ Stored(u)
      BY <2>1, <2>3 DEF InFlight
    <3>2. Stored(u)'
      BY <1>1, <2>1, <3>1 DEF Stored, edit, pdfsOf
    <3>3. Seen(p)'
      BY <1>14, <3>1
    <3>4. p.view.generation \in Nat /\ p.head \in Nat
      BY <3>1 DEF Command, Screen
    <3>5. Read(p)'
      BY <1>6, <1>7, <3>1, <3>4 DEF Read, Seen
    <3> QED
      BY <2>1, <2>3, <3>1, <3>2, <3>3, <3>5 DEF InFlight, Placed, Seen, Read
  <2> QED
    BY <2>2, <2>3
<1> QED
  BY <1>1, <1>8, <1>12, <1>13, <1>15, <1>16

\* A command that publishes, and the state it finds.
LEMMA Publishes ==
  ASSUME AuthoringConstants, Inv, NEW r \in Requests, Accepted(r)
  PROVE  /\ requests[r] \in Command /\ edit(r) \in Edits
         /\ Placed(requests[r]) /\ Seen(requests[r]) /\ Read(requests[r]) /\ Stored(r)
         /\ env \in Envelope /\ fields \in FieldSet /\ recipients \in Nat
         /\ DOMAIN audit = 1..Len(audit) /\ Len(audit) \in Nat
         /\ requests[r].pc \in Publishing /\ requests[r].head = Len(audit)
         /\ env.generation = requests[r].view.generation /\ env.text = requests[r].text
PROOF
<1>1. requests[r].pc # "idle" /\ requests[r].pc \in Publishing /\ requests[r].pc \in Reading
  BY DEF Accepted, Publishing, Reading
<1>2. /\ requests[r] \in Command /\ Placed(requests[r]) /\ Seen(requests[r])
      /\ Read(requests[r]) /\ Stored(r)
  BY <1>1, UnderWay
<1>3. edit(r) \in Edits
  BY <1>2 DEF edit, Edits, Command
<1>4. requests[r].head = Len(audit) /\ env.generation = requests[r].view.generation
  BY DEF Accepted, auditHeadCurrent, generationSeen
<1> QED
  BY <1>1, <1>2, <1>3, <1>4 DEF Read, Inv, Typed

\* Recipients and the archives of a publication that leaves both alone.
LEMMA DeclaredStill ==
  ASSUME Inv, NEW r \in Requests, NEW type \in EventTypes, record(r, type), env' \in Envelope,
         UNCHANGED recipients
  PROVE  Declared'
BY EventAppended DEF Inv, Declared

LEMMA CommitPublished ==
  ASSUME AuthoringConstants, Inv, NEW r \in Requests, CommitAccepted(r)
  PROVE  Inv' /\ env' = [env EXCEPT !.generation = @ + 1, !.text = Append(env.text, edit(r))]
PROOF
<1> DEFINE next == Append(requests[r].text, edit(r))
<1>1. /\ Accepted(r) /\ env.status = "draft" /\ requests[r].kind = "commit"
      /\ env' = [env EXCEPT !.generation = @ + 1, !.text = next]
      /\ record(r, "draft.revision_created") /\ UNCHANGED <<recipients, fields, pinned>>
  BY DEF CommitAccepted, publishDraftRevision
<1>2. /\ requests[r] \in Command /\ edit(r) \in Edits /\ Stored(r)
      /\ env \in Envelope /\ fields \in FieldSet /\ recipients \in Nat
      /\ requests[r].pc \in Publishing /\ env.text = requests[r].text
  BY <1>1, Publishes
<1>3. next \in Seq(Edits)
  BY <1>2 DEF Command
<1>4. /\ env' \in Envelope /\ env'.generation = env.generation + 1 /\ env'.text = next
      /\ env'.status = "draft" /\ env'.sent = env.sent /\ env.generation \in Nat
  <2> DEFINE e == [env EXCEPT !.generation = @ + 1]
  <2>1. /\ e \in Envelope /\ e.generation = env.generation + 1 /\ e.status = env.status
        /\ e.sent = env.sent /\ env.generation \in Nat
    BY <1>2 DEF Envelope
  <2>2. env' = [e EXCEPT !.text = next]
    BY <1>1
  <2> HIDE DEF e, next
  <2> QED
    BY <1>1, <1>3, <2>1, <2>2 DEF Envelope
<1>5. /\ Typed' /\ Receipted' /\ EffectOnce' /\ \A u \in Requests : InFlight(u)'
      /\ UNCHANGED <<archives, uploads, ledger>>
  BY <1>1, <1>2, <1>4, Published DEF EventTypes
<1>6. Declared'
  BY <1>1, <1>4, DeclaredStill DEF EventTypes
<1>7. SentAsReviewed' /\ FieldsCoherent'
  BY <1>1, <1>4 DEF Inv, SentAsReviewed, FieldsCoherent
<1>8. <<"draft", next>> \in archives /\ pdfsOf(next) \subseteq ledger
  BY <1>1, <1>2 DEF Stored
<1>9. PointersBacked'
  <2> HIDE DEF next
  <2> QED
    BY <1>4, <1>5, <1>8 DEF Inv, PointersBacked, pdfsOf
<1> QED
  BY <1>1, <1>2, <1>5, <1>6, <1>7, <1>9 DEF Inv

LEMMA ReadyPublished ==
  ASSUME AuthoringConstants, Inv, NEW r \in Requests, ReadyAccepted(r)
  PROVE  Inv' /\ env.text # <<>>
PROOF
<1>1. /\ Accepted(r) /\ env.status = "draft" /\ requests[r].kind = "ready"
      /\ env' = [env EXCEPT !.status = "ready"]
      /\ record(r, "envelope.ready") /\ recipients' = Len(audit') /\ UNCHANGED <<fields, pinned>>
  BY DEF ReadyAccepted, publishReady
<1>2. /\ Read(requests[r]) /\ env \in Envelope /\ fields \in FieldSet
      /\ requests[r].pc \in Publishing /\ env.text = requests[r].text
  BY <1>1, Publishes
<1>3. /\ env' \in Envelope /\ env'.generation = env.generation /\ env'.text = env.text
      /\ env'.status = "ready" /\ env'.sent = env.sent /\ env.generation \in Nat
  BY <1>1, <1>2 DEF Envelope, Statuses
<1>4. /\ Len(audit) \in Nat /\ Len(audit') = Len(audit) + 1
      /\ DOMAIN audit' = 1..(Len(audit) + 1) /\ audit'[Len(audit) + 1].type = "envelope.ready"
  BY <1>1, <1>3, EventAppended DEF EventTypes
<1>5. /\ Typed' /\ Receipted' /\ EffectOnce' /\ \A u \in Requests : InFlight(u)'
      /\ UNCHANGED <<archives, uploads, ledger>>
  <2>1. recipients' \in Nat
    BY <1>1, <1>4
  <2> QED
    BY <1>1, <1>2, <1>3, <2>1, Published DEF EventTypes
<1>6. Declared'
  BY <1>1, <1>4 DEF Declared
<1>7. SentAsReviewed' /\ FieldsCoherent'
  BY <1>1, <1>3 DEF Inv, SentAsReviewed, FieldsCoherent
<1>8. PointersBacked'
  BY <1>3, <1>5 DEF Inv, PointersBacked, pdfsOf
<1>9. env.text # <<>>
  BY <1>1, <1>2 DEF Read, Publishing, Reading
<1> QED
  BY <1>5, <1>6, <1>7, <1>8, <1>9 DEF Inv

LEMMA FieldsPublished ==
  ASSUME AuthoringConstants, Inv, NEW r \in Requests, FieldsAccepted(r)
  PROVE  Inv'
PROOF
<1> DEFINE placed == [by |-> r, text |-> requests[r].text, graph |-> requests[r].graph]
<1>1. /\ Accepted(r) /\ env.status = "ready" /\ env.text = requests[r].text
      /\ recipients = requests[r].graph
      /\ env' = [env EXCEPT !.fieldGeneration = @ + 1] /\ fields' = placed
      /\ record(r, "envelope.fields_placed") /\ UNCHANGED <<recipients, pinned>>
  BY DEF FieldsAccepted, publishFieldPlacement
<1>2. requests[r] \in Command /\ env \in Envelope /\ recipients \in Nat
  BY <1>1, Publishes
<1>3. /\ env' \in Envelope /\ env'.generation = env.generation /\ env'.text = env.text
      /\ env'.status = "ready" /\ env'.sent = env.sent /\ env.generation \in Nat
  BY <1>1, <1>2 DEF Envelope
<1>4. placed \in FieldSet /\ placed.text = env.text /\ placed.graph = recipients
  BY <1>1, <1>2 DEF FieldSet, Command
<1> HIDE DEF placed
<1>5. /\ Typed' /\ Receipted' /\ EffectOnce' /\ \A u \in Requests : InFlight(u)'
      /\ UNCHANGED <<archives, uploads, ledger>>
  BY <1>1, <1>2, <1>3, <1>4, Published DEF EventTypes
<1>6. Declared'
  BY <1>1, <1>3, DeclaredStill DEF EventTypes
<1>7. SentAsReviewed' /\ FieldsCoherent'
  BY <1>1, <1>3, <1>4 DEF SentAsReviewed, FieldsCoherent
<1>8. PointersBacked'
  BY <1>3, <1>5 DEF Inv, PointersBacked, pdfsOf
<1> QED
  BY <1>5, <1>6, <1>7, <1>8 DEF Inv

LEMMA ReopenPublished ==
  ASSUME AuthoringConstants, Inv, NEW r \in Requests, ReopenAccepted(r)
  PROVE  Inv'
PROOF
<1>1. /\ Accepted(r) /\ env.status = "ready"
      /\ env' = [env EXCEPT !.status = "draft", !.fieldGeneration = @ + 1]
      /\ fields' = NoFields /\ record(r, "envelope.reopened") /\ UNCHANGED <<recipients, pinned>>
  BY DEF ReopenAccepted, publishReopen
<1>2. env \in Envelope /\ recipients \in Nat
  BY <1>1, Publishes
<1>3. /\ env' \in Envelope /\ env'.generation = env.generation /\ env'.text = env.text
      /\ env'.status = "draft" /\ env'.sent = env.sent /\ env.generation \in Nat
  <2> DEFINE e == [env EXCEPT !.status = "draft"]
  <2>1. /\ e \in Envelope /\ e.generation = env.generation /\ e.text = env.text
        /\ e.status = "draft" /\ e.sent = env.sent /\ env.generation \in Nat
    BY <1>2 DEF Envelope, Statuses
  <2>2. env' = [e EXCEPT !.fieldGeneration = @ + 1]
    BY <1>1
  <2> HIDE DEF e
  <2> QED
    BY <2>1, <2>2 DEF Envelope
<1>4. NoFields \in FieldSet
  BY DEF NoFields, FieldSet
<1>5. /\ Typed' /\ Receipted' /\ EffectOnce' /\ \A u \in Requests : InFlight(u)'
      /\ UNCHANGED <<archives, uploads, ledger>>
  BY <1>1, <1>2, <1>3, <1>4, Published DEF EventTypes
<1>6. Declared'
  BY <1>1, <1>3, DeclaredStill DEF EventTypes
<1>7. SentAsReviewed' /\ FieldsCoherent'
  BY <1>1, <1>3 DEF SentAsReviewed, FieldsCoherent
<1>8. PointersBacked'
  BY <1>3, <1>5 DEF Inv, PointersBacked, pdfsOf
<1> QED
  BY <1>5, <1>6, <1>7, <1>8 DEF Inv

\* What the send has measured is what stands, and the ready event its sender
\* saw is the one in force.
LEMMA SendPublished ==
  ASSUME AuthoringConstants, Inv, NEW r \in Requests, SendAccepted(r)
  PROVE  Inv' /\ env' = [env EXCEPT !.status = "sent", !.sent = env.text]
PROOF
<1> DEFINE i == requests[r].view.ready
           p == [fields |-> requests[r].fields, graph |-> requests[r].graph, ready |-> i]
<1>1. /\ Accepted(r) /\ env.status = "ready" /\ env.text = requests[r].text
      /\ readyAnchor(r, env.text) /\ recipients = requests[r].graph
      /\ requests[r].kind = "send"
      /\ env' = [env EXCEPT !.status = "sent", !.sent = requests[r].text] /\ pinned' = p
      /\ record(r, "envelope.sent") /\ UNCHANGED <<recipients, fields>>
  BY DEF SendAccepted, publishSend
<1>2. /\ requests[r] \in Command /\ Seen(requests[r]) /\ Read(requests[r]) /\ Stored(r)
      /\ env \in Envelope /\ fields \in FieldSet /\ recipients \in Nat
      /\ requests[r].pc \in Publishing /\ requests[r].head = Len(audit)
  BY <1>1, Publishes
<1>3. /\ env' \in Envelope /\ env'.generation = env.generation /\ env'.text = env.text
      /\ env'.status = "sent" /\ env'.sent = env.text /\ env.generation \in Nat
  BY <1>1, <1>2 DEF Envelope, Statuses
<1>4. requests[r].fields = fields
  BY <1>1, <1>2 DEF Read
<1>5. /\ i \in DOMAIN audit /\ audit[i].type = "envelope.ready"
      /\ \A j \in DOMAIN audit :
           j > i => audit[j].type \notin {"envelope.ready", "envelope.reopened"}
  BY <1>1, <1>2 DEF Seen, readyAnchor
<1>6. latestReady = i
  <2> DEFINE ready == {j \in DOMAIN audit : audit[j].type = "envelope.ready"}
  <2>1. latestReady \in ready /\ i <= latestReady
    BY <1>5, LatestReady DEF Inv, Typed
  <2>2. i \in Nat /\ latestReady \in Nat
    BY <1>5, <2>1 DEF Inv, Typed
  <2>3. ~(latestReady > i)
    BY <1>5, <2>1
  <2> QED
    BY <2>1, <2>2, <2>3
<1>7. latestReady' = i
  BY <1>1, <1>3, <1>6, LatestUnmoved DEF EventTypes
<1>8. /\ Len(audit) \in Nat /\ Len(audit') = Len(audit) + 1
      /\ DOMAIN audit = 1..Len(audit) /\ DOMAIN audit' = 1..(Len(audit) + 1)
      /\ \A j \in DOMAIN audit : audit'[j] = audit[j]
      /\ audit'[Len(audit) + 1].type = "envelope.sent"
  BY <1>1, <1>3, EventAppended DEF EventTypes
<1>9. /\ Typed' /\ Receipted' /\ EffectOnce' /\ \A u \in Requests : InFlight(u)'
      /\ UNCHANGED <<archives, uploads, ledger>>
  BY <1>1, <1>2, <1>3, Published DEF EventTypes
<1>10. Declared'
  BY <1>1, <1>3, DeclaredStill DEF EventTypes
<1>11. SentAsReviewed'
  <2>1. pinned' = [fields |-> fields', graph |-> recipients', ready |-> latestReady']
    BY <1>1, <1>4, <1>7
  <2>2. ~\E j \in DOMAIN audit' : j > i /\ audit'[j].type = "envelope.reopened"
    BY <1>5, <1>8
  <2> HIDE DEF i
  <2> QED
    BY <1>7, <2>1, <2>2 DEF SentAsReviewed
<1>12. FieldsCoherent'
  BY <1>1, <1>3 DEF Inv, FieldsCoherent
<1>13. <<"sent", env.text>> \in archives
  BY <1>1, <1>2 DEF Stored
<1>14. PointersBacked'
  BY <1>3, <1>9, <1>13 DEF Inv, PointersBacked, pdfsOf
<1> QED
  BY <1>1, <1>9, <1>10, <1>11, <1>12, <1>14 DEF Inv

LEMMA VoidPublished ==
  ASSUME AuthoringConstants, Inv, NEW r \in Requests, VoidAccepted(r)
  PROVE  Inv'
PROOF
<1>1. /\ Accepted(r) /\ env' = [env EXCEPT !.status = "voided"]
      /\ record(r, "envelope.voided") /\ UNCHANGED <<recipients, fields, pinned>>
  BY DEF VoidAccepted, publishVoid
<1>2. env \in Envelope /\ fields \in FieldSet /\ recipients \in Nat
  BY <1>1, Publishes
<1>3. /\ env' \in Envelope /\ env'.generation = env.generation /\ env'.text = env.text
      /\ env'.status = "voided" /\ env'.sent = env.sent /\ env.generation \in Nat
  BY <1>1, <1>2 DEF Envelope, Statuses
<1>4. /\ Typed' /\ Receipted' /\ EffectOnce' /\ \A u \in Requests : InFlight(u)'
      /\ UNCHANGED <<archives, uploads, ledger>>
  BY <1>1, <1>2, <1>3, Published DEF EventTypes
<1>5. Declared'
  BY <1>1, <1>3, DeclaredStill DEF EventTypes
<1>6. SentAsReviewed' /\ FieldsCoherent'
  BY <1>1, <1>3 DEF Inv, SentAsReviewed, FieldsCoherent
<1>7. PointersBacked'
  BY <1>3, <1>4 DEF Inv, PointersBacked, pdfsOf
<1> QED
  BY <1>4, <1>5, <1>6, <1>7 DEF Inv

LEMMA PublicationInv ==
  ASSUME AuthoringConstants, Inv, NEW r \in Requests, Publication(r)
  PROVE  Inv'
BY CommitPublished, ReadyPublished, FieldsPublished, ReopenPublished, SendPublished,
   VoidPublished DEF Publication

\* PostgreSQL compares under the row lock of the envelope.
LEMMA PublishCases ==
  ASSUME NEW r \in Requests, publish(r)
  PROVE  \/ Publication(r)
         \/ /\ requests[r].pc # "idle" /\ answer(r) /\ UNCHANGED <<rows, stored>>
         \/ /\ requests[r].pc # "idle" /\ UNCHANGED <<rows, stored>>
            /\ requests' = [requests EXCEPT ![r].pc = "prepare", ![r].attempt = @ + 1]
PROOF
<1>1. requests[r].pc = "publish" /\ UNCHANGED <<stored, retries>>
  BY DEF publish, at
<1>2. CASE ~publishable(r)
  BY <1>1, <1>2 DEF publish
<1>3. CASE publishable(r)
  <2>1. Accepted(r) /\ envelopeAccepts(r) /\ textCurrent(r)
    BY <1>1, <1>3 DEF publish, publishable, Accepted, Publishing, envelopeAccepts
  <2>2. CASE publishDraftRevision(r)
    BY <2>1, <2>2 DEF envelopeAccepts, publishDraftRevision, CommitAccepted, Publication
  <2>3. CASE publishReady(r)
    BY <2>1, <2>3 DEF envelopeAccepts, textCurrent, publishReady, ReadyAccepted, Publication
  <2>4. CASE publishFieldPlacement(r)
    BY <1>3, <2>1, <2>4
       DEF publishable, envelopeAccepts, textCurrent, publishFieldPlacement, FieldsAccepted,
           Publication
  <2>5. CASE publishReopen(r)
    BY <2>1, <2>5 DEF envelopeAccepts, publishReopen, ReopenAccepted, Publication
  <2>6. CASE publishSend(r)
    BY <1>3, <2>1, <2>6
       DEF publishable, envelopeAccepts, textCurrent, publishSend, SendAccepted, Publication
  <2>7. CASE publishVoid(r)
    BY <2>1, <2>7 DEF envelopeAccepts, publishVoid, VoidAccepted, Publication
  <2> QED
    BY <1>3, <2>2, <2>3, <2>4, <2>5, <2>6, <2>7 DEF publish
<1> QED
  BY <1>2, <1>3

LEMMA PublishInv ==
  ASSUME AuthoringConstants, Inv, NEW r \in Requests, publish(r)
  PROVE  Inv'
BY PublishCases, PublicationInv, Answers, AgainInv

\* D1 compares in the triggers of one batch.
LEMMA InsertCases ==
  ASSUME NEW r \in Requests, insertCommand(r)
  PROVE  \/ Publication(r)
         \/ /\ requests[r].pc # "idle" /\ answer(r) /\ UNCHANGED <<rows, stored>>
         \/ /\ requests[r].pc # "idle" /\ go(r, "receiptAgain") /\ UNCHANGED <<rows, stored>>
PROOF
<1>1. requests[r].pc = "insert" /\ UNCHANGED <<stored, retries>>
  BY DEF insertCommand, insertDraftRevision, insertReady, insertFieldPlacement, insertReopen,
         insertSend, insertVoid, inserting, inserted, at
<1>2. ASSUME free(r), generationSeen(r), answer(r) PROVE Accepted(r)
  BY <1>1, <1>2 DEF Accepted, free, keyFree, headGuard, auditHeadCurrent, Publishing
<1>3. CASE insertDraftRevision(r)
  BY <1>1, <1>2, <1>3
     DEF insertDraftRevision, inserted, draftRevisionGuard, CommitAccepted, Publication
<1>4. CASE insertReady(r)
  BY <1>1, <1>2, <1>4
     DEF insertReady, inserting, inserted, readyGuard, textCurrent, ReadyAccepted, Publication
<1>5. CASE insertFieldPlacement(r)
  BY <1>1, <1>2, <1>5
     DEF insertFieldPlacement, inserting, inserted, fieldPlacementGuard, textCurrent,
         FieldsAccepted, Publication
<1>6. CASE insertReopen(r)
  BY <1>1, <1>2, <1>6 DEF insertReopen, inserted, reopenGuard, ReopenAccepted, Publication
<1>7. CASE insertSend(r)
  BY <1>1, <1>2, <1>7
     DEF insertSend, inserting, inserted, sendGuard, textCurrent, SendAccepted, Publication
<1>8. CASE insertVoid(r)
  BY <1>1, <1>2, <1>8 DEF insertVoid, voidGuard, VoidAccepted, Publication
<1> QED
  BY <1>3, <1>4, <1>5, <1>6, <1>7, <1>8 DEF insertCommand

LEMMA InsertCommandInv ==
  ASSUME AuthoringConstants, Inv, NEW r \in Requests, insertCommand(r)
  PROVE  Inv'
PROOF
<1>1. "receiptAgain" \in Places /\ "receiptAgain" \notin Reading \cup Uploading
  BY DEF Places, Reading, Uploading
<1> QED
  BY <1>1, InsertCases, PublicationInv, Answers, GoesTo

-----------------------------------------------------------------------------
(***************************************************************************)
(* The invariant of both stores.                                           *)
(***************************************************************************)

LEMMA InitialChains ==
  /\ Created \in Seq(Event) /\ Committed \in Seq(Event) /\ Ready \in Seq(Event)
  /\ Len(Created) = 1 /\ Len(Committed) = 2 /\ Len(Ready) = 3
  /\ Created[1].generation = 0 /\ Created[1].text = <<>>
  /\ Committed[2].generation = 1 /\ Committed[2].text = First
  /\ Ready[3].generation = 1 /\ Ready[3].text = First /\ Ready[3].type = "envelope.ready"
  /\ First \in Seq(Edits) /\ pdfsOf(First) = {}
  /\ \A i \in 1..3 : Ready[i].by = None
  /\ \A i \in 1..2 : Committed[i].by = None
  /\ Created[1].by = None
PROOF
<1> DEFINE none == [by |-> None, pdf |-> None]
           e1 == [type |-> "envelope.created", by |-> None, generation |-> 0, text |-> <<>>]
           e2 == [type |-> "draft.revision_created", by |-> None, generation |-> 1, text |-> First]
           e3 == [type |-> "envelope.ready", by |-> None, generation |-> 1, text |-> First]
<1>1. none \in Edits /\ none.pdf = None /\ First = <<none>>
  BY DEF Edits, First
<1>2. First \in Seq(Edits) /\ DOMAIN First = {1} /\ First[1] = none
  <2> HIDE DEF none
  <2> QED
    BY <1>1
<1>3. pdfsOf(First) = {}
  BY <1>1, <1>2 DEF pdfsOf
<1>4. <<>> \in Seq(Edits)
  OBVIOUS
<1>5. /\ e1 \in Event /\ e1.by = None /\ e1.generation = 0 /\ e1.text = <<>>
      /\ e1.type = "envelope.created"
  BY <1>4 DEF Event, EventTypes
<1>6. /\ e2 \in Event /\ e2.by = None /\ e2.generation = 1 /\ e2.text = First
      /\ e2.type = "draft.revision_created"
  BY <1>2 DEF Event, EventTypes
<1>7. /\ e3 \in Event /\ e3.by = None /\ e3.generation = 1 /\ e3.text = First
      /\ e3.type = "envelope.ready"
  BY <1>2 DEF Event, EventTypes
<1>8. Created = <<e1>> /\ Committed = Append(Created, e2) /\ Ready = Append(Committed, e3)
  BY DEF Created, Committed, Ready
<1> HIDE DEF e1, e2, e3
<1>9. Created \in Seq(Event) /\ Len(Created) = 1 /\ Created[1] = e1
  BY <1>5, <1>8
<1>10. Committed \in Seq(Event) /\ Len(Committed) = 2 /\ Committed[1] = e1 /\ Committed[2] = e2
  BY <1>6, <1>8, <1>9
<1>11. /\ Ready \in Seq(Event) /\ Len(Ready) = 3
       /\ Ready[1] = e1 /\ Ready[2] = e2 /\ Ready[3] = e3
  BY <1>7, <1>8, <1>10
<1> QED
  BY <1>2, <1>3, <1>5, <1>6, <1>7, <1>9, <1>10, <1>11

LEMMA InitInv ==
  ASSUME AuthoringConstants, Init
  PROVE  Inv
PROOF
<1> DEFINE n == Len(audit)
<1>1. /\ audit \in {Created, Committed, Ready}
      /\ env = [status |-> IF audit = Ready THEN "ready" ELSE "draft",
                generation |-> audit[n].generation, text |-> audit[n].text,
                fieldGeneration |-> 0, sent |-> <<>>]
      /\ recipients = IF audit = Ready THEN 3 ELSE 0
      /\ fields = NoFields /\ uploads = {} /\ ledger = {}
      /\ archives = IF audit = Created THEN {} ELSE {<<"draft", First>>}
      /\ requests = [r \in Requests |-> NoRequest]
  BY DEF Init
<1>2. /\ audit \in Seq(Event) /\ n \in 1..3 /\ audit[n].generation \in Nat
      /\ audit[n].text \in Seq(Edits) /\ pdfsOf(audit[n].text) = {}
      /\ \A i \in DOMAIN audit : audit[i].by = None
      /\ audit[n].text # <<>> => audit # Created /\ audit[n].text = First
  <2>1. pdfsOf(<<>>) = {} /\ <<>> \in Seq(Edits)
    BY DEF pdfsOf
  <2>2. CASE audit = Created
    BY <2>1, <2>2, InitialChains
  <2>3. CASE audit = Committed
    <3>1. audit # Created
      <4>1. Len(audit) = 2 /\ Len(Created) = 1
        BY <2>3, InitialChains
      <4> QED
        BY <4>1
    <3> QED
      BY <2>3, <3>1, InitialChains
  <2>4. CASE audit = Ready
    <3>1. audit # Created
      <4>1. Len(audit) = 3 /\ Len(Created) = 1
        BY <2>4, InitialChains
      <4> QED
        BY <4>1
    <3> QED
      BY <2>4, <3>1, InitialChains
  <2> QED
    BY <1>1, <2>2, <2>3, <2>4
<1>3. /\ env.status \in {"draft", "ready"} /\ env.text = audit[n].text /\ env.sent = <<>>
      /\ env \in Envelope
  BY <1>1, <1>2 DEF Envelope, Statuses
<1>4. fields \in FieldSet
  BY <1>1 DEF NoFields, FieldSet
<1>5. Typed
  <2>1. recipients \in Nat /\ requests \in [Requests -> Command \cup {NoRequest}]
    BY <1>1
  <2>2. uploads \subseteq Pdfs /\ ledger \subseteq Pdfs /\ IsFiniteSet(ledger)
    BY <1>1, FS_EmptySet
  <2> QED
    BY <1>2, <1>3, <1>4, <2>1, <2>2 DEF Typed
<1>6. Declared
  BY <1>1, InitialChains DEF Declared
<1>7. Receipted /\ EffectOnce
  BY <1>2 DEF Receipted, EffectOnce
<1>8. \A r \in Requests : InFlight(r)
  BY <1>1 DEF InFlight
<1>9. SentAsReviewed /\ FieldsCoherent
  BY <1>1, <1>3 DEF SentAsReviewed, FieldsCoherent
<1>10. PointersBacked
  <2>1. Cardinality(ledger) <= MaxUploads
    BY <1>1, FS_EmptySet DEF AuthoringConstants
  <2> QED
    BY <1>1, <1>2, <1>3, <2>1 DEF PointersBacked
<1> QED
  BY <1>5, <1>6, <1>7, <1>8, <1>9, <1>10 DEF Inv

\* Nothing is at stake in the other steps, and the invariant holds after all.
LEMMA StepInv ==
  ASSUME AuthoringConstants, Inv, [Next]_vars
  PROVE  Inv' /\ (UNCHANGED env \/ \E r \in Requests : Publication(r))
PROOF
<1>1. CASE UNCHANGED vars
  <2>1. UNCHANGED <<env, recipients, fields, audit, receipts, pinned, archives, uploads, ledger,
                    requests>>
    BY <1>1 DEF vars, rows, stored
  <2>2. Typed' /\ Declared' /\ Receipted' /\ EffectOnce' /\ SentAsReviewed' /\ FieldsCoherent'
        /\ PointersBacked'
    <3>1. Typed' /\ Declared'
      BY <2>1 DEF Inv, Typed, Declared
    <3>2. Receipted' /\ EffectOnce'
      BY <2>1 DEF Inv, Receipted, EffectOnce
    <3>3. SentAsReviewed' /\ FieldsCoherent'
      BY <2>1 DEF Inv, SentAsReviewed, FieldsCoherent, latestReady
    <3>4. PointersBacked'
      BY <2>1 DEF Inv, PointersBacked, pdfsOf
    <3> QED
      BY <3>1, <3>2, <3>3, <3>4
  <2>3. \A r \in Requests : InFlight(r)'
    BY <2>1, Undisturbed DEF rows
  <2> QED
    BY <2>1, <2>2, <2>3 DEF Inv
<1>2. ASSUME NEW r \in Requests, start(r) \/ retry(r) \/ fail(r) \/ uploadPdf(r) \/ insertUploaded(r)
      PROVE  Inv' /\ UNCHANGED env
  BY <1>2, StartInv, RetryInv, FailInv, UploadPdfInv, InsertUploadedInv
     DEF start, retry, fail, uploadPdf, insertUploaded, rows
<1>3. ASSUME NEW r \in Requests,
             \/ prepareEnvelope(r) \/ readAuditHead(r) \/ readRecipients(r) \/ readWorkspace(r)
             \/ renderSent(r) \/ persistImmutableArchive(r)
      PROVE  Inv' /\ UNCHANGED env
  BY <1>3, PrepareEnvelopeInv, ReadAuditHeadInv, ReadRecipientsInv, ReadWorkspaceInv,
     RenderSentInv, PersistArchiveInv
     DEF prepareEnvelope, readAuditHead, readRecipients, readWorkspace, renderSent,
         persistImmutableArchive, rows
<1>4. ASSUME NEW r \in Requests, publish(r)
      PROVE  Inv' /\ (UNCHANGED env \/ Publication(r))
  BY <1>4, PublishInv, PublishCases DEF rows
<1> QED
  BY <1>1, <1>2, <1>3, <1>4 DEF Next

LEMMA D1StepInv ==
  ASSUME AuthoringConstants, Inv, [D1Next]_vars
  PROVE  Inv' /\ (UNCHANGED env \/ \E r \in Requests : Publication(r))
PROOF
<1>1. CASE UNCHANGED vars
  BY <1>1, StepInv
<1>2. ASSUME NEW r \in Requests,
             start(r) \/ retry(r) \/ fail(r) \/ uploadPdf(r) \/ d1insertUploaded(r) \/ readExisting(r)
      PROVE  Inv' /\ UNCHANGED env
  BY <1>2, StartInv, RetryInv, FailInv, UploadPdfInv, D1InsertUploadedInv, ReadExistingInv
     DEF start, retry, fail, uploadPdf, d1insertUploaded, readExisting, commandStep, rows
<1>3. ASSUME NEW r \in Requests,
             \/ resolveFirst(r) \/ findEnvelope(r) \/ d1readAuditHead(r) \/ readAnchor(r)
             \/ resolveAgain(r) \/ classifyVoid(r)
      PROVE  Inv' /\ UNCHANGED env
  BY <1>3, ResolveInv, FindEnvelopeInv, D1ReadAuditHeadInv, ReadAnchorInv, ClassifyVoidInv
     DEF resolveFirst, findEnvelope, d1readAuditHead, readAnchor, resolveAgain, classifyVoid,
         commandStep, rows
<1>4. ASSUME NEW r \in Requests,
             \/ readRecipients(r) \/ readWorkspace(r) \/ renderSent(r)
             \/ persistImmutableArchive(r)
      PROVE  Inv' /\ UNCHANGED env
  BY <1>4, ReadRecipientsInv, ReadWorkspaceInv, RenderSentInv, PersistArchiveInv
     DEF readRecipients, readWorkspace, renderSent, persistImmutableArchive, rows
<1>5. ASSUME NEW r \in Requests, insertCommand(r)
      PROVE  Inv' /\ (UNCHANGED env \/ Publication(r))
  BY <1>5, InsertCommandInv, InsertCases DEF rows
<1> QED
  BY <1>1, <1>2, <1>3, <1>4, <1>5 DEF D1Next

LEMMA AuthoringInvariant ==
  ASSUME AuthoringConstants
  PROVE  (Spec => []Inv) /\ (D1Spec => []Inv)
PROOF
<1>1. Init => Inv
  BY InitInv
<1>2. Inv /\ [Next]_vars => Inv'
  BY StepInv
<1>3. Inv /\ [D1Next]_vars => Inv'
  BY D1StepInv
<1> QED
  BY <1>1, <1>2, <1>3, PTL DEF Spec, D1Spec

\* A send is what its sender reviewed, for any number of senders and however
\* reopen, ready and field placement come between its reads and its
\* publication (publishSend, insertSend), in both stores.
THEOREM SentReviewed ==
  ASSUME AuthoringConstants
  PROVE  (Spec => []SentAsReviewed) /\ (D1Spec => []SentAsReviewed)
PROOF
<1>1. Inv => SentAsReviewed
  BY DEF Inv
<1> QED
  BY <1>1, AuthoringInvariant, PTL

\* Placements never dangle: no edit, ready or reopen leaves placements made
\* for another text or for other recipients (publishFieldPlacement,
\* insertFieldPlacement), in both stores.
THEOREM PlacementsCoherent ==
  ASSUME AuthoringConstants
  PROVE  (Spec => []FieldsCoherent) /\ (D1Spec => []FieldsCoherent)
PROOF
<1>1. Inv => FieldsCoherent
  BY DEF Inv
<1> QED
  BY <1>1, AuthoringInvariant, PTL

\* However often a command is sent again, and whatever shares its key, it
\* takes effect at most once (the receipts of publish and of the command
\* tables), in both stores.
THEOREM EffectsOnce ==
  ASSUME AuthoringConstants
  PROVE  (Spec => []EffectOnce) /\ (D1Spec => []EffectOnce)
PROOF
<1>1. Inv => EffectOnce
  BY DEF Inv
<1> QED
  BY <1>1, AuthoringInvariant, PTL

\* No row points to an object that is not there and the ledger of uploads
\* stays within its cap, whichever step of a command fails (the order of the
\* archive, ledger and sent document writes), in both stores.
THEOREM ObjectsFirst ==
  ASSUME AuthoringConstants
  PROVE  (Spec => []PointersBacked) /\ (D1Spec => []PointersBacked)
PROOF
<1>1. Inv => PointersBacked
  BY DEF Inv
<1> QED
  BY <1>1, AuthoringInvariant, PTL

-----------------------------------------------------------------------------
(***************************************************************************)
(* Both stores implement AgreementText.                                    *)
(***************************************************************************)


\* A publication is an edit, an offer, its withdrawal, the issue or the end.
LEMMA PublicationText ==
  ASSUME AuthoringConstants, Inv, NEW r \in Requests, Publication(r)
  PROVE  [Text!AgreementNext]_(Text!agreement)
PROOF
<1>1. env \in Envelope
  BY DEF Inv, Typed
<1>2. CASE CommitAccepted(r)
  <2> DEFINE e == edit(r)
  <2>1. env.status = "draft" /\ edit(r) \in Edits
    BY <1>2, Publishes DEF CommitAccepted
  <2>2. env' = [env EXCEPT !.generation = @ + 1, !.text = Append(env.text, e)]
    BY <1>2, CommitPublished
  <2> HIDE DEF e
  <2>3. /\ env'.status = "draft" /\ env'.sent = env.sent /\ env'.text = Append(env.text, e)
        /\ env.text \in Seq(Edits) /\ e \in Edits
    BY <1>1, <2>1, <2>2 DEF Envelope, e
  <2>4. env'.text[Len(env.text) + 1] = e /\ Len(env.text) + 1 \in DOMAIN env'.text
    BY <2>3
  <2>5. Text!Edit
    BY <2>1, <2>3, <2>4 DEF Text!Edit
  <2> QED
    BY <2>5 DEF Text!AgreementNext
<1>3. CASE ReadyAccepted(r)
  <2>1. /\ env.status = "draft" /\ env.text # <<>> /\ env' = [env EXCEPT !.status = "ready"]
    BY <1>3, ReadyPublished DEF ReadyAccepted, publishReady
  <2>2. env'.status = "ready" /\ env'.text = env.text /\ env'.sent = env.sent
    BY <1>1, <2>1 DEF Envelope
  <2>3. Text!Offer
    BY <2>1, <2>2 DEF Text!Offer
  <2> QED
    BY <2>3 DEF Text!AgreementNext
<1>4. CASE FieldsAccepted(r)
  <2>1. env' = [env EXCEPT !.fieldGeneration = @ + 1]
    BY <1>4 DEF FieldsAccepted, publishFieldPlacement
  <2>2. env'.status = env.status /\ env'.text = env.text /\ env'.sent = env.sent
    BY <1>1, <2>1 DEF Envelope
  <2> QED
    BY <2>2 DEF Text!agreement
<1>5. CASE ReopenAccepted(r)
  <2> DEFINE e == [env EXCEPT !.status = "draft"]
  <2>1. env.status = "ready" /\ env' = [e EXCEPT !.fieldGeneration = @ + 1]
    BY <1>5 DEF ReopenAccepted, publishReopen
  <2>2. e \in Envelope /\ e.status = "draft" /\ e.text = env.text /\ e.sent = env.sent
    BY <1>1 DEF Envelope, Statuses
  <2> HIDE DEF e
  <2>3. env'.status = "draft" /\ env'.text = env.text /\ env'.sent = env.sent
    BY <2>1, <2>2 DEF Envelope
  <2>4. Text!Withdraw
    BY <2>1, <2>3 DEF Text!Withdraw
  <2> QED
    BY <2>4 DEF Text!AgreementNext
<1>6. CASE SendAccepted(r)
  <2> DEFINE e == [env EXCEPT !.status = "sent"]
  <2>1. env.status = "ready" /\ env' = [e EXCEPT !.sent = env.text]
    BY <1>6, SendPublished DEF SendAccepted
  <2>2. e \in Envelope /\ e.status = "sent" /\ e.text = env.text
    BY <1>1 DEF Envelope, Statuses
  <2> HIDE DEF e
  <2>3. env'.status = "sent" /\ env'.text = env.text /\ env'.sent = env.text
    BY <2>1, <2>2 DEF Envelope
  <2>4. Text!Issue
    BY <2>1, <2>3 DEF Text!Issue
  <2> QED
    BY <2>4 DEF Text!AgreementNext
<1>7. CASE VoidAccepted(r)
  <2>1. env.status \in {"draft", "ready"} /\ env' = [env EXCEPT !.status = "voided"]
    BY <1>7 DEF VoidAccepted, publishVoid
  <2>2. env'.status = "voided" /\ env'.text = env.text /\ env'.sent = env.sent
    BY <1>1, <2>1 DEF Envelope
  <2>3. Text!Cancel
    BY <2>1, <2>2 DEF Text!Cancel
  <2> QED
    BY <2>3 DEF Text!AgreementNext
<1> QED
  BY <1>2, <1>3, <1>4, <1>5, <1>6, <1>7 DEF Publication

LEMMA InitText == Init => Text!Blank
PROOF
<1> SUFFICES ASSUME Init PROVE Text!Blank
  OBVIOUS
<1>1. env.status \in {"draft", "ready"} /\ env.sent = <<>>
  BY DEF Init
<1> QED
  BY <1>1 DEF Text!Blank

\* Concurrent senders lose no edit, offer nothing blank and issue exactly
\* what was offered: a publication is made from the text it replaces, although
\* a draft commit compares its generation only (publishDraftRevision,
\* insertDraftRevision), in both stores.
THEOREM TextImplemented ==
  ASSUME AuthoringConstants
  PROVE  (Spec => ImplementsText) /\ (D1Spec => ImplementsText)
PROOF
<1>1. ASSUME Inv, UNCHANGED env \/ \E r \in Requests : Publication(r)
      PROVE  [Text!AgreementNext]_(Text!agreement)
  BY <1>1, PublicationText DEF Text!agreement
<1>2. Inv /\ [Next]_vars => [Text!AgreementNext]_(Text!agreement)
  BY <1>1, StepInv
<1>3. Inv /\ [D1Next]_vars => [Text!AgreementNext]_(Text!agreement)
  BY <1>1, D1StepInv
<1> QED
  BY <1>2, <1>3, InitText, AuthoringInvariant, PTL
  DEF Spec, D1Spec, ImplementsText, Text!AgreementSpec
=============================================================================
