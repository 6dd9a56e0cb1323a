-------------------------- MODULE EnvelopeAuthoring --------------------------
(***************************************************************************)
(* Authoring of one envelope, from its creation to the send: draft commits *)
(* and PDF uploads, ready, field placement, reopen, send and void.         *)
(*                                                                         *)
(* Every command is optimistic.  Its sender echoes what the screen showed; *)
(* the service reads the envelope, then the audit head, in separate reads, *)
(* writes content-addressed objects, and publishes in one transaction that *)
(* compares what was read with what is there.  A commit is the edit of its *)
(* request, so a revision is the sequence of the requests that made it.    *)
(* The recipient graph is named by the ready event that declared it, and a *)
(* field set by the request that placed it.                                *)
(***************************************************************************)
EXTENDS Naturals, Sequences, FiniteSets

CONSTANTS
  Requests,     \* commands of the senders
  Keys,         \* idempotency keys
  Pdfs,         \* digests of uploaded PDFs
  MaxUploads,   \* MAX_UPLOADED_DOCUMENTS_PER_ENVELOPE
  MaxRetries,   \* bound: commands sent again by their senders
  MaxAttempts,  \* MAX_AUDIT_ATTEMPTS of void
  None

AuthoringConstants ==
  /\ {MaxUploads, MaxRetries} \subseteq Nat
  /\ MaxAttempts \in Nat \ {0}
  /\ None \notin Requests \cup Pdfs

VARIABLES
  env,        \* the envelope row
  recipients, \* the ready event that declared the recipient rows
  fields,     \* envelope_field: who placed them, for which text and recipients
  audit,      \* the audit chain
  receipts,   \* the command tables: kind, key and request
  archives,   \* draft archives and sent documents in the object store
  uploads,    \* uploaded PDFs in the object store
  ledger,     \* envelope_uploaded_document
  pinned,     \* envelope_send_command: what the send was made from
  requests,   \* commands in flight
  retries

rows == <<env, recipients, fields, audit, receipts, pinned>>
stored == <<archives, uploads, ledger>>
vars == <<rows, stored, requests, retries>>

Kinds == {"commit", "ready", "fields", "reopen", "send", "void"}

NoFields == [by |-> None, text |-> <<>>, graph |-> 0]

\* A revision names the PDFs of the edits that made it.
edit(r) == [by |-> r, pdf |-> requests[r].pdf]
pdfsOf(text) == {text[i].pdf : i \in DOMAIN text} \ {None}

\* The latest envelope.ready event, or 0.
latestReady ==
  LET ready == {i \in DOMAIN audit : audit[i].type = "envelope.ready"}
  IN  IF ready = {} THEN 0 ELSE CHOOSE i \in ready : \A j \in ready : j <= i

\* What the screen of a sender shows.
view == [status |-> env.status, generation |-> env.generation,
         fieldGeneration |-> env.fieldGeneration, ready |-> latestReady, graph |-> recipients]

NoRequest == [kind |-> "none", key |-> None, pdf |-> None, view |-> None, pc |-> "idle",
              text |-> <<>>, head |-> 0, graph |-> 0, fields |-> NoFields, attempt |-> 0]

at(r, pc) == requests[r].pc = pc
go(r, pc) == requests' = [requests EXCEPT ![r].pc = pc]
\* What was read is forgotten with the answer.
answer(r) ==
  requests' = [requests EXCEPT ![r] = [@ EXCEPT !.pc = "answered", !.text = <<>>, !.head = 0,
                 !.graph = 0, !.fields = NoFields, !.attempt = 0]]

-----------------------------------------------------------------------------
(***************************************************************************)
(* A command arrives.                                                      *)
(***************************************************************************)

start(r) ==
  /\ at(r, "idle")
  /\ \E kind \in Kinds, key \in Keys, pdf \in Pdfs \cup {None} :
       /\ pdf # None => kind = "commit"
       /\ kind \in {"fields", "reopen", "send"} => recipients # 0
       /\ requests' = [requests EXCEPT ![r] =
            [NoRequest EXCEPT !.kind = kind, !.key = key, !.pdf = pdf, !.view = view,
                              !.pc = IF pdf # None THEN "upload" ELSE "prepare"]]
  /\ UNCHANGED <<rows, stored, retries>>

\* A sender whose answer was lost sends the same command again.
retry(r) ==
  /\ at(r, "answered") /\ retries < MaxRetries
  /\ retries' = retries + 1
  /\ go(r, IF requests[r].pdf # None THEN "upload" ELSE "prepare")
  /\ UNCHANGED <<rows, stored>>

\* The process dies, or a read or a write of it fails.
fail(r) ==
  /\ ~at(r, "idle") /\ ~at(r, "answered")
  /\ answer(r)
  /\ UNCHANGED <<rows, stored, retries>>

\* Slip: a put that failed is taken to have landed.
uploadPdf_unverified(r) ==
  /\ at(r, "upload")
  /\ uploads' \in {uploads, uploads \cup {requests[r].pdf}}
  /\ go(r, "ledger")
  /\ UNCHANGED <<rows, archives, ledger, retries>>

\* An uploaded PDF: its object, then its ledger row, then an ordinary commit.
\* A put that does not land, also by its read-back, fails the request.
uploadPdf(r) ==
  /\ at(r, "upload")
  /\ uploads' = uploads \cup {requests[r].pdf}
  /\ go(r, "ledger")
  /\ UNCHANGED <<rows, archives, ledger, retries>>

\* A known digest is no new row, also at the cap.
insertUploaded(r) ==
  LET known == requests[r].pdf \in ledger
      room  == Cardinality(ledger) < MaxUploads
  IN  /\ at(r, "ledger")
      /\ \/ (known \/ room) /\ ledger' = ledger \cup {requests[r].pdf} /\ go(r, "prepare")
         \/ ~known /\ ~room /\ answer(r) /\ UNCHANGED ledger
      /\ UNCHANGED <<rows, archives, uploads, retries>>

-----------------------------------------------------------------------------
(***************************************************************************)
(* The checks shared by prepare and publish.                               *)
(***************************************************************************)

\* Slip: a receipt is not looked for.
resolveCommand_ignored(r) == FALSE

\* A receipt under the key answers: a replay of this request or a conflict.
resolveCommand(r) ==
  \E c \in receipts : c.kind = requests[r].kind /\ c.key = requests[r].key

\* The ready event the sender saw is the latest, for this revision, with no
\* ready or reopen after it.
readyAnchor(r, text) ==
  LET i == requests[r].view.ready
  IN  /\ audit[i].generation = requests[r].view.generation
      /\ audit[i].text = text
      /\ \A j \in DOMAIN audit :
           j > i => audit[j].type \notin {"envelope.ready", "envelope.reopened"}

\* Slip: the revision the sender saw does not matter.
generationSeen_unchecked(r) == env.generation >= requests[r].view.generation

generationSeen(r) == env.generation = requests[r].view.generation

fieldGenerationSeen(r) == env.fieldGeneration = requests[r].view.fieldGeneration

\* The conditions on the envelope row, the same in prepare and in publish.
envelopeAccepts(r) ==
  LET kind == requests[r].kind
  IN  /\ generationSeen(r)
      /\ kind \in {"commit", "ready"} => env.status = "draft"
      /\ kind \in {"fields", "reopen", "send"} => env.status = "ready"
      /\ kind = "ready" => env.text # <<>>
      /\ kind \in {"fields", "reopen"} => fieldGenerationSeen(r)
      /\ kind \in {"reopen", "send"} => env.sent = <<>>
      /\ kind = "void" => env.status \in {"draft", "ready"} /\ env.status = requests[r].view.status

-----------------------------------------------------------------------------
(***************************************************************************)
(* Prepare: the envelope row, then the audit head, then the recipients.    *)
(***************************************************************************)

prepareEnvelope(r) ==
  /\ at(r, "prepare")
  /\ \/ (resolveCommand(r) \/ ~envelopeAccepts(r)) /\ answer(r)
     \/ /\ ~resolveCommand(r) /\ envelopeAccepts(r)
        /\ requests' = [requests EXCEPT ![r].pc = "head", ![r].text = env.text]
  /\ UNCHANGED <<rows, stored, retries>>

readAuditHead(r) ==
  LET q == requests[r]
      anchored == q.kind \in {"reopen", "send"} => readyAnchor(r, q.text)
  IN  /\ at(r, "head")
      /\ \/ ~anchored /\ answer(r)
         \/ /\ anchored
            /\ requests' = [requests EXCEPT ![r].head = Len(audit),
                 ![r].pc = CASE q.kind = "commit" -> "archive"
                             [] q.kind \in {"fields", "send"} -> "recipients"
                             [] OTHER -> "publish"]
      /\ UNCHANGED <<rows, stored, retries>>

\* A placement names recipients of the graph its sender saw.
readRecipients(r) ==
  /\ at(r, "recipients")
  /\ \/ /\ requests[r].kind = "fields" /\ recipients # requests[r].view.graph
        /\ answer(r)
     \/ /\ requests[r].kind = "fields" => recipients = requests[r].view.graph
        /\ requests' = [requests EXCEPT ![r].graph = recipients,
             ![r].pc = IF requests[r].kind = "fields" THEN "workspace" ELSE "render"]
  /\ UNCHANGED <<rows, stored, retries>>

\* place reads the draft once more, to find the documents it names.
readWorkspace(r) ==
  /\ at(r, "workspace")
  /\ IF generationSeen(r) /\ env.text = requests[r].text THEN go(r, "publish") ELSE answer(r)
  /\ UNCHANGED <<rows, stored, retries>>

\* Send reads the placements to measure the executed agreement, and stores
\* the rendered documents before anything refers to them.
renderSent(r) ==
  /\ at(r, "render")
  /\ archives' = archives \cup {<<"sent", requests[r].text>>}
  /\ requests' = [requests EXCEPT ![r].fields = fields, ![r].pc = "publish"]
  /\ UNCHANGED <<rows, uploads, ledger, retries>>

\* The archive of the next revision; a PDF it names must be in the ledger.
persistImmutableArchive(r) ==
  LET next == Append(requests[r].text, edit(r))
  IN  /\ at(r, "archive")
      /\ IF pdfsOf(next) \subseteq ledger
         THEN archives' = archives \cup {<<"draft", next>>} /\ go(r, "publish")
         ELSE answer(r) /\ UNCHANGED archives
      /\ UNCHANGED <<rows, uploads, ledger, retries>>

-----------------------------------------------------------------------------
(***************************************************************************)
(* Publish: one transaction, with the envelope row locked.                 *)
(***************************************************************************)

\* Slip: the audit head is not compared.
auditHeadCurrent_unchecked(r) == requests[r].head <= Len(audit)

auditHeadCurrent(r) == requests[r].head = Len(audit)

\* The commit the command was prepared from; a draft commit compares its
\* generation only.
textCurrent(r) == requests[r].kind # "commit" => env.text = requests[r].text

publishable(r) ==
  /\ ~resolveCommand(r) /\ envelopeAccepts(r) /\ textCurrent(r) /\ auditHeadCurrent(r)
  /\ requests[r].kind \in {"reopen", "send"} => readyAnchor(r, env.text)
  /\ requests[r].kind = "fields" => recipients = requests[r].graph
  /\ requests[r].kind = "send" => recipients = requests[r].graph

\* The audit event and the receipt every publication writes.
record(r, type) ==
  /\ audit' = Append(audit, [type |-> type, by |-> r, generation |-> env'.generation,
                             text |-> env'.text])
  /\ receipts' = receipts \cup {[kind |-> requests[r].kind, key |-> requests[r].key, by |-> r]}

publishDraftRevision(r) ==
  /\ requests[r].kind = "commit"
  /\ env' = [env EXCEPT !.generation = @ + 1, !.text = Append(requests[r].text, edit(r))]
  /\ record(r, "draft.revision_created")
  /\ UNCHANGED <<recipients, fields, pinned>>

\* The recipient rows are replaced; no field refers to them in a draft.
publishReady(r) ==
  /\ requests[r].kind = "ready"
  /\ env' = [env EXCEPT !.status = "ready"]
  /\ record(r, "envelope.ready")
  /\ recipients' = Len(audit')
  /\ UNCHANGED <<fields, pinned>>

publishFieldPlacement(r) ==
  /\ requests[r].kind = "fields"
  /\ env' = [env EXCEPT !.fieldGeneration = @ + 1]
  /\ fields' = [by |-> r, text |-> requests[r].text, graph |-> requests[r].graph]
  /\ record(r, "envelope.fields_placed")
  /\ UNCHANGED <<recipients, pinned>>

\* Slip: the placements survive a reopen.
publishReopen_keepFields(r) ==
  /\ requests[r].kind = "reopen"
  /\ env' = [env EXCEPT !.status = "draft", !.fieldGeneration = @ + 1]
  /\ record(r, "envelope.reopened")
  /\ UNCHANGED <<recipients, fields, pinned>>

publishReopen(r) ==
  /\ requests[r].kind = "reopen"
  /\ env' = [env EXCEPT !.status = "draft", !.fieldGeneration = @ + 1]
  /\ fields' = NoFields
  /\ record(r, "envelope.reopened")
  /\ UNCHANGED <<recipients, pinned>>

publishSend(r) ==
  /\ requests[r].kind = "send"
  /\ env' = [env EXCEPT !.status = "sent", !.sent = requests[r].text]
  /\ pinned' = [fields |-> requests[r].fields, graph |-> requests[r].graph,
                ready |-> requests[r].view.ready]
  /\ record(r, "envelope.sent")
  /\ UNCHANGED <<recipients, fields>>

publishVoid(r) ==
  /\ requests[r].kind = "void"
  /\ env' = [env EXCEPT !.status = "voided"]
  /\ record(r, "envelope.voided")
  /\ UNCHANGED <<recipients, fields, pinned>>

\* Only void tries again by itself, when the audit head alone has moved.
voidAgain(r) ==
  /\ requests[r].kind = "void" /\ requests[r].attempt + 1 < MaxAttempts
  /\ ~resolveCommand(r) /\ envelopeAccepts(r) /\ textCurrent(r) /\ ~auditHeadCurrent(r)

publish(r) ==
  /\ at(r, "publish")
  /\ \/ /\ publishable(r)
        /\ \/ publishDraftRevision(r) \/ publishReady(r) \/ publishFieldPlacement(r)
           \/ publishReopen(r) \/ publishSend(r) \/ publishVoid(r)
        /\ answer(r)
     \/ /\ ~publishable(r)
        /\ IF voidAgain(r)
           THEN requests' = [requests EXCEPT ![r].pc = "prepare", ![r].attempt = @ + 1]
           ELSE answer(r)
        /\ UNCHANGED rows
  /\ UNCHANGED <<stored, retries>>

-----------------------------------------------------------------------------
\* The states of an envelope after its creation, after one commit and after
\* that commit was declared ready.
Created == <<[type |-> "envelope.created", by |-> None, generation |-> 0, text |-> <<>>]>>
First == <<[by |-> None, pdf |-> None]>>
Committed == Append(Created,
  [type |-> "draft.revision_created", by |-> None, generation |-> 1, text |-> First])
Ready == Append(Committed,
  [type |-> "envelope.ready", by |-> None, generation |-> 1, text |-> First])

Init ==
  /\ audit \in {Created, Committed, Ready}
  /\ env = [status |-> IF audit = Ready THEN "ready" ELSE "draft",
            generation |-> audit[Len(audit)].generation, text |-> audit[Len(audit)].text,
            fieldGeneration |-> 0, sent |-> <<>>]
  /\ recipients = IF audit = Ready THEN 3 ELSE 0
  /\ fields = NoFields
  /\ receipts = {}
  /\ archives = IF audit = Created THEN {} ELSE {<<"draft", First>>}
  /\ uploads = {} /\ ledger = {}
  /\ pinned = [fields |-> NoFields, graph |-> 0, ready |-> 0]
  /\ requests = [r \in Requests |-> NoRequest]
  /\ retries = 0

Next ==
  \E r \in Requests :
    \/ start(r) \/ retry(r) \/ fail(r) \/ uploadPdf(r) \/ insertUploaded(r)
    \/ prepareEnvelope(r) \/ readAuditHead(r) \/ readRecipients(r) \/ readWorkspace(r)
    \/ renderSent(r) \/ persistImmutableArchive(r) \/ publish(r)

Spec == Init /\ [][Next]_vars

-----------------------------------------------------------------------------
(***************************************************************************)
(* Properties.                                                             *)
(***************************************************************************)

Text == INSTANCE AgreementText WITH
  text <- env.text, issued <- env.sent,
  stage <- CASE env.status = "draft" -> "open"
             [] env.status = "ready" -> "offered"
             [] env.status = "sent" -> "issued"
             [] OTHER -> "cancelled"

\* No concurrent edit is lost and nothing but the offered text is issued:
\* every published revision was made from the one it replaces, although the
\* envelope and the audit head are read at different times.  About commit and
\* the compare-and-set of publishDraftRevision.
ImplementsText == Text!AgreementSpec

\* Placements never dangle: they were made for the text and the recipients
\* the envelope has now, and a draft has none.  About publishFieldPlacement,
\* publishReopen and publishReady.
FieldsCoherent ==
  fields # NoFields =>
    env.status # "draft" /\ fields.text = env.text /\ fields.graph = recipients

\* A send is what its sender reviewed and its service measured: the ready
\* event on the sender's screen is the one in force, and the placements and
\* recipients it measured are those that stand.  About publishSend against
\* reopen, ready and field placement.
SentAsReviewed ==
  env.status = "sent" =>
    /\ pinned = [fields |-> fields, graph |-> recipients, ready |-> latestReady]
    /\ ~\E i \in DOMAIN audit : i > latestReady /\ audit[i].type = "envelope.reopened"

\* A command takes effect at most once, however often it is sent again, also
\* when the envelope has gone back to the state it was meant for.  About the
\* receipts read by prepare and again under the row lock.
EffectOnce ==
  \A i, j \in DOMAIN audit : audit[i].by = audit[j].by /\ audit[i].by # None => i = j

\* A pointer never runs ahead of the objects: the current revision has its
\* archive and the PDFs it names, the sent one its documents.  About the
\* order of the object writes, the ledger and the publications.
PointersBacked ==
  /\ env.text # <<>> => <<"draft", env.text>> \in archives
  /\ env.sent # <<>> => <<"sent", env.sent>> \in archives
  /\ pdfsOf(env.text) \subseteq ledger /\ ledger \subseteq uploads
  /\ Cardinality(ledger) <= MaxUploads
=============================================================================
