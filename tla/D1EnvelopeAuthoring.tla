------------------------ MODULE D1EnvelopeAuthoring ------------------------
(***************************************************************************)
(* Authoring over the D1 stores.  There is no row lock: a preparation is   *)
(* a read of the receipt, of the envelope, of the audit head and, for      *)
(* reopen and send, of the ready event, each a call of its own; and a      *)
(* publication is a read of the receipt followed by one batch, whose       *)
(* triggers and primary key compare everything again and abort it whole.   *)
(* A refused batch is classified by preparing once more.                   *)
(***************************************************************************)
EXTENDS EnvelopeAuthoring

commandStep == UNCHANGED <<rows, stored, retries>>

-----------------------------------------------------------------------------
(***************************************************************************)
(* An uploaded PDF: one guarded insert, then a read that tells a duplicate *)
(* from a full ledger.                                                     *)
(***************************************************************************)

d1insertUploaded(r) ==
  /\ at(r, "ledger")
  /\ \/ /\ requests[r].pdf \notin ledger /\ Cardinality(ledger) < MaxUploads
        /\ ledger' = ledger \cup {requests[r].pdf}
        /\ go(r, "prepare")
     \/ /\ requests[r].pdf \in ledger \/ Cardinality(ledger) >= MaxUploads
        /\ go(r, "existing") /\ UNCHANGED ledger
  /\ UNCHANGED <<rows, archives, uploads, retries>>

readExisting(r) ==
  /\ at(r, "existing")
  /\ IF requests[r].pdf \in ledger THEN go(r, "prepare") ELSE answer(r)
  /\ commandStep

-----------------------------------------------------------------------------
(***************************************************************************)
(* Prepare.                                                                *)
(***************************************************************************)

resolveFirst(r) ==
  /\ at(r, "prepare")
  /\ IF resolveCommand(r) THEN answer(r) ELSE go(r, "envelope")
  /\ commandStep

findEnvelope(r) ==
  /\ at(r, "envelope")
  /\ IF envelopeAccepts(r)
     THEN requests' = [requests EXCEPT ![r].pc = "head", ![r].text = env.text]
     ELSE answer(r)
  /\ commandStep

afterAnchor(kind) == IF kind = "send" THEN "recipients" ELSE "publish"

d1readAuditHead(r) ==
  /\ at(r, "head")
  /\ requests' = [requests EXCEPT ![r].head = Len(audit),
       ![r].pc = CASE requests[r].kind = "commit" -> "archive"
                   [] requests[r].kind = "fields" -> "recipients"
                   [] requests[r].kind \in {"reopen", "send"} -> "anchor"
                   [] OTHER -> "publish"]
  /\ commandStep

\* The ready event is read after the head and must not lie beyond it.
readAnchor(r) ==
  /\ at(r, "anchor")
  /\ IF readyAnchor(r, requests[r].text) /\ requests[r].view.ready <= requests[r].head
     THEN go(r, afterAnchor(requests[r].kind)) ELSE answer(r)
  /\ commandStep

-----------------------------------------------------------------------------
(***************************************************************************)
(* Publish.                                                                *)
(***************************************************************************)

resolveAgain(r) ==
  /\ at(r, "publish")
  /\ IF resolveCommand(r) THEN answer(r) ELSE go(r, "insert")
  /\ commandStep

\* The primary key of the command table, which is what the reads look up.
keyFree(r) == ~resolveCommand(r)

\* Slip: the trigger looks for the previous event, and not for a newer one.
headGuard_previousOnly(r) == requests[r].head <= Len(audit)

\* The trigger: the event before the new one is there, and none at its place.
headGuard(r) == requests[r].head = Len(audit)

free(r) == keyFree(r) /\ headGuard(r)

\* Each batch is all or nothing: its trigger accepts the row, or aborts it.
inserting(r, kind) == at(r, "insert") /\ requests[r].kind = kind
inserted(r) == answer(r) /\ UNCHANGED <<stored, retries>>

\* Slip: the trigger does not compare the generation.
draftRevisionGuard_status(r) == env.status = "draft"

draftRevisionGuard(r) == env.status = "draft" /\ generationSeen(r)

insertDraftRevision(r) ==
  LET accepted == free(r) /\ draftRevisionGuard(r)
  IN  /\ inserting(r, "commit")
      /\ \/ accepted /\ publishDraftRevision(r)
         \/ ~accepted /\ UNCHANGED rows
      /\ inserted(r)

readyGuard(r) == env.status = "draft" /\ generationSeen(r) /\ textCurrent(r)

insertReady(r) ==
  LET accepted == free(r) /\ readyGuard(r)
  IN  /\ inserting(r, "ready")
      /\ \/ accepted /\ publishReady(r)
         \/ ~accepted /\ UNCHANGED rows
      /\ inserted(r)

fieldPlacementGuard(r) ==
  /\ env.status = "ready" /\ generationSeen(r) /\ textCurrent(r) /\ fieldGenerationSeen(r)
  /\ recipients = requests[r].graph

insertFieldPlacement(r) ==
  LET accepted == free(r) /\ fieldPlacementGuard(r)
  IN  /\ inserting(r, "fields")
      /\ \/ accepted /\ publishFieldPlacement(r)
         \/ ~accepted /\ UNCHANGED rows
      /\ inserted(r)

reopenGuard(r) ==
  /\ env.status = "ready" /\ env.sent = <<>>
  /\ generationSeen(r) /\ textCurrent(r) /\ fieldGenerationSeen(r)
  /\ readyAnchor(r, env.text)

insertReopen(r) ==
  LET accepted == free(r) /\ reopenGuard(r)
  IN  /\ inserting(r, "reopen")
      /\ \/ accepted /\ publishReopen(r)
         \/ ~accepted /\ UNCHANGED rows
      /\ inserted(r)

\* The guard counts the recipients and joins them with the deliveries.
sendGuard(r) ==
  /\ env.status = "ready" /\ env.sent = <<>> /\ generationSeen(r) /\ textCurrent(r)
  /\ readyAnchor(r, env.text) /\ recipients = requests[r].graph

insertSend(r) ==
  LET accepted == free(r) /\ sendGuard(r)
  IN  /\ inserting(r, "send")
      /\ \/ accepted /\ publishSend(r)
         \/ ~accepted /\ UNCHANGED rows
      /\ inserted(r)

voidGuard(r) ==
  /\ env.status = requests[r].view.status /\ env.status \in {"draft", "ready"}
  /\ generationSeen(r) /\ textCurrent(r)

insertVoid(r) ==
  LET accepted == free(r) /\ voidGuard(r)
  IN  /\ inserting(r, "void")
      /\ \/ accepted /\ publishVoid(r) /\ answer(r)
         \/ ~accepted /\ go(r, "receiptAgain") /\ UNCHANGED rows
      /\ UNCHANGED <<stored, retries>>

insertCommand(r) ==
  \/ insertDraftRevision(r) \/ insertReady(r) \/ insertFieldPlacement(r)
  \/ insertReopen(r) \/ insertSend(r) \/ insertVoid(r)

\* A refused void prepares once more, in three reads, and tries again when
\* nothing but the audit head has moved.
classifyVoid(r) ==
  /\ \/ /\ at(r, "receiptAgain")
        /\ IF resolveCommand(r) THEN answer(r) ELSE go(r, "envelopeAgain")
     \/ /\ at(r, "envelopeAgain")
        /\ IF envelopeAccepts(r) THEN go(r, "headAgain") ELSE answer(r)
     \/ /\ at(r, "headAgain")
        /\ IF requests[r].head # Len(audit) /\ requests[r].attempt + 1 < MaxAttempts
           THEN requests' = [requests EXCEPT ![r].pc = "prepare", ![r].attempt = @ + 1]
           ELSE answer(r)
  /\ commandStep

-----------------------------------------------------------------------------
D1Next ==
  \E r \in Requests :
    \/ start(r) \/ retry(r) \/ fail(r)
    \/ uploadPdf(r) \/ d1insertUploaded(r) \/ readExisting(r)
    \/ resolveFirst(r) \/ findEnvelope(r) \/ d1readAuditHead(r) \/ readAnchor(r)
    \/ readRecipients(r) \/ readWorkspace(r) \/ renderSent(r) \/ persistImmutableArchive(r)
    \/ resolveAgain(r) \/ insertCommand(r) \/ classifyVoid(r)

D1Spec == Init /\ [][D1Next]_vars
=============================================================================
