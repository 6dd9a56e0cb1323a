----------------------------- MODULE MCEnvelopes ------------------------------
(***************************************************************************)
(* Envelopes under concurrent commands: their authoring, their signing in  *)
(* D1, the documents they carry and what retention keeps of them.  They    *)
(* share no row, so each is explored on its own: `part' names the one that *)
(* moves, with the constants of its scenario, and the others stay as they  *)
(* start.                                                                  *)
(***************************************************************************)
EXTENDS ObjectRetention, TLC

CONSTANTS None, s1, s2, k1, k2, p1, p2, m1, m2, a, b, c

VARIABLES
  part,                   \* the component that moves
  \* EnvelopeAuthoring, D1EnvelopeAuthoring
  env, recipients, fields, audit, receipts, archives, uploads, draftLedger, pinned,
  requests, retries,
  \* D1Signing
  d1Env, d1Audit, rcp, outbox, lapsed, tasks, req,
  \* DocumentSet
  tree, manifest, minted, commits,
  \* RevisionDiff
  old, new, contextLines, script, idx, hunk, hunks, trailing, oldLine, newLine,
  \* RevisionChanges
  base, head, maxDiffBytes, maxFiles, includeUnified, pc, returned, deferred,
  remaining, diffs, joined, toJoin, total, truncated

\* Two approvers share order 1 and the signer follows; two recipients side by
\* side, or one after the other; one recipient.
Trio == {a, b, c}
TrioRole == a :> "approver" @@ b :> "approver" @@ c :> "signer"
TrioOrder == a :> 1 @@ b :> 1 @@ c :> 2
Pair == {a, b}
SideRole == a :> "approver" @@ b :> "signer"
SideOrder == a :> 1 @@ b :> 1
PairRole == a :> "signer" @@ b :> "approver"
PairOrder == a :> 1 @@ b :> 2
SingleRole == a :> "signer"
SingleOrder == a :> 1

\* The text without lines.
Blank == [lines |-> <<>>, newline |-> TRUE]

-----------------------------------------------------------------------------
\* Two commands of senders, one of them sent twice; and up to two different
\* PDFs with room for one.  In both stores.
Authoring == INSTANCE EnvelopeAuthoring WITH
  Requests <- {s1, s2}, Keys <- {k1, k2}, Pdfs <- {}, MaxUploads <- 0,
  MaxRetries <- 1, MaxAttempts <- 2, ledger <- draftLedger
Uploads == INSTANCE EnvelopeAuthoring WITH
  Requests <- {s1, s2}, Keys <- {k1, k2}, Pdfs <- {p1, p2}, MaxUploads <- 1,
  MaxRetries <- 1, MaxAttempts <- 2, ledger <- draftLedger
D1Authoring == INSTANCE D1EnvelopeAuthoring WITH
  Requests <- {s1, s2}, Keys <- {k1, k2}, Pdfs <- {}, MaxUploads <- 0,
  MaxRetries <- 1, MaxAttempts <- 2, ledger <- draftLedger
D1Uploads == INSTANCE D1EnvelopeAuthoring WITH
  Requests <- {s1, s2}, Keys <- {k1, k2}, Pdfs <- {p1, p2}, MaxUploads <- 1,
  MaxRetries <- 1, MaxAttempts <- 2, ledger <- draftLedger

\* The D1 store: two approvers before a signer, one command at a time; an
\* approver beside a signer; a terminal command against another
\* and an expiry; a link issued anew.
Groups == INSTANCE D1Signing WITH
  Recipients <- Trio, Role <- TrioRole, RoutingOrder <- TrioOrder, Sessions <- {s1},
  Commands <- {"send", "view", "approve", "sign"}, Nobody <- None, MaxIssues <- 1,
  MaxClaims <- 1, LastLapse <- 0, MaxAuditAttempts <- 1, env <- d1Env,
  audit <- d1Audit
Decisions == INSTANCE D1Signing WITH
  Recipients <- Pair, Role <- SideRole, RoutingOrder <- SideOrder,
  Sessions <- {s1, s2}, Commands <- {"send", "view", "approve", "sign"},
  Nobody <- None, MaxIssues <- 1, MaxClaims <- 1, LastLapse <- 0,
  MaxAuditAttempts <- 1, env <- d1Env, audit <- d1Audit
Endings == INSTANCE D1Signing WITH
  Recipients <- Pair, Role <- PairRole, RoutingOrder <- PairOrder,
  Sessions <- {s1, s2},
  Commands <- {"send", "view", "approve", "sign", "decline", "void", "expire"},
  Nobody <- None, MaxIssues <- 1, MaxClaims <- 1, LastLapse <- 1,
  MaxAuditAttempts <- 1, env <- d1Env, audit <- d1Audit
Reissues == INSTANCE D1Signing WITH
  Recipients <- {a}, Role <- SingleRole, RoutingOrder <- SingleOrder,
  Sessions <- {s1, s2}, Commands <- {"send", "view", "reissue", "void", "expire"},
  Nobody <- None, MaxIssues <- 2, MaxClaims <- 2, LastLapse <- 1,
  MaxAuditAttempts <- 1, env <- d1Env, audit <- d1Audit

\* Two files and PDFs up to a set of four documents, four commits.
Documents == INSTANCE DocumentSet WITH
  Paths <- {1, 2}, Contents <- {1, 2}, Pdfs <- {3}, MaxSize <- 4, MaxCommits <- 4,
  None <- 0

\* All pairs of terminated texts over two contents: of up to five lines with
\* one line of context, where the table of two texts of five lines is too
\* large; and of seven lines with two lines of context, the shortest that come
\* apart into two hunks.
Patches == INSTANCE RevisionDiff WITH
  Lines <- {k1, k2}, MinLines <- 0, MaxLines <- 5, Contexts <- {1}, MaxCells <- 24,
  Terminated <- {TRUE}
WidePatches == INSTANCE RevisionDiff WITH
  Lines <- {k1, k2}, MinLines <- 7, MaxLines <- 7, Contexts <- {2}, MaxCells <- 49,
  Terminated <- {TRUE}

\* Three documents, two of them Markdown, the diff of the first the shorter:
\* limits that cut the list, the second diff, the text between two files.
Changes == INSTANCE RevisionChanges WITH
  Markdown <- {m1, m2}, Pdf <- {p1}, DiffBytes <- (m1 :> 2 @@ m2 :> 4),
  Budgets <- {3, 9}, FileLimits <- {1, 3}, HeaderBytes <- 3, MarkerBytes <- 2

-----------------------------------------------------------------------------
ASSUME Authoring!AuthoringConstants
ASSUME Uploads!AuthoringConstants
ASSUME D1Authoring!AuthoringConstants
ASSUME D1Uploads!AuthoringConstants
ASSUME Groups!D1Constants /\ Groups!assertReadyInput
ASSUME Decisions!D1Constants /\ Decisions!assertReadyInput
ASSUME Endings!D1Constants /\ Endings!assertReadyInput
ASSUME Reissues!D1Constants /\ Reissues!assertReadyInput
ASSUME Documents!DocumentSetConstants
ASSUME Patches!RevisionDiffConstants /\ WidePatches!RevisionDiffConstants
ASSUME Changes!RevisionChangesConstants

draftVars ==
  <<env, recipients, fields, audit, receipts, archives, uploads, draftLedger,
    pinned, requests, retries>>
d1Vars ==
  <<d1Env, d1Audit, rcp, outbox, lapsed, tasks, req>>
setVars ==
  <<tree, manifest, minted, commits>>
diffVars ==
  <<old, new, contextLines, script, idx, hunk, hunks, trailing, oldLine, newLine>>
chgVars ==
  <<base, head, maxDiffBytes, maxFiles, includeUnified, pc, returned, deferred,
    remaining, diffs, joined, toJoin, total, truncated>>

Parts ==
  {"signatures", "authoring", "uploads", "D1 authoring", "D1 uploads", "groups",
   "decisions", "endings", "reissues", "document sets", "patches", "wide patches",
   "budgets"}

PartInit ==
  /\ part \in Parts
  /\ (part # "signatures" => objects = [k \in ObjectKeys |-> Absent])
  /\ Init
  /\ (part \notin {"authoring", "uploads", "D1 authoring", "D1 uploads"} => audit = Authoring!Created)
  /\ Authoring!Init
  /\ CASE part = "endings" -> Endings!Init
       [] part = "groups" -> Groups!Init
       [] part = "reissues" -> Reissues!Init
       [] OTHER -> Decisions!Init
  /\ (part # "document sets" => tree = [p \in {1, 2} |-> 0])
  /\ Documents!Init
  /\ (part \notin {"patches", "wide patches"} =>
       old = Blank /\ new = Blank /\ contextLines = 1)
  /\ IF part = "wide patches" THEN WidePatches!Init ELSE Patches!Init
  /\ (part # "budgets" =>
       base = <<>> /\ head = <<>> /\ maxDiffBytes = 3 /\ maxFiles = 1 /\ includeUnified = TRUE)
  /\ Changes!Init

PartNext ==
  /\ UNCHANGED part
  /\ \/ /\ part = "signatures"
        /\ Next
        /\ UNCHANGED <<draftVars, d1Vars, setVars, diffVars, chgVars>>
     \/ /\ part = "authoring"
        /\ Authoring!Next
        /\ UNCHANGED <<vars, d1Vars, setVars, diffVars, chgVars>>
     \/ /\ part = "uploads"
        /\ Uploads!Next
        /\ UNCHANGED <<vars, d1Vars, setVars, diffVars, chgVars>>
     \/ /\ part = "D1 authoring"
        /\ D1Authoring!D1Next
        /\ UNCHANGED <<vars, d1Vars, setVars, diffVars, chgVars>>
     \/ /\ part = "D1 uploads"
        /\ D1Uploads!D1Next
        /\ UNCHANGED <<vars, d1Vars, setVars, diffVars, chgVars>>
     \/ /\ part = "groups"
        /\ Groups!Next
        /\ UNCHANGED <<vars, draftVars, setVars, diffVars, chgVars>>
     \/ /\ part = "decisions"
        /\ Decisions!Next
        /\ UNCHANGED <<vars, draftVars, setVars, diffVars, chgVars>>
     \/ /\ part = "endings"
        /\ Endings!Next
        /\ UNCHANGED <<vars, draftVars, setVars, diffVars, chgVars>>
     \/ /\ part = "reissues"
        /\ Reissues!Next
        /\ UNCHANGED <<vars, draftVars, setVars, diffVars, chgVars>>
     \/ /\ part = "document sets"
        /\ Documents!Next
        /\ UNCHANGED <<vars, draftVars, d1Vars, diffVars, chgVars>>
     \/ /\ part = "patches"
        /\ Patches!Next
        /\ UNCHANGED <<vars, draftVars, d1Vars, setVars, chgVars>>
     \/ /\ part = "wide patches"
        /\ WidePatches!Next
        /\ UNCHANGED <<vars, draftVars, d1Vars, setVars, chgVars>>
     \/ /\ part = "budgets"
        /\ Changes!Next
        /\ UNCHANGED <<vars, draftVars, d1Vars, setVars, diffVars>>

partVars ==
  <<part, vars, draftVars, d1Vars, setVars, diffVars, chgVars>>

PartSpec == PartInit /\ [][PartNext]_partVars

-----------------------------------------------------------------------------
\* Authoring in both stores: what is sent is what its sender reviewed,
\* placements never dangle, a command takes effect at most once, and no row
\* points to an object that is not there.
AuthoringSound ==
  /\ Authoring!SentAsReviewed
  /\ Authoring!FieldsCoherent
  /\ Authoring!EffectOnce
  /\ part \in {"uploads", "D1 uploads"} => Uploads!PointersBacked

\* No concurrent edit is lost and only the offered text is issued, in both
\* stores.
ImplementsText == Authoring!ImplementsText

\* Signing in the D1 stores, however their reads are torn: the audit chain
\* neither forks nor skips, a finished envelope sends nothing more, a terminal
\* event names the recipients it revoked, and a replaced link cannot be mailed.
D1SigningSound ==
  /\ Decisions!ChainLinear
  /\ part = "groups" => Groups!TerminalQuiet
  /\ part = "decisions" => Decisions!TerminalQuiet
  /\ part = "endings" => Endings!TerminalQuiet /\ Endings!RevocationEvidenceTrue
  /\ part = "reissues" => /\ Reissues!TerminalQuiet
                          /\ Reissues!RevocationEvidenceTrue
                          /\ Reissues!ReplacedLinkDestroyed

\* The D1 stores keep the promise of the envelope's lifecycle.
ImplementsLifecycle ==
  /\ part = "groups" => Groups!Lifecycle!LInit
  /\ part = "decisions" => Decisions!Lifecycle!LInit
  /\ part = "endings" => Endings!Lifecycle!LInit
  /\ part = "reissues" => Reissues!Lifecycle!LInit
  /\ [][/\ part = "groups" => [Groups!Lifecycle!LNext]_(Groups!Lifecycle!lifecycle)
        /\ part = "decisions" => [Decisions!Lifecycle!LNext]_(Decisions!Lifecycle!lifecycle)
        /\ part = "endings" => [Endings!Lifecycle!LNext]_(Endings!Lifecycle!lifecycle)
        /\ part = "reissues" => [Reissues!Lifecycle!LNext]_(Reissues!Lifecycle!lifecycle)]_partVars

\* The document set through any commits: the manifest describes the tree,
\* every proof of inclusion verifies, an identifier means one document for
\* good, and a hash pins one set.
DocumentSetSound ==
  /\ [](part = "document sets" => Documents!TreeDescribed /\ Documents!ProofsVerify)
  /\ Documents!IdentifiersStable
  /\ Documents!HashPins

\* A comparison of two revisions: the edit script is right and minimal, the
\* hunks are a patch that applies and give every change its context, and a
\* comparison stays within its limits or says that it hides something.
DifferSound ==
  /\ part = "patches" =>
       Patches!ScriptMinimal /\ Patches!PatchApplies /\ Patches!ContextComplete
  /\ part = "wide patches" =>
       WidePatches!ScriptMinimal /\ WidePatches!PatchApplies /\ WidePatches!ContextComplete
  /\ part = "budgets" => Changes!BytesBounded /\ Changes!NothingHidden

Symmetry == Permutations({s1, s2}) \cup Permutations({k1, k2})
=============================================================================
