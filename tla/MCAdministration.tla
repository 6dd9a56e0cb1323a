--------------------------- MODULE MCAdministration ---------------------------
(***************************************************************************)
(* Administration under concurrent commands: API keys, contacts, instance  *)
(* members in both stores, and the deploy tool.  They share no row, so     *)
(* each is explored on its own: `part' names the one that moves, with the  *)
(* constants of its scenario, and the others stay as they start.           *)
(***************************************************************************)
EXTENDS ApiKeys, InstanceRequests, TLC

CONSTANTS o1, c1, c2, i1, i2, i3, r1, r2, r3

VARIABLES
  part,                   \* the component that moves
  \* Contacts
  contactMember, contacts, receipts, contactCall, gone, answers, contactPager,
  contactBudget,
  \* InstanceMembership
  members, invitations, bootstrapped, log, txs, locks, pgNow, begun, aborts,
  \* D1InstanceMembership
  d1Members, d1Invitations, revocations, founder, d1Log, calls, d1Now, d1Begun,
  \* CloudflareReconciler
  d1, ledger, depR2, versions, active, triggers, secrets, recovery, binding, file,
  backups, proc, report, depBudget

\* r1, r2 with one migration more, and r3 of the next epoch.
Ships == (r1 :> {1, 2}) @@ (r2 :> {1, 2, 3}) @@ (r3 :> {11})
Epochs == (r1 :> 1) @@ (r2 :> 1) @@ (r3 :> 2)

-----------------------------------------------------------------------------
\* API keys: two callers on one key ring in D1, by the constants of this module;
\* keys created and revoked while a client pages through them in PostgreSQL;
\* and two bearers against the rate window.
Races == INSTANCE ApiKeys WITH
  MaxTime <- 2, MaxUses <- 0
Pages == INSTANCE ApiKeys WITH
  Backend <- "postgres", MaxTime <- 2, MaxUses <- 0, MaxFaults <- 0, MaxCalls <- 4
Rates == INSTANCE ApiKeys WITH
  MaxCalls <- 2, MaxFaults <- 0

\* Contacts: two callers in D1, and a client that pages while they change.
ContactBook == INSTANCE Contacts WITH
  Owners <- {o1}, Ids <- {1, 2, 3, 4}, Idems <- {i1, i2, i3}, Emails <- {1, 2},
  MaxIdAttempts <- 2, PageLimit <- 1, MaxCalls <- 3, Backend <- "d1", Names <- {1},
  Callers <- {c1, c2}, MaxSuspends <- 1, MaxFaults <- 1, member <- contactMember,
  call <- contactCall, pager <- contactPager, budget <- contactBudget
ContactPages == INSTANCE Contacts WITH
  Owners <- {o1}, Ids <- {1, 2, 3, 4}, Idems <- {i1, i2, i3}, Emails <- {1, 2},
  MaxIdAttempts <- 2, PageLimit <- 1, MaxCalls <- 3, Backend <- "postgres",
  Names <- {1, 2}, Callers <- {c1, c2}, MaxSuspends <- 0, MaxFaults <- 0,
  member <- contactMember, call <- contactCall, pager <- contactPager,
  budget <- contactBudget

\* Membership in PostgreSQL, by the commands that clients send.
Members == INSTANCE InstanceMembership WITH
  Users <- {1, 2, 3}, Invitations <- {1, 2}, MaxTime <- 1, Requests <- OwnerRaces,
  Founders <- {1, 2}, MaxPending <- 2, MaxConcurrent <- 2, MaxCommands <- 2,
  MaxAborts <- 1, now <- pgNow
First == INSTANCE InstanceMembership WITH
  Users <- {1, 2, 3}, Invitations <- {1, 2}, MaxTime <- 1, Requests <- FirstSteps,
  Founders <- {}, MaxPending <- 2, MaxConcurrent <- 2, MaxCommands <- 4,
  MaxAborts <- 1, now <- pgNow
Enrols == INSTANCE InstanceMembership WITH
  Users <- {1, 2, 3}, Invitations <- {1, 2}, MaxTime <- 1, Requests <- Enrolments,
  Founders <- {1}, MaxPending <- 2, MaxConcurrent <- 2, MaxCommands <- 4,
  MaxAborts <- 1, now <- pgNow
Cascade == INSTANCE InstanceMembership WITH
  Users <- {1, 2, 3}, Invitations <- {1, 2}, MaxTime <- 1, Requests <- Cascades,
  Founders <- {1, 2}, MaxPending <- 1, MaxConcurrent <- 2, MaxCommands <- 3,
  MaxAborts <- 0, now <- pgNow

\* Membership in D1.
D1Members == INSTANCE D1InstanceMembership WITH
  Users <- {1, 2, 3}, Invitations <- {1, 2}, MaxTime <- 1, Requests <- OwnerRaces,
  Founders <- {1, 2}, MaxPending <- 2, MaxConcurrent <- 2, MaxCommands <- 2,
  members <- d1Members, invitations <- d1Invitations, log <- d1Log, now <- d1Now,
  begun <- d1Begun
D1Enrols == INSTANCE D1InstanceMembership WITH
  Users <- {1, 2, 3}, Invitations <- {1, 2}, MaxTime <- 1, Requests <- Succession,
  Founders <- {}, MaxPending <- 2, MaxConcurrent <- 2, MaxCommands <- 4,
  members <- d1Members, invitations <- d1Invitations, log <- d1Log, now <- d1Now,
  begun <- d1Begun
D1Cascade == INSTANCE D1InstanceMembership WITH
  Users <- {1, 2, 3}, Invitations <- {1, 2}, MaxTime <- 1, Requests <- Cascades,
  Founders <- {1, 2}, MaxPending <- 1, MaxConcurrent <- 2, MaxCommands <- 3,
  members <- d1Members, invitations <- d1Invitations, log <- d1Log, now <- d1Now,
  begun <- d1Begun

\* create-signkit deploy: two deploys at once; and one operator at a time, with
\* every command.
Deploys == INSTANCE CloudflareReconciler WITH
  Migrations <- {1, 2, 3, 11}, Releases <- {r1, r2, r3}, MigrationsOf <- Ships,
  EpochOf <- Epochs, Secrets <- {"key"}, MaxKills <- 1, Procs <- {c1, c2},
  Commands <- {"deploy"}, MaxRuns <- 2, MaxFaults <- 1, MaxDatabases <- 1,
  MaxLosses <- 0, r2 <- depR2, budget <- depBudget
Operator == INSTANCE CloudflareReconciler WITH
  Migrations <- {1, 2, 3, 11}, Releases <- {r1, r2, r3}, MigrationsOf <- Ships,
  EpochOf <- Epochs, Secrets <- {"key"}, MaxKills <- 1, Procs <- {c1},
  Commands <- {"deploy", "upgrade", "adopt"}, MaxRuns <- 3, MaxFaults <- 2,
  MaxDatabases <- 2, MaxLosses <- 1, r2 <- depR2, budget <- depBudget

-----------------------------------------------------------------------------
ASSUME ContactBook!ContactsAssumption
ASSUME Members!InstanceConstants
ASSUME First!InstanceConstants
ASSUME Enrols!InstanceConstants
ASSUME Cascade!InstanceConstants
ASSUME D1Members!D1InstanceConstants
ASSUME D1Enrols!D1InstanceConstants
ASSUME D1Cascade!D1InstanceConstants
ASSUME Deploys!ReleasesAssumption

contactVars ==
  <<contactMember, contacts, receipts, contactCall, gone, answers, contactPager,
    contactBudget>>
pgVars ==
  <<members, invitations, bootstrapped, log, txs, locks, pgNow, begun, aborts>>
d1Vars ==
  <<d1Members, d1Invitations, revocations, founder, d1Log, calls, d1Now, d1Begun>>
depVars ==
  <<d1, ledger, depR2, versions, active, triggers, secrets, recovery, binding, file,
    backups, proc, report, depBudget>>

Parts ==
  {"keys", "key pages", "key rates", "contacts", "contact pages", "owners",
   "first steps", "enrolments", "cascades", "D1 owners", "D1 enrolments",
   "D1 cascades", "deploys", "operator"}

PartInit ==
  /\ part \in Parts
  /\ CASE part = "key pages" -> Pages!Init
       [] part = "key rates" -> Rates!Init
       [] OTHER -> Races!Init
  /\ IF part = "contact pages" THEN ContactPages!Init ELSE ContactBook!Init
  /\ CASE part = "first steps" -> First!Init
       [] part = "enrolments" -> Enrols!Init
       [] OTHER -> Members!Init
  /\ IF part = "D1 enrolments" THEN D1Enrols!Init ELSE D1Members!Init
  /\ IF part = "operator" THEN Operator!Init ELSE Deploys!Init

PartNext ==
  /\ UNCHANGED part
  /\ \/ /\ part = "keys"
        /\ Races!Next
        /\ UNCHANGED <<contactVars, pgVars, d1Vars, depVars>>
     \/ /\ part = "key pages"
        /\ Pages!Next
        /\ UNCHANGED <<contactVars, pgVars, d1Vars, depVars>>
     \/ /\ part = "key rates"
        /\ Rates!Next
        /\ UNCHANGED <<contactVars, pgVars, d1Vars, depVars>>
     \/ /\ part = "contacts"
        /\ ContactBook!Next
        /\ UNCHANGED <<vars, pgVars, d1Vars, depVars>>
     \/ /\ part = "contact pages"
        /\ ContactPages!Next
        /\ UNCHANGED <<vars, pgVars, d1Vars, depVars>>
     \/ /\ part = "owners"
        /\ Members!Next
        /\ UNCHANGED <<vars, contactVars, d1Vars, depVars>>
     \/ /\ part = "first steps"
        /\ First!Next
        /\ UNCHANGED <<vars, contactVars, d1Vars, depVars>>
     \/ /\ part = "enrolments"
        /\ Enrols!Next
        /\ UNCHANGED <<vars, contactVars, d1Vars, depVars>>
     \/ /\ part = "cascades"
        /\ Cascade!Next
        /\ UNCHANGED <<vars, contactVars, d1Vars, depVars>>
     \/ /\ part = "D1 owners"
        /\ D1Members!Next
        /\ UNCHANGED <<vars, contactVars, pgVars, depVars>>
     \/ /\ part = "D1 enrolments"
        /\ D1Enrols!Next
        /\ UNCHANGED <<vars, contactVars, pgVars, depVars>>
     \/ /\ part = "D1 cascades"
        /\ D1Cascade!Next
        /\ UNCHANGED <<vars, contactVars, pgVars, depVars>>
     \/ /\ part = "deploys"
        /\ Deploys!Next
        /\ UNCHANGED <<vars, contactVars, pgVars, d1Vars>>
     \/ /\ part = "operator"
        /\ Operator!Next
        /\ UNCHANGED <<vars, contactVars, pgVars, d1Vars>>

partVars ==
  <<part, vars, contactVars, pgVars, d1Vars, depVars>>

PartSpec == PartInit /\ [][PartNext]_partVars

-----------------------------------------------------------------------------
\* Contacts in both stores: an email belongs to one contact of its owner, the
\* first answer to a command is proven by its receipt, every change is one
\* version, and the book of a suspended owner does not change.
ContactsSound ==
  /\ [](/\ ContactBook!EmailUnique
        /\ ContactBook!FirstAnswerProven
        /\ ContactBook!VersionsAccounted)
  /\ ContactBook!BookOfActiveOwner

\* A client that pages through its keys or contacts sees all that stayed.
ListingsComplete == Pages!PagesComplete /\ ContactPages!PagesComplete

\* Members in both stores: an owner is left whoever demotes whom, the receipts
\* explain the members, a user is enrolled once, and the invitations that wait
\* are those their inviters may make, within their cap.
MembersSound ==
  /\ part \notin {"enrolments", "D1 enrolments", "first steps"} =>
       Members!OwnerKept /\ D1Members!OwnerKept
  /\ Members!ReceiptsExplain /\ D1Members!ReceiptsExplain
  /\ part = "first steps" => First!EnrolledOnce
  /\ part = "enrolments" => Enrols!EnrolledOnce
  /\ part = "D1 enrolments" => D1Enrols!EnrolledOnce
  /\ Cascade!InvitersEntitled /\ D1Cascade!InvitersEntitled
  /\ part \in {"cascades", "D1 cascades"} =>
       Cascade!PendingCapped /\ D1Cascade!PendingCapped

\* Every commit in PostgreSQL and every batch in D1 is one that the members as
\* they are at that moment entitle.
ImplementsGovernance ==
  Members!ImplementsGovernance /\ D1Members!ImplementsGovernance

\* Deployments: no Worker uses a secret without a recovery copy, the version
\* that serves finds its migrations applied, and the state file is right about
\* what it names or marked; a database is migrated only over a backup, and
\* gains migrations of the recorded epoch only.
DeploymentSound ==
  /\ [](/\ part = "deploys" => Deploys!SecretsRecoverable /\ Deploys!ServedSchemaMigrated
        /\ part = "operator" => Operator!MarkerHonest /\ Operator!RecordedMigrationsApplied)
  /\ [][part = "operator" => Operator!MigrationBacked /\ Operator!EpochGoverned]_depVars
=============================================================================
