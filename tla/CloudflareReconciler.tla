------------------------ MODULE CloudflareReconciler ------------------------
(***************************************************************************)
(* create-signkit's Cloudflare reconciler: the deploy, upgrade and adopt   *)
(* commands against one Worker, one D1 name and one R2 bucket, with the    *)
(* local state file, the retained recovery secrets and their binding.      *)
(* Every call to Cloudflare is a step of its own, because between any two  *)
(* of them the command may fail, be killed, or race another command: the   *)
(* reconciler holds no lock.                                               *)
(*                                                                         *)
(* External (outside the package): Cloudflare itself, modelled from the    *)
(* calls the client makes - databases by id, one database per name, Worker *)
(* versions in upload order, Worker secrets by name - and the operator,    *)
(* who starts commands, may recreate the database, lose a Worker secret or *)
(* remove an unreadable state file.                                        *)
(***************************************************************************)
EXTENDS Naturals, Sequences, FiniteSets

CONSTANTS Procs,        \* concurrent runs of the command
          Releases,     \* releases an operator may name
          Migrations,   \* migrations by number, applied in order
          MigrationsOf, \* release -> the migrations it ships
          EpochOf,      \* release -> its manifest's schema epoch
          Secrets,      \* names of the required Worker secrets
          Commands,     \* the commands the operator uses
          MaxRuns,      \* bound: commands started
          MaxFaults,    \* bound: calls that answer with an error
          MaxKills,     \* bound: runs killed half-way
          MaxDatabases, \* bound: databases ever created under the D1 name
          MaxLosses     \* bound: Worker secrets lost

ReleasesAssumption ==
    /\ Migrations \subseteq Nat
    /\ MigrationsOf \in [Releases -> SUBSET Migrations \ {{}}]
    /\ EpochOf \in [Releases -> Nat \ {0}]
    /\ Commands \subseteq {"deploy", "upgrade", "adopt"}

VARIABLES
    d1,        \* id of the database under the D1 name, 0 when there is none
    ledger,    \* d1_migrations of every database: id -> applied migrations
    r2,        \* does the bucket exist
    versions,  \* Worker versions, in upload order: [rel, db]
    active,    \* version deployed at 100%, 0 before the first
    triggers,  \* version whose routes and Cron Triggers are configured
    secrets,   \* Worker secret -> generation of its value, 0 when absent
    recovery,  \* the recovery file: 0 absent, 1 created but empty, or a generation
    binding,   \* the recovery binding: "none", "torn" or "bound"
    file,      \* the local state file
    backups,   \* retained exports: <<database, its ledger when exported>>
    proc,      \* the runs in progress
    report,    \* version the latest successful run reported, 0 if none
    budget     \* what is left of the bounds

vars == <<d1, ledger, r2, versions, active, triggers, secrets, recovery, binding,
          file, backups, proc, report, budget>>
remoteVars == <<d1, ledger, r2, versions, active, triggers, secrets>>
localVars == <<recovery, binding, file, backups>>

Databases == 1..MaxDatabases
Idle == [pc |-> "idle"]
NoFile == [kind |-> "none", d1 |-> 0, epoch |-> 0, last |-> 0, marker |-> FALSE, applied |-> {}]
Torn == 1

Init ==
    /\ d1 = 0 /\ ledger = [d \in Databases |-> {}] /\ r2 = FALSE
    /\ versions = <<>> /\ active = 0 /\ triggers = 0
    /\ secrets = [s \in Secrets |-> 0]
    /\ recovery = 0 /\ binding = "none" /\ file = NoFile /\ backups = {}
    /\ proc = [p \in Procs |-> Idle]
    /\ report = 0
    /\ budget = [runs |-> MaxRuns, faults |-> MaxFaults, kills |-> MaxKills,
                 databases |-> MaxDatabases, losses |-> MaxLosses, generations |-> 2]

(* The run p continues at step pc. *)
Goto(p, pc) == proc' = [proc EXCEPT ![p].pc = pc]
(* The run p throws: it ends without touching anything further. *)
Stop(p) == proc' = [proc EXCEPT ![p] = Idle]
(* A call answers with an error, whether or not it took effect. *)
Errs == budget.faults > 0 /\ budget' = [budget EXCEPT !.faults = @ - 1]

-----------------------------------------------------------------------------
(* Loading and inspecting *)

(* reconcileCloudflare up to the inspection: the state file is loaded; an
   unreadable one, and an upgrade without one, are refused. *)
Start(p, cmd, rel) ==
    /\ proc[p] = Idle /\ budget.runs > 0
    /\ file.kind # "torn"
    /\ cmd = "upgrade" => file.kind = "ok"
    /\ proc' = [proc EXCEPT ![p] =
           [pc |-> "inspect", cmd |-> cmd, rel |-> rel, was |-> file, d1 |-> 0, r2 |-> FALSE,
            seen |-> 0, want |-> {}, gen |-> 0, staged |-> {}, pending |-> {}, up |-> 0,
            out |-> NoFile]]
    /\ budget' = [budget EXCEPT !.runs = @ - 1]
    /\ UNCHANGED <<remoteVars, localVars, report>>

Present == {s \in Secrets : secrets[s] # 0}
WorkerExists == versions # <<>> \/ Present # {}

(* detectDrift, with the same names requested as recorded. *)
Drifted(was) ==
    was.kind = "ok" /\ (d1 = 0 \/ was.d1 # d1 \/ ~r2 \/ ~WorkerExists)

AdoptedStateSlip(was) == [was EXCEPT !.kind = "ok", !.d1 = d1]

(* adoptState: a changed database drops what was recorded of the old one. *)
AdoptedState(was) ==
    IF was.kind = "ok" /\ was.d1 # d1
      THEN [NoFile EXCEPT !.kind = "ok", !.d1 = d1]
      ELSE [was EXCEPT !.kind = "ok", !.d1 = d1]

(* inspectRemote and adopt: nothing remote is changed. *)
Adopt(p) ==
    /\ proc[p].pc = "inspect" /\ proc[p].cmd = "adopt"
    /\ IF d1 # 0 /\ r2 /\ WorkerExists
         THEN proc' = [proc EXCEPT ![p].pc = "save", ![p].out = AdoptedState(proc[p].was)]
         ELSE Stop(p)
    /\ UNCHANGED <<remoteVars, localVars, report, budget>>

(* isPristineInitialDeploy. *)
Pristine(was) == was.kind = "none" /\ versions = <<>> /\ Present = {}

(* inspectRemote for deploy and upgrade: drift, a missing Worker and a
   takeover are refused; missing secrets send the run to the recovery file. *)
Inspect(p) ==
    LET was == proc[p].was
        want == IF Pristine(was) THEN Secrets ELSE Secrets \ Present
    IN /\ proc[p].pc = "inspect" /\ proc[p].cmd # "adopt"
       /\ IF \/ Drifted(was)
             \/ proc[p].cmd = "upgrade" /\ (versions = <<>> \/ d1 = 0 \/ ~r2)
             \/ was.kind = "none" /\ WorkerExists
            THEN Stop(p)
            ELSE proc' = [proc EXCEPT
                     ![p].pc = IF want = {} THEN "createD1" ELSE "recover",
                     ![p].d1 = d1, ![p].r2 = r2, ![p].seen = Len(versions), ![p].want = want]
       /\ UNCHANGED <<remoteVars, localVars, report, budget>>

-----------------------------------------------------------------------------
(* Recovery secrets *)

(* prepareDeploymentRecovery with a recovery file: it must be bound and
   readable.  Without one, only a first deploy goes on to create it. *)
Recover(p) ==
    /\ proc[p].pc = "recover"
    /\ IF recovery = 0
         THEN IF proc[p].was.kind = "none" THEN Goto(p, "bind") ELSE Stop(p)
         ELSE IF binding = "bound" /\ recovery # Torn
                THEN proc' = [proc EXCEPT ![p].pc = "stage", ![p].gen = recovery]
                ELSE Stop(p)
    /\ UNCHANGED <<remoteVars, localVars, report, budget>>

(* ensureRecoveryBinding(allowCreate): an existing binding must be readable,
   a recovery file without one is refused, otherwise the binding file is
   created exclusively (and filled by FillBinding). *)
Bind(p) ==
    /\ proc[p].pc = "bind"
    /\ CASE binding = "bound" -> Goto(p, "generate") /\ UNCHANGED binding
         [] binding = "none" /\ recovery = 0 -> Goto(p, "fillBinding") /\ binding' = "torn"
         [] OTHER -> Stop(p) /\ UNCHANGED binding
    /\ UNCHANGED <<remoteVars, recovery, file, backups, report, budget>>

FillBinding(p) ==
    /\ proc[p].pc = "fillBinding"
    /\ binding' = "bound"
    /\ Goto(p, "generate")
    /\ UNCHANGED <<remoteVars, recovery, file, backups, report, budget>>

GenerateSlip(p) ==
    /\ proc[p].pc = "generate"
    /\ Goto(p, "fill") /\ recovery' = Torn
    /\ UNCHANGED <<remoteVars, binding, file, backups, report, budget>>

(* ensureRecoverySecrets: an existing file, also one another run created a
   moment ago (EEXIST), is reused; only then are secrets generated. *)
Generate(p) ==
    /\ proc[p].pc = "generate"
    /\ CASE recovery = 0 -> Goto(p, "fill") /\ recovery' = Torn
         [] recovery = Torn -> Stop(p) /\ UNCHANGED recovery
         [] OTHER -> /\ proc' = [proc EXCEPT ![p].pc = "stage", ![p].gen = recovery]
                     /\ UNCHANGED recovery
    /\ UNCHANGED <<remoteVars, binding, file, backups, report, budget>>

(* The exclusive write's contents and fsync: a fresh generation of secrets. *)
Fill(p) ==
    /\ proc[p].pc = "fill"
    /\ recovery' = budget.generations
    /\ budget' = [budget EXCEPT !.generations = @ + 1]
    /\ proc' = [proc EXCEPT ![p].pc = "stage", ![p].gen = budget.generations]
    /\ UNCHANGED <<remoteVars, binding, file, backups, report>>

(* stageDeploymentRecovery: the file is read again, and must still have the
   fingerprint validated above; only the wanted names are staged. *)
StageRecovery(p) ==
    /\ proc[p].pc = "stage"
    /\ IF recovery = proc[p].gen
         THEN proc' = [proc EXCEPT ![p].pc = "createD1", ![p].staged = proc[p].want]
         ELSE Stop(p)
    /\ UNCHANGED <<remoteVars, localVars, report, budget>>

-----------------------------------------------------------------------------
(* Resources, backup and migrations *)

(* createD1: only when the inspection found none (and then no state names
   one).  Cloudflare refuses a second database of the same name; an answer
   may be lost. *)
CreateD1(p) ==
    /\ proc[p].pc = "createD1"
    /\ \/ proc[p].d1 # 0 /\ Goto(p, "createR2") /\ UNCHANGED <<d1, budget>>
       \/ /\ proc[p].d1 = 0 /\ d1 = 0 /\ budget.databases > 0
          /\ d1' = MaxDatabases - budget.databases + 1
          /\ \/ /\ proc' = [proc EXCEPT ![p].pc = "createR2", ![p].d1 = d1']
                /\ budget' = [budget EXCEPT !.databases = @ - 1]
             \/ /\ budget.faults > 0 /\ Stop(p)
                /\ budget' = [budget EXCEPT !.databases = @ - 1, !.faults = @ - 1]
       \/ proc[p].d1 = 0 /\ d1 # 0 /\ Stop(p) /\ UNCHANGED <<d1, budget>>
    /\ UNCHANGED <<ledger, r2, versions, active, triggers, secrets, localVars, report>>

CreateR2(p) ==
    /\ proc[p].pc = "createR2"
    /\ \/ proc[p].r2 /\ Goto(p, "backup") /\ UNCHANGED <<r2, budget>>
       \/ /\ ~proc[p].r2 /\ ~r2 /\ r2' = TRUE
          /\ \/ Goto(p, "backup") /\ UNCHANGED budget
             \/ Errs /\ Stop(p)
       \/ ~proc[p].r2 /\ r2 /\ Stop(p) /\ UNCHANGED <<r2, budget>>
    /\ UNCHANGED <<d1, ledger, versions, active, triggers, secrets, localVars, report>>

BackupSlip(p) ==
    /\ proc[p].pc = "backup"
    /\ \/ /\ backups' = backups \cup {<<d1, ledger[d1]>>}
          /\ Goto(p, "list") /\ UNCHANGED budget
       \/ Errs /\ Goto(p, "list") /\ UNCHANGED backups
    /\ UNCHANGED <<remoteVars, recovery, binding, file, report>>

(* persistD1Backup: the database is exported by name before anything in it
   changes; the file is kept. *)
Backup(p) ==
    /\ proc[p].pc = "backup"
    /\ \/ /\ backups' = backups \cup {<<d1, ledger[d1]>>}
          /\ Goto(p, "list") /\ UNCHANGED budget
       \/ Errs /\ Stop(p) /\ UNCHANGED backups
    /\ UNCHANGED <<remoteVars, recovery, binding, file, report>>

EpochAcceptedSlip(was, rel, applied) ==
    was.kind = "none" \/ was.epoch \in {0, EpochOf[rel]} \/ applied = {}

(* assertCompatibleSchemaEpoch: a populated database takes only the epoch
   the state file records; without a state file nothing is compared. *)
EpochAccepted(was, rel, applied) ==
    was.kind = "none" \/ was.epoch = EpochOf[rel] \/ applied = {}

(* listMigrations by id (a deleted database answers with an error), then the
   epoch check. *)
ListMigrations(p) ==
    LET db == proc[p].d1
        pending == MigrationsOf[proc[p].rel] \ ledger[db]
    IN /\ proc[p].pc = "list"
       /\ IF db = d1 /\ EpochAccepted(proc[p].was, proc[p].rel, ledger[db])
            THEN proc' = [proc EXCEPT ![p].pc = IF pending = {} THEN "upload" ELSE "apply",
                                      ![p].pending = pending]
            ELSE Stop(p)
       /\ UNCHANGED <<remoteVars, localVars, report, budget>>

ApplyMigrationsSlip(p) ==
    LET db == proc[p].d1
        pending == MigrationsOf[proc[p].rel] \ ledger[db]
    IN /\ proc[p].pc = "apply"
       /\ \/ /\ ledger' = [ledger EXCEPT ![db] = @ \cup pending]
             /\ Goto(p, "upload") /\ UNCHANGED budget
          \/ /\ Errs /\ Goto(p, "upload")
             /\ \E n \in {0} \cup pending :
                    ledger' = [ledger EXCEPT ![db] = @ \cup {m \in pending : m <= n}]
       /\ UNCHANGED <<d1, r2, versions, active, triggers, secrets, localVars, report>>

(* applyMigrations: migrations are applied in order and a failing command
   leaves the ones before it; the list is read again and a remainder stops
   the run. *)
ApplyMigrations(p) ==
    LET db == proc[p].d1
        pending == MigrationsOf[proc[p].rel] \ ledger[db]
    IN /\ proc[p].pc = "apply"
       /\ \/ /\ db = d1
             /\ ledger' = [ledger EXCEPT ![db] = @ \cup pending]
             /\ Goto(p, "upload") /\ UNCHANGED budget
          \/ /\ db = d1 /\ Errs /\ Stop(p)
             /\ \E n \in {0} \cup pending :
                    ledger' = [ledger EXCEPT ![db] = @ \cup {m \in pending : m <= n}]
          \/ db # d1 /\ Stop(p) /\ UNCHANGED <<ledger, budget>>
       /\ UNCHANGED <<d1, r2, versions, active, triggers, secrets, localVars, report>>

-----------------------------------------------------------------------------
(* Upload, activation, triggers, state *)

(* nextState for a run that saw version v become its upload. *)
NextState(p, v, marker) ==
    [kind |-> "ok", d1 |-> proc[p].d1, epoch |-> EpochOf[proc[p].rel], last |-> v,
     marker |-> marker, applied |-> proc[p].was.applied \cup proc[p].pending]

Uploaded(p) == Append(versions, [rel |-> proc[p].rel, db |-> proc[p].d1])
StagedSecrets(p) == [s \in Secrets |-> IF s \in proc[p].staged THEN proc[p].gen ELSE secrets[s]]

(* deployFirst: version, activation, routes and Cron Triggers in one Wrangler
   command.  When it fails, any prefix of that may have happened. *)
DeployFirst(p) ==
    /\ proc[p].pc = "upload" /\ proc[p].seen = 0
    /\ \/ /\ versions' = Uploaded(p) /\ secrets' = StagedSecrets(p)
          /\ active' = Len(versions') /\ triggers' = Len(versions')
          /\ proc' = [proc EXCEPT ![p].pc = "smoke", ![p].up = Len(versions')]
          /\ UNCHANGED budget
       \/ /\ Errs /\ Goto(p, "reinspect")
          /\ \/ UNCHANGED <<versions, active, triggers, secrets>>
             \/ /\ versions' = Uploaded(p) /\ secrets' = StagedSecrets(p)
                /\ active' \in {active, Len(versions')} /\ UNCHANGED triggers
             \/ /\ versions' = Uploaded(p) /\ secrets' = StagedSecrets(p)
                /\ active' = Len(versions') /\ triggers' = Len(versions')
    /\ UNCHANGED <<d1, ledger, r2, localVars, report>>

ReinspectSlip(p) ==
    /\ proc[p].pc = "reinspect"
    /\ Stop(p)
    /\ UNCHANGED <<remoteVars, localVars, report, budget>>

(* The catch of deployFirst: the versions are listed again; a new one is
   recorded with the marker, none ends the run, and so does a listing that
   fails too. *)
Reinspect(p) ==
    /\ proc[p].pc = "reinspect"
    /\ \/ /\ IF Len(versions) > proc[p].seen
               THEN proc' = [proc EXCEPT ![p].pc = "save",
                                         ![p].out = NextState(p, Len(versions), TRUE)]
               ELSE Stop(p)
          /\ UNCHANGED budget
       \/ Errs /\ Stop(p)
    /\ UNCHANGED <<remoteVars, localVars, report>>

UploadVersion(p) ==
    /\ proc[p].pc = "upload" /\ proc[p].seen > 0
    /\ \/ /\ versions' = Uploaded(p) /\ secrets' = StagedSecrets(p)
          /\ \/ /\ proc' = [proc EXCEPT ![p].pc = "activate", ![p].up = Len(versions')]
                /\ UNCHANGED budget
             \/ Errs /\ Stop(p)
       \/ Errs /\ Stop(p) /\ UNCHANGED <<versions, secrets>>
    /\ UNCHANGED <<d1, ledger, r2, active, triggers, localVars, report>>

(* deployVersion: publish at 100%, then read the active deployment back; an
   error from either throws, whether or not the version became active. *)
DeployVersion(p) ==
    /\ proc[p].pc = "activate"
    /\ \/ active' = proc[p].up /\ Goto(p, "triggers") /\ UNCHANGED budget
       \/ active' \in {active, proc[p].up} /\ Errs /\ Stop(p)
    /\ UNCHANGED <<d1, ledger, r2, versions, triggers, secrets, localVars, report>>

DeployTriggersSlip(p) ==
    /\ proc[p].pc = "triggers"
    /\ \/ triggers' = proc[p].up /\ Goto(p, "smoke") /\ UNCHANGED budget
       \/ /\ triggers' \in {triggers, proc[p].up} /\ Errs
          /\ proc' = [proc EXCEPT ![p].pc = "save", ![p].out = NextState(p, proc[p].up, FALSE)]
    /\ UNCHANGED <<d1, ledger, r2, versions, active, secrets, localVars, report>>

(* deployTriggers: a failure, applied or not, is recorded with the marker. *)
DeployTriggers(p) ==
    /\ proc[p].pc = "triggers"
    /\ \/ triggers' = proc[p].up /\ Goto(p, "smoke") /\ UNCHANGED budget
       \/ /\ triggers' \in {triggers, proc[p].up} /\ Errs
          /\ proc' = [proc EXCEPT ![p].pc = "save", ![p].out = NextState(p, proc[p].up, TRUE)]
    /\ UNCHANGED <<d1, ledger, r2, versions, active, secrets, localVars, report>>

(* The smoke check (also the missing production origin): a failure leaves
   everything active and records the same state; only the exit code differs. *)
Smoke(p) ==
    /\ proc[p].pc = "smoke"
    /\ proc' = [proc EXCEPT ![p].pc = "save", ![p].out = NextState(p, proc[p].up, FALSE)]
    /\ \/ report' = proc[p].up /\ UNCHANGED budget
       \/ Errs /\ UNCHANGED report
    /\ UNCHANGED <<remoteVars, localVars>>

(* stateStore.save writes the file in place: it is truncated, then written. *)
Save(p) ==
    /\ proc[p].pc = "save"
    /\ file' = [NoFile EXCEPT !.kind = "torn"]
    /\ Goto(p, "write")
    /\ UNCHANGED <<remoteVars, recovery, binding, backups, report, budget>>

WriteState(p) ==
    /\ proc[p].pc = "write"
    /\ file' = proc[p].out
    /\ Stop(p)
    /\ UNCHANGED <<remoteVars, recovery, binding, backups, report, budget>>

-----------------------------------------------------------------------------
(* The environment: a run is killed; the operator recreates the database,
   loses a Worker secret, or removes a state file no command can read. *)

Kill(p) ==
    /\ proc[p] # Idle /\ budget.kills > 0
    /\ Stop(p)
    /\ budget' = [budget EXCEPT !.kills = @ - 1]
    /\ UNCHANGED <<remoteVars, localVars, report>>

RecreateD1 ==
    /\ d1 # 0 /\ budget.databases > 0
    /\ d1' = MaxDatabases - budget.databases + 1
    /\ budget' = [budget EXCEPT !.databases = @ - 1]
    /\ UNCHANGED <<ledger, r2, versions, active, triggers, secrets, localVars, proc, report>>

LoseSecret(s) ==
    /\ secrets[s] # 0 /\ budget.losses > 0
    /\ secrets' = [secrets EXCEPT ![s] = 0]
    /\ budget' = [budget EXCEPT !.losses = @ - 1]
    /\ UNCHANGED <<d1, ledger, r2, versions, active, triggers, localVars, proc, report>>

RemoveState ==
    /\ file.kind = "torn" /\ \A p \in Procs : proc[p].pc # "write"
    /\ file' = NoFile
    /\ UNCHANGED <<remoteVars, recovery, binding, backups, proc, report, budget>>

Run(p) ==
    \/ Adopt(p) \/ Inspect(p)
    \/ Recover(p) \/ Bind(p) \/ FillBinding(p) \/ Generate(p) \/ Fill(p) \/ StageRecovery(p)
    \/ CreateD1(p) \/ CreateR2(p) \/ Backup(p) \/ ListMigrations(p) \/ ApplyMigrations(p)
    \/ DeployFirst(p) \/ Reinspect(p) \/ UploadVersion(p) \/ DeployVersion(p)
    \/ DeployTriggers(p) \/ Smoke(p) \/ Save(p) \/ WriteState(p)

Operate ==
    \/ \E p \in Procs, cmd \in Commands, rel \in Releases : Start(p, cmd, rel)
    \/ RecreateD1
    \/ \E s \in Secrets : LoseSecret(s)
    \/ RemoveState

Next ==
    \/ \E p \in Procs : Run(p) \/ Kill(p)
    \/ Operate

Spec == Init /\ [][Next]_vars

(* A started command runs on, and an operator whose deploy was refused or
   failed runs it again. *)
Rerun == \E p \in Procs, cmd \in Commands, rel \in Releases : Start(p, cmd, rel)
FairStep(i) ==
  \/ i = 1 /\ \E p \in Procs : Run(p)
  \/ i = 2 /\ Rerun

Fairness == \A i \in 1..2 : WF_vars(FairStep(i))

FairSpec == Spec /\ Fairness

-----------------------------------------------------------------------------
(* Properties *)

Versions == 1..Len(versions)

(* The reconciler's state, the file and the remote resources keep their types. *)
TypeOK ==
    /\ d1 \in 0..MaxDatabases
    /\ ledger \in [Databases -> SUBSET Migrations]
    /\ r2 \in BOOLEAN
    /\ \A v \in Versions : versions[v].rel \in Releases /\ versions[v].db \in Databases
    /\ active \in 0..Len(versions) /\ triggers \in 0..Len(versions)
    /\ binding \in {"none", "torn", "bound"}
    /\ file.kind \in {"none", "torn", "ok"}
    /\ file.last \in 0..Len(versions) /\ file.d1 \in 0..MaxDatabases
    /\ recovery \in Nat /\ secrets \in [Secrets -> Nat]
    /\ \A p \in Procs : proc[p].pc = "idle" \/ proc[p].d1 \in 0..MaxDatabases

(* A secret the Worker holds is the one in the retained recovery file, also
   when two first deploys race to generate it, when one is killed half-way,
   and when lost names are restored: the file is never overwritten and a
   staged value always comes from it. *)
SecretsRecoverable == \A s \in Secrets : secrets[s] # 0 => secrets[s] = recovery

(* The version that serves traffic finds every migration it ships applied to
   the database it is bound to: migrations come before upload and activation,
   and a partial application stops the run. *)
ServedSchemaMigrated ==
    active # 0 => MigrationsOf[versions[active].rel] \subseteq ledger[versions[active].db]

(* With one command at a time, a state file that names the active version
   either carries triggerReconciliationRequired or the routes and Cron
   Triggers are that version's. *)
MarkerHonest ==
    file.kind = "ok" /\ file.last # 0 /\ file.last = active /\ triggers # active => file.marker

(* The migrations the state file lists are applied in the database it names:
   adopting another database drops the list. *)
RecordedMigrationsApplied ==
    file.kind = "ok" /\ file.d1 # 0 => file.applied \subseteq ledger[file.d1]

(* With one command at a time, a database is migrated only when an export of
   exactly its present contents is retained. *)
MigrationBacked == \A d \in Databases : ledger'[d] # ledger[d] => <<d, ledger[d]>> \in backups

(* With one command at a time, a populated database the state file names gains
   migrations only from releases of the epoch recorded there; with no epoch
   recorded (an adopted database) it gains none. *)
EpochGoverned ==
    \A d \in Databases :
       file.kind = "ok" /\ file.d1 = d /\ ledger[d] # {} =>
           \A m \in ledger'[d] \ ledger[d] :
               \E r \in Releases : m \in MigrationsOf[r] /\ EpochOf[r] = file.epoch

Converged ==
    /\ report # 0 /\ file.kind = "ok" /\ ~file.marker
    /\ file.last = report /\ active = report /\ triggers = report
    /\ Present = Secrets

(* A deploy that is repeated after one failed call reaches a run that reports
   success with the state file, the active version and the triggers agreeing:
   no single failure leaves something a rerun refuses or cannot repair. *)
RerunConverges == <>Converged

=============================================================================
