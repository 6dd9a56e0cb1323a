--------------------------- MODULE ObjectRetention ---------------------------
(***************************************************************************)
(* Immutable objects, the rows that point to them and the orphan sweep.    *)
(* A drawn signature (a key of SigKeys, one recipient's) has a row in the  *)
(* retention ledger; any other content-addressed object (a DOCX source, an *)
(* uploaded PDF: DocKeys) is protected by its grace period alone.  Keys    *)
(* are numbers in the order the store lists them; time is counted in       *)
(* grace periods.  A recipient's upload and signing, a document's upload   *)
(* and the sweeps interleave at every statement and object access.         *)
(***************************************************************************)
EXTENDS Naturals, FiniteSets, FiniteSetsExt

CONSTANTS
  SigKeys,     \* signature-assets/... objects
  DocKeys,     \* other content-addressed objects
  Sweepers,    \* overlapping invocations of the sweep
  PageSize,    \* objects listed by one sweep
  MaxDays,     \* bound: grace periods that pass
  MaxClients,  \* bound: requests made
  MaxFaults    \* bound: sweeps that fail, deletes that fail half-way

ASSUME RetentionConstants ==
  /\ SigKeys \subseteq Nat \ {0} /\ DocKeys \subseteq Nat \ {0} /\ SigKeys \cap DocKeys = {}
  /\ IsFiniteSet(SigKeys \cup DocKeys) /\ IsFiniteSet(Sweepers)
  /\ PageSize \in Nat \ {0} /\ {MaxDays, MaxClients, MaxFaults} \subseteq Nat

ObjectKeys == SigKeys \cup DocKeys

VARIABLES
  day,         \* the clock
  objects,     \* day a key's object was put, 0 if it has none
  ledger,      \* signature_asset: state and pending_touched_at
  references,  \* keys that field_value, docx_conversion_job, ... name
  clients,     \* requests in flight
  sweeps,      \* sweeps in flight
  checkpoint,  \* orphan_sweep_checkpoint.last_object_key, 0 for none
  begun, faults

bounds == <<begun, faults>>
vars == <<day, objects, ledger, references, clients, sweeps, checkpoint, bounds>>

Absent == 0
missing == [state |-> "missing", touched |-> 0]
pending(now) == [state |-> "pending", touched |-> now]
bound == [state |-> "bound", touched |-> 0]
retired == [state |-> "retired", touched |-> 0]

idle == [pc |-> "idle", now |-> 0, stored |-> 0, next |-> 0, batch |-> {}, deletable |-> {}]

become(c, d) == clients' = (clients \ {c}) \cup {d}
leave(c) == clients' = clients \ {c}

-----------------------------------------------------------------------------
\* A request begins.  sign takes its clock here, before it reads anything.
request(k, op) ==
  /\ begun < MaxClients /\ begun' = begun + 1
  /\ clients' = clients \cup {[id |-> begun, key |-> k, now |-> day, pc |-> op]}
  /\ UNCHANGED <<day, objects, ledger, references, sweeps, checkpoint, faults>>

\* registerPending, before anything is put.
registerPending(c) ==
  /\ c.pc = "register"
  /\ ledger' = IF ledger[c.key].state \in {"missing", "pending"}
               THEN [ledger EXCEPT ![c.key] = pending(day)] ELSE ledger
  /\ IF ledger[c.key].state = "retired" THEN leave(c) ELSE become(c, [c EXCEPT !.pc = "put"])
  /\ UNCHANGED <<day, objects, references, sweeps, checkpoint, bounds>>

\* putImmutable: an object there already is kept with its date, and its
\* bytes are read back; the answer to a put may be lost, or the put fail.
put(c, pc) ==
  /\ \/ /\ objects' = IF objects[c.key] = Absent THEN [objects EXCEPT ![c.key] = day] ELSE objects
        /\ IF pc = "done" THEN leave(c) ELSE become(c, [c EXCEPT !.pc = pc])
     \/ objects[c.key] = Absent /\ leave(c) /\ UNCHANGED objects
  /\ UNCHANGED <<day, ledger, references, sweeps, checkpoint, bounds>>

\* SignatureAssetApplication.store.
store(c) == registerPending(c) \/ (c.pc = "put" /\ put(c, "done"))

\* checkFresh touches a pending row with the clock of the attempt.
checkFresh(c) ==
  /\ c.pc = "sign"
  /\ ledger' = IF ledger[c.key].state = "pending"
               THEN [ledger EXCEPT ![c.key] = pending(c.now)] ELSE ledger
  /\ IF ledger[c.key].state = "retired" THEN leave(c) ELSE become(c, [c EXCEPT !.pc = "read"])
  /\ UNCHANGED <<day, objects, references, sweeps, checkpoint, bounds>>

\* The named object is read and proved; the store may be unavailable.
verifySignatureAssetReference(c) ==
  /\ c.pc = "read"
  /\ leave(c) \/ (objects[c.key] # Absent /\ become(c, [c EXCEPT !.pc = "publish"]))
  /\ UNCHANGED <<day, objects, ledger, references, sweeps, checkpoint, bounds>>

\* Slip: the bind looks at pending rows only and does not look for a tombstone.
publishSign_unchecked(c) ==
  /\ c.pc = "publish"
  /\ leave(c)
  /\ ledger' = IF ledger[c.key].state \in {"missing", "pending"}
               THEN [ledger EXCEPT ![c.key] = bound] ELSE ledger
  /\ references' = references \cup {c.key}
  /\ UNCHANGED <<day, objects, sweeps, checkpoint, bounds>>

\* publishSign binds the row and writes the field value in one transaction, or
\* rolls back on a tombstone.
publishSign(c) ==
  /\ c.pc = "publish"
  /\ leave(c)
  /\ IF ledger[c.key].state = "retired" THEN UNCHANGED <<ledger, references>>
     ELSE /\ ledger' = [ledger EXCEPT ![c.key] = bound]
          /\ references' = references \cup {c.key}
  /\ UNCHANGED <<day, objects, sweeps, checkpoint, bounds>>

sign(c) == checkFresh(c) \/ verifySignatureAssetReference(c) \/ publishSign(c)

\* A DOCX import or a PDF upload: the object, then the row that names it, which
\* may be refused.
upload(c) ==
  \/ c.pc = "upload" /\ put(c, "insert")
  \/ /\ c.pc = "insert"
     /\ leave(c)
     /\ references' \in {references, references \cup {c.key}}
     /\ UNCHANGED <<day, objects, ledger, sweeps, checkpoint, bounds>>

\* A conversion job ends and lets go of its source.
release(k) ==
  /\ k \in references /\ references' = references \ {k}
  /\ UNCHANGED <<day, objects, ledger, clients, sweeps, checkpoint, bounds>>

-----------------------------------------------------------------------------
step(s, rec) == sweeps' = [sweeps EXCEPT ![s] = rec]

\* The sweep reads its clock and its checkpoint.
beginSweep(s) ==
  /\ sweeps[s].pc = "idle"
  /\ step(s, [idle EXCEPT !.pc = "list", !.now = day, !.stored = checkpoint])
  /\ UNCHANGED <<day, objects, ledger, references, clients, checkpoint, bounds>>

\* The first objects after the checkpoint.
page(after) ==
  LET listed == {k \in ObjectKeys : objects[k] # Absent /\ k > after}
  IN  {k \in listed : Cardinality({j \in listed : j <= k}) <= PageSize}

nextStartAfter(after) ==
  LET more == \E k \in ObjectKeys \ page(after) : objects[k] # Absent /\ k > after
  IN  IF more THEN Max(page(after)) ELSE 0

\* One list page, of which objects within the grace period are passed over.
listObjects(s) ==
  LET w == sweeps[s]
  IN  /\ w.pc = "list"
      /\ step(s, [w EXCEPT !.pc = "lookup", !.next = nextStartAfter(w.stored),
                           !.batch = {k \in page(w.stored) : objects[k] < w.now}])
      /\ UNCHANGED <<day, objects, ledger, references, clients, checkpoint, bounds>>

\* filterReferencedKeys.
filterReferencedKeys(s) ==
  LET w == sweeps[s]
  IN  /\ w.pc = "lookup"
      /\ step(s, [w EXCEPT !.pc = "retire", !.batch = (@ \ references) \cap SigKeys,
                           !.deletable = (w.batch \ references) \cap DocKeys])
      /\ UNCHANGED <<day, objects, ledger, references, clients, checkpoint, bounds>>

retirement(k, now) ==
  IF ledger[k].state = "missing" THEN IF k \in references THEN bound ELSE retired
  ELSE IF ledger[k].state = "pending" /\ ledger[k].touched < now /\ k \notin references THEN retired
  ELSE ledger[k]

\* Slip: what the lookup found unreferenced is deleted whatever the ledger says.
retireOrphans_all(s) ==
  LET w == sweeps[s]
      after == [k \in SigKeys |-> IF k \in w.batch THEN retirement(k, w.now) ELSE ledger[k]]
  IN  /\ w.pc = "retire"
      /\ ledger' = after
      /\ step(s, [w EXCEPT !.pc = "delete", !.batch = {}, !.deletable = @ \cup w.batch])
      /\ UNCHANGED <<day, objects, references, clients, checkpoint, bounds>>

\* retireOrphans: the tombstones commit before anything is deleted, and only
\* tombstoned signatures will be.
retireOrphans(s) ==
  LET w == sweeps[s]
      after == [k \in SigKeys |-> IF k \in w.batch THEN retirement(k, w.now) ELSE ledger[k]]
  IN  /\ w.pc = "retire"
      /\ ledger' = after
      /\ step(s, [w EXCEPT !.pc = "delete", !.batch = {},
                           !.deletable = @ \cup {k \in w.batch : after[k].state = "retired"}])
      /\ UNCHANGED <<day, objects, references, clients, checkpoint, bounds>>

\* deleteMany, which may fail with some of the objects gone and ends the sweep
\* before its checkpoint.
deleteMany(s) ==
  LET w == sweeps[s]
  IN  /\ w.pc = "delete"
      /\ \/ /\ objects' = [k \in ObjectKeys |-> IF k \in w.deletable THEN Absent ELSE objects[k]]
            /\ step(s, [w EXCEPT !.pc = "pending", !.deletable = {}])
            /\ UNCHANGED faults
         \/ /\ faults < MaxFaults /\ faults' = faults + 1
            /\ \E gone \in SUBSET w.deletable :
                 objects' = [k \in ObjectKeys |-> IF k \in gone THEN Absent ELSE objects[k]]
            /\ step(s, idle)
      /\ UNCHANGED <<day, ledger, references, clients, checkpoint, begun>>

stalePending(k, now) == ledger[k].state = "pending" /\ ledger[k].touched < now

\* listPendingBefore, and the head of each object.
listPendingBefore(s) ==
  LET w == sweeps[s]
  IN  /\ w.pc = "pending"
      /\ step(s, [w EXCEPT !.pc = "abandon",
                           !.batch = {k \in SigKeys : stalePending(k, w.now)
                                                      /\ objects[k] = Absent}])
      /\ UNCHANGED <<day, objects, ledger, references, clients, checkpoint, bounds>>

\* retireAbandonedRegistrations looks at the touch again.
retireAbandonedRegistrations(s) ==
  LET w == sweeps[s]
  IN  /\ w.pc = "abandon"
      /\ ledger' = [k \in SigKeys |-> IF k \in w.batch /\ stalePending(k, w.now)
                                      THEN retired ELSE ledger[k]]
      /\ step(s, [w EXCEPT !.pc = "checkpoint", !.batch = {}])
      /\ UNCHANGED <<day, objects, references, clients, checkpoint, bounds>>

\* compareAndSwapLastObjectKey; a lost race is reported and left at that.
compareAndSwapLastObjectKey(s) ==
  LET w == sweeps[s]
  IN  /\ w.pc = "checkpoint"
      /\ checkpoint' = IF checkpoint = w.stored THEN w.next ELSE checkpoint
      /\ step(s, idle)
      /\ UNCHANGED <<day, objects, ledger, references, clients, bounds>>

sweep(s) ==
  \/ beginSweep(s) \/ listObjects(s) \/ filterReferencedKeys(s) \/ retireOrphans(s)
  \/ deleteMany(s) \/ listPendingBefore(s) \/ retireAbandonedRegistrations(s)
  \/ compareAndSwapLastObjectKey(s)

sweepDies(s) ==
  /\ faults < MaxFaults /\ faults' = faults + 1
  /\ sweeps[s].pc # "idle" /\ step(s, idle)
  /\ UNCHANGED <<day, objects, ledger, references, clients, checkpoint, begun>>

dayPasses ==
  /\ day < MaxDays /\ day' = day + 1
  /\ UNCHANGED <<objects, ledger, references, clients, sweeps, checkpoint, bounds>>

-----------------------------------------------------------------------------
\* Objects may be there from before the ledger, and left over from uploads
\* whose row was refused.
Init ==
  /\ day = 1
  /\ objects \in [ObjectKeys -> {Absent, 1}]
  /\ ledger = [k \in SigKeys |-> missing]
  /\ references = {} /\ clients = {} /\ checkpoint = 0
  /\ sweeps = [s \in Sweepers |-> idle]
  /\ begun = 0 /\ faults = 0

Next ==
  \/ \E k \in SigKeys : request(k, "register") \/ request(k, "sign")
  \/ \E k \in DocKeys : request(k, "upload") \/ release(k)
  \/ \E c \in clients : store(c) \/ sign(c) \/ upload(c)
  \/ \E s \in Sweepers : sweep(s) \/ sweepDies(s)
  \/ dayPasses

Spec == Init /\ [][Next]_vars

\* Sweeps are scheduled, and their steps and the clock go on.
FairStep(i) ==
  \/ i = 1 /\ dayPasses
  \/ i = 2 /\ \E s \in Sweepers : sweep(s)

Fairness == \A i \in 1..2 : WF_vars(FairStep(i))

FairSpec == Spec /\ Fairness

-----------------------------------------------------------------------------
\* The drawing behind a signature that was accepted is there: no sweep that
\* listed the key before, during or after the upload and the signing deletes
\* it.  About registerPending, checkFresh, the bind in publishSign, and
\* retireOrphans before deleteMany.
SignedAssetsKept == \A k \in references \cap SigKeys : objects[k] # Absent

\* A bound row stays bound and a tombstone stays a tombstone, and whoever signs
\* finds its own row bound: the sweep and a signing never both succeed on one
\* key.  About the guarded statements on signature_asset.
LedgerDecidesOnce ==
  [][\A k \in SigKeys :
       /\ ledger[k].state \in {"bound", "retired"} => ledger'[k] = ledger[k]
       /\ k \in references' => ledger'[k] = bound]_vars

orphaned(k) ==
  /\ objects[k] \in 1 .. (MaxDays - 1) /\ k \notin references
  /\ k \in SigKeys => ledger[k].touched < MaxDays

\* An object nothing points to does not stay: the checkpoint takes the sweep
\* past pages of live objects and back to the start, although sweeps overlap,
\* lose the race for the checkpoint, die, or fail to delete.  About sweep and
\* nextStartAfter.
OrphansCollected == \A k \in ObjectKeys : []<>~orphaned(k)
=============================================================================
