------------------------- MODULE ObjectRetentionProofs -------------------------
(***************************************************************************)
(* Proofs about ObjectRetention: for any number of signatures, requests    *)
(* and overlapping sweeps, every page size and every number of faults.     *)
(***************************************************************************)
EXTENDS ObjectRetention, TLAPS

LedgerRow == {missing, bound, retired} \cup {pending(n) : n \in Nat}

SigSteps == {"register", "put", "sign", "read", "publish"}

Client == [id : Nat, key : SigKeys, now : Nat, pc : SigSteps]
            \cup [id : Nat, key : DocKeys, now : Nat, pc : {"upload", "insert"}]

\* Where a scan may stand: at the start, or after the last key of a page.
Places == {0} \cup {Max(S) : S \in SUBSET ObjectKeys}

Sweep == [pc : {"idle", "list", "lookup", "retire", "delete", "pending", "abandon", "checkpoint"},
          now : Nat, stored : Places, next : Places, batch : SUBSET ObjectKeys, deletable : SUBSET ObjectKeys]

Typed ==
  /\ day \in Nat \ {0} /\ begun \in Nat
  /\ objects \in [ObjectKeys -> Nat]
  /\ ledger \in [SigKeys -> LedgerRow]
  /\ references \subseteq ObjectKeys
  /\ clients \subseteq Client
  /\ sweeps \in [Sweepers -> Sweep]
  /\ checkpoint \in Places

\* A signature in use has its row bound.
ReferencesBound == \A k \in references \cap SigKeys : ledger[k] = bound

\* A sweep is about to delete tombstoned signatures only.
DeletesRetired ==
  \A s \in Sweepers : \A k \in sweeps[s].deletable \cap SigKeys : ledger[k] = retired

\* Since a signing read its object, nobody deleted it unless the row it is
\* about to bind has become a tombstone.
ReadStillThere ==
  \A c \in clients : c.pc = "publish" => objects[c.key] # Absent \/ ledger[c.key] = retired

Inv == Typed /\ ReferencesBound /\ DeletesRetired /\ ReadStillThere /\ SignedAssetsKept

-----------------------------------------------------------------------------
\* The ledger's states are told apart by their names.
LEMMA Rows ==
  /\ missing \in LedgerRow /\ bound \in LedgerRow /\ retired \in LedgerRow
  /\ \A n \in Nat : pending(n) \in LedgerRow
  /\ bound # retired
  /\ \A row \in LedgerRow : /\ row.state = "bound" <=> row = bound
                            /\ row.state = "retired" <=> row = retired
PROOF
<1>1. bound.state = "bound" /\ retired.state = "retired" /\ missing.state = "missing"
  BY DEF bound, retired, missing
<1>2. \A n : pending(n).state = "pending"
  BY DEF pending
<1> QED
  BY <1>1, <1>2 DEF LedgerRow

LEMMA KeySets ==
  /\ SigKeys \subseteq ObjectKeys /\ DocKeys \subseteq ObjectKeys /\ ObjectKeys = SigKeys \cup DocKeys
  /\ SigKeys \cap DocKeys = {} /\ Absent \in Nat
PROOF BY RetentionConstants DEF ObjectKeys, Absent

\* What every step does: a decided row stays, a new use is bound over an object
\* that is there, an object goes only behind a tombstone, and a signing gets to
\* its bind past an object that is there.
DecidedStays ==
  \A k \in SigKeys : ledger[k] \in {bound, retired} => ledger'[k] = ledger[k]

UsesBound ==
  \A k \in references' \cap SigKeys :
    k \in references \/ (ledger'[k] = bound /\ objects[k] # Absent)

GoneRetired ==
  \A k \in SigKeys : objects[k] # Absent => objects'[k] # Absent \/ ledger[k] = retired

ReadsFound ==
  \A c \in clients' : c \in clients \/ (c.pc = "publish" => objects[c.key] # Absent)

Sound == Typed' /\ DecidedStays /\ UsesBound /\ GoneRetired /\ ReadsFound /\ DeletesRetired'

LEMMA SoundKeeps ==
  ASSUME Inv, Sound
  PROVE  Inv'
PROOF
<1>1. ReferencesBound'
  BY DEF Inv, Sound, ReferencesBound, UsesBound, DecidedStays
<1>2. ReadStillThere'
  <2> SUFFICES ASSUME NEW c \in clients', c.pc = "publish"
               PROVE  objects'[c.key] # Absent \/ ledger'[c.key] = retired
    BY DEF ReadStillThere
  <2>1. c.key \in SigKeys
    BY DEF Sound, Typed, Client, SigSteps
  <2>2. objects[c.key] # Absent \/ ledger[c.key] = retired
    BY DEF Sound, ReadsFound, Inv, ReadStillThere
  <2> QED
    BY <2>1, <2>2 DEF Sound, GoneRetired, DecidedStays
<1>3. SignedAssetsKept'
  <2> SUFFICES ASSUME NEW k \in references' \cap SigKeys
               PROVE  objects'[k] # Absent
    BY DEF SignedAssetsKept
  <2>1. ledger'[k] = bound /\ objects[k] # Absent
    BY <1>1 DEF Sound, UsesBound, Inv, SignedAssetsKept, ReferencesBound
  <2>2. ledger[k] # retired
    BY <2>1, Rows DEF Sound, DecidedStays
  <2> QED
    BY <2>1, <2>2 DEF Sound, GoneRetired
<1> QED
  BY <1>1, <1>2, <1>3 DEF Inv, Sound

-----------------------------------------------------------------------------
\* The parts of a step that leaves a variable alone.
LEMMA LedgerSame ==
  ASSUME Inv, UNCHANGED <<ledger, references, sweeps>>
  PROVE  DecidedStays /\ UsesBound /\ DeletesRetired'
PROOF BY DEF Inv, DecidedStays, UsesBound, DeletesRetired

LEMMA ObjectsSame ==
  ASSUME UNCHANGED objects
  PROVE  GoneRetired
PROOF BY DEF GoneRetired

LEMMA ClientsSame ==
  ASSUME clients' \subseteq clients
  PROVE  ReadsFound
PROOF BY DEF ReadsFound

\* A signing client stays one when it moves to another of its steps.
LEMMA ClientMoves ==
  ASSUME NEW c \in Client
  PROVE  /\ \A pc \in SigSteps : c.pc \in SigSteps =>
              LET d == [c EXCEPT !.pc = pc] IN d \in Client /\ d.pc = pc /\ d.key = c.key
         /\ c.key \in DocKeys => [c EXCEPT !.pc = "insert"] \in Client
         /\ c.pc \in SigSteps <=> c.key \in SigKeys
         /\ c.pc \in {"upload", "insert"} <=> c.key \in DocKeys
         /\ c.key \in ObjectKeys /\ c.now \in Nat
PROOF BY KeySets DEF Client, SigSteps

LEMMA InitInv == Init => Inv
PROOF
<1> SUFFICES ASSUME Init PROVE Inv
  OBVIOUS
<1>1. Typed
  <2>1. objects \in [ObjectKeys -> Nat]
    BY KeySets DEF Init
  <2>2. ledger \in [SigKeys -> LedgerRow]
    BY Rows DEF Init
  <2>3. sweeps \in [Sweepers -> Sweep]
    BY DEF Init, idle, Sweep, Places
  <2> QED
    BY <2>1, <2>2, <2>3 DEF Init, Typed, Places
<1>2. DeletesRetired
  BY DEF Init, DeletesRetired, idle
<1> QED
  BY <1>1, <1>2 DEF Init, Inv, ReferencesBound, ReadStillThere, SignedAssetsKept

-----------------------------------------------------------------------------
\* Requests.
LEMMA RequestSound ==
  ASSUME Inv, NEW k \in ObjectKeys, NEW op,
         \/ k \in SigKeys /\ op \in {"register", "sign"}
         \/ k \in DocKeys /\ op = "upload",
         request(k, op)
  PROVE  Sound
PROOF
<1> DEFINE c == [id |-> begun, key |-> k, now |-> day, pc |-> op]
<1>1. c \in Client /\ c.pc # "publish"
  BY DEF Client, SigSteps, Inv, Typed
<1>2. clients' = clients \cup {c} /\ begun' = begun + 1
  BY DEF request
<1> HIDE DEF c
<1>3. Typed'
  BY <1>1, <1>2 DEF request, Inv, Typed
<1>4. ReadsFound
  BY <1>1, <1>2 DEF ReadsFound
<1> QED
  BY <1>3, <1>4, LedgerSame, ObjectsSame DEF request, Sound

LEMMA RegisterSound ==
  ASSUME Inv, NEW c \in clients, registerPending(c)
  PROVE  Sound
PROOF
<1>1. c \in Client /\ c.key \in SigKeys /\ [c EXCEPT !.pc = "put"] \in Client
      /\ [c EXCEPT !.pc = "put"].pc # "publish"
  <2>1. c \in Client /\ c.pc \in SigSteps
    BY DEF Inv, Typed, registerPending, SigSteps
  <2> QED
    BY <2>1, ClientMoves DEF SigSteps
<1>2. ledger' \in [SigKeys -> LedgerRow] /\ DecidedStays
  BY <1>1, Rows DEF registerPending, Inv, Typed, DecidedStays, missing, bound, retired, pending
<1>3. clients' \subseteq clients \cup {[c EXCEPT !.pc = "put"]}
  BY DEF registerPending, become, leave
<1>4. Typed'
  BY <1>1, <1>2, <1>3 DEF registerPending, Inv, Typed, bounds
<1>5. ReadsFound
  BY <1>1, <1>3 DEF ReadsFound
<1>6. UsesBound /\ DeletesRetired'
  BY <1>2, Rows DEF registerPending, UsesBound, Inv, DeletesRetired, DecidedStays, Typed, Sweep, ObjectKeys
<1> QED
  BY <1>2, <1>4, <1>5, <1>6, ObjectsSame DEF registerPending, Sound

LEMMA PutSound ==
  ASSUME Inv, NEW c \in clients, NEW pc \in {"done", "insert"}, put(c, pc),
         pc = "insert" => c.key \in DocKeys
  PROVE  Sound
PROOF
<1>1. c \in Client /\ c.key \in ObjectKeys /\ UNCHANGED <<day, ledger, references, sweeps, checkpoint, bounds>>
  BY ClientMoves DEF Inv, Typed, put
<1>2. clients' \subseteq clients
      \/ (c.key \in DocKeys /\ clients' \subseteq clients \cup {[c EXCEPT !.pc = "insert"]})
  BY DEF put, become, leave
<1>3. clients' \subseteq Client /\ ReadsFound
  <2>1. CASE clients' \subseteq clients
    BY <2>1, ClientsSame DEF Inv, Typed
  <2>2. CASE c.key \in DocKeys /\ clients' \subseteq clients \cup {[c EXCEPT !.pc = "insert"]}
    <3>1. [c EXCEPT !.pc = "insert"] \in Client /\ [c EXCEPT !.pc = "insert"].pc # "publish"
      BY <1>1, <2>2, ClientMoves DEF Client
    <3> QED
      BY <2>2, <3>1 DEF Inv, Typed, ReadsFound
  <2> QED
    BY <1>2, <2>1, <2>2
<1>4. objects' \in [ObjectKeys -> Nat] /\ GoneRetired
  <2>1. CASE UNCHANGED objects
    BY <2>1, ObjectsSame DEF Inv, Typed
  <2>2. CASE objects' = [objects EXCEPT ![c.key] = day]
    BY <1>1, <2>2 DEF Inv, Typed, GoneRetired, Absent, ObjectKeys
  <2> QED
    BY <2>1, <2>2 DEF put
<1> QED
  BY <1>1, <1>3, <1>4, LedgerSame DEF Sound, Inv, Typed, bounds

LEMMA CheckFreshSound ==
  ASSUME Inv, NEW c \in clients, checkFresh(c)
  PROVE  Sound
PROOF
<1>1. c \in Client /\ c.key \in SigKeys /\ c.now \in Nat /\ [c EXCEPT !.pc = "read"] \in Client
      /\ [c EXCEPT !.pc = "read"].pc # "publish"
  <2>1. c \in Client /\ c.pc \in SigSteps
    BY DEF Inv, Typed, checkFresh, SigSteps
  <2> QED
    BY <2>1, ClientMoves DEF SigSteps
<1>2. ledger' \in [SigKeys -> LedgerRow] /\ DecidedStays
  BY <1>1, Rows DEF checkFresh, Inv, Typed, DecidedStays, missing, bound, retired, pending
<1>3. clients' \subseteq clients \cup {[c EXCEPT !.pc = "read"]}
  BY DEF checkFresh, become, leave
<1>4. Typed'
  BY <1>1, <1>2, <1>3 DEF checkFresh, Inv, Typed, bounds
<1>5. ReadsFound
  BY <1>1, <1>3 DEF ReadsFound
<1>6. UsesBound /\ DeletesRetired'
  BY <1>2, Rows DEF checkFresh, UsesBound, Inv, DeletesRetired, DecidedStays, Typed, Sweep, ObjectKeys
<1> QED
  BY <1>2, <1>4, <1>5, <1>6, ObjectsSame DEF checkFresh, Sound

LEMMA VerifySound ==
  ASSUME Inv, NEW c \in clients, verifySignatureAssetReference(c)
  PROVE  Sound
PROOF
<1> DEFINE d == [c EXCEPT !.pc = "publish"]
<1>1. c \in Client /\ d \in Client /\ d.key = c.key
  <2>1. c \in Client /\ c.pc \in SigSteps
    BY DEF Inv, Typed, verifySignatureAssetReference, SigSteps
  <2> QED
    BY <2>1, ClientMoves DEF SigSteps
<1>2. clients' \subseteq clients
      \/ (objects[c.key] # Absent /\ clients' \subseteq clients \cup {d})
  BY DEF verifySignatureAssetReference, become, leave
<1>3. Typed'
  BY <1>1, <1>2 DEF verifySignatureAssetReference, Inv, Typed, bounds
<1>4. ReadsFound
  BY <1>1, <1>2 DEF ReadsFound
<1> QED
  BY <1>3, <1>4, LedgerSame, ObjectsSame DEF verifySignatureAssetReference, Sound

LEMMA PublishSound ==
  ASSUME Inv, NEW c \in clients, publishSign(c)
  PROVE  Sound
PROOF
<1>1. c \in Client /\ c.key \in SigKeys
  BY ClientMoves DEF Inv, Typed, publishSign, SigSteps
<1>2. clients' \subseteq clients /\ UNCHANGED <<day, objects, sweeps, checkpoint, bounds>>
  BY DEF publishSign, leave
<1>3. CASE UNCHANGED <<ledger, references>>
  BY <1>2, <1>3, LedgerSame, ObjectsSame, ClientsSame DEF Sound, Inv, Typed, bounds
<1>4. CASE /\ ledger[c.key].state # "retired"
           /\ ledger' = [ledger EXCEPT ![c.key] = bound]
           /\ references' = references \cup {c.key}
  <2>1. ledger[c.key] # retired
    BY <1>4 DEF retired
  <2>2. objects[c.key] # Absent
    BY <2>1 DEF Inv, ReadStillThere, publishSign
  <2>3. ledger' \in [SigKeys -> LedgerRow] /\ DecidedStays
    BY <1>1, <1>4, <2>1, Rows DEF Inv, Typed, DecidedStays
  <2>4. UsesBound
    BY <1>1, <1>4, <2>2 DEF UsesBound, Inv, Typed
  <2>5. DeletesRetired'
    BY <1>2, <2>3 DEF DeletesRetired, DecidedStays, Inv
  <2>6. Typed'
    BY <1>1, <1>2, <1>4, <2>3, KeySets DEF Inv, Typed, bounds
  <2> QED
    BY <1>2, <2>3, <2>4, <2>5, <2>6, ObjectsSame, ClientsSame DEF Sound
<1> QED
  BY <1>3, <1>4 DEF publishSign

LEMMA UploadSound ==
  ASSUME Inv, NEW c \in clients, upload(c)
  PROVE  Sound
PROOF
<1>1. c \in Client /\ c.key \in DocKeys
  BY ClientMoves DEF Inv, Typed, upload
<1>2. CASE put(c, "insert")
  BY <1>1, <1>2, PutSound
<1>3. CASE c.pc = "insert"
  <2>1. /\ UNCHANGED <<day, objects, ledger, sweeps, checkpoint, bounds>>
        /\ clients' \subseteq clients /\ references' \in {references, references \cup {c.key}}
    BY <1>3 DEF upload, leave
  <2>2. UsesBound /\ DecidedStays /\ DeletesRetired'
    BY <1>1, <2>1, KeySets DEF UsesBound, DecidedStays, DeletesRetired, Inv
  <2>3. Typed'
    BY <1>1, <2>1, KeySets DEF Inv, Typed, bounds
  <2> QED
    BY <2>1, <2>2, <2>3, ObjectsSame, ClientsSame DEF Sound
<1> QED
  BY <1>2, <1>3 DEF upload

LEMMA ReleaseSound ==
  ASSUME Inv, NEW k \in DocKeys, release(k)
  PROVE  Sound
PROOF
<1>1. Typed'
  BY DEF release, Inv, Typed, bounds
<1>2. UsesBound /\ DecidedStays /\ DeletesRetired'
  BY DEF release, UsesBound, DecidedStays, DeletesRetired, Inv
<1> QED
  BY <1>1, <1>2, ObjectsSame, ClientsSame DEF release, Sound

-----------------------------------------------------------------------------
\* Sweeps.
LEMMA SweepReplaced ==
  ASSUME Inv, NEW s \in Sweepers, NEW rec \in Sweep, step(s, rec), DecidedStays,
         \A k \in rec.deletable \cap SigKeys : ledger'[k] = retired
  PROVE  sweeps' \in [Sweepers -> Sweep] /\ DeletesRetired'
PROOF
<1>1. sweeps' = [sweeps EXCEPT ![s] = rec] /\ sweeps \in [Sweepers -> Sweep]
  BY DEF step, Inv, Typed
<1>2. \A t \in Sweepers : sweeps'[t] = IF t = s THEN rec ELSE sweeps[t]
  BY <1>1
<1>3. ASSUME NEW t \in Sweepers, NEW k \in sweeps'[t].deletable \cap SigKeys
      PROVE  ledger'[k] = retired
  <2>1. CASE t = s
    BY <1>2, <1>3, <2>1
  <2>2. CASE t # s
    BY <1>2, <1>3, <2>2 DEF Inv, DeletesRetired, DecidedStays
  <2> QED
    BY <2>1, <2>2
<1> QED
  BY <1>1, <1>3 DEF DeletesRetired

\* A step of a sweep that changes nothing but the sweep.
LEMMA SweepAlone ==
  ASSUME Inv, NEW s \in Sweepers, NEW rec \in Sweep, step(s, rec),
         \A k \in rec.deletable \cap SigKeys : k \in sweeps[s].deletable,
         UNCHANGED <<day, objects, ledger, references, clients, begun>>, checkpoint' \in Places
  PROVE  Sound
PROOF
<1>1. DecidedStays /\ UsesBound /\ GoneRetired /\ ReadsFound
  BY DEF DecidedStays, UsesBound, GoneRetired, ReadsFound
<1>2. \A k \in rec.deletable \cap SigKeys : ledger'[k] = retired
  BY DEF Inv, DeletesRetired
<1> QED
  BY <1>1, <1>2, SweepReplaced DEF Sound, Inv, Typed

LEMMA IdleSweep == idle \in Sweep /\ idle.deletable = {}
PROOF BY DEF idle, Sweep, Places

LEMMA ScanSound ==
  ASSUME Inv, NEW s \in Sweepers,
         beginSweep(s) \/ listObjects(s) \/ filterReferencedKeys(s) \/ listPendingBefore(s)
           \/ compareAndSwapLastObjectKey(s) \/ sweepDies(s)
  PROVE  Sound
PROOF
<1> DEFINE w == sweeps[s]
<1>0. w \in Sweep /\ day \in Nat /\ checkpoint \in Places
  BY DEF Inv, Typed
<1>1. CASE beginSweep(s)
  <2> DEFINE none == idle
  <2>1. none \in Sweep /\ none.deletable = {}
    BY IdleSweep
  <2> HIDE DEF none
  <2> DEFINE rec == [none EXCEPT !.pc = "list", !.now = day, !.stored = checkpoint]
  <2>2. rec \in Sweep /\ rec.deletable = {}
    BY <1>0, <2>1 DEF Sweep
  <2>3. step(s, rec)
    BY <1>1 DEF beginSweep, none
  <2> HIDE DEF rec
  <2> QED
    BY <1>0, <1>1, <2>2, <2>3, SweepAlone DEF beginSweep, bounds
<1>2. CASE listObjects(s)
  <2>1. nextStartAfter(w.stored) \in Places
    BY DEF nextStartAfter, page, Places
  <2> DEFINE next == nextStartAfter(w.stored)
             batch == {k \in page(w.stored) : objects[k] < w.now}
             rec == [w EXCEPT !.pc = "lookup", !.next = next, !.batch = batch]
  <2>2. batch \in SUBSET ObjectKeys
    BY DEF page
  <2>3. step(s, rec)
    BY <1>2 DEF listObjects
  <2> HIDE DEF next, batch
  <2>4. rec \in Sweep /\ rec.deletable = w.deletable
    BY <1>0, <2>1, <2>2 DEF Sweep, next
  <2> HIDE DEF rec
  <2> QED
    BY <1>0, <1>2, <2>3, <2>4, SweepAlone DEF listObjects, bounds
<1>3. CASE filterReferencedKeys(s)
  <2> DEFINE batch == (w.batch \ references) \cap SigKeys
             docs == (w.batch \ references) \cap DocKeys
             rec == [w EXCEPT !.pc = "retire", !.batch = batch, !.deletable = docs]
  <2>1. batch \in SUBSET ObjectKeys /\ docs \in SUBSET ObjectKeys /\ docs \cap SigKeys = {}
    BY KeySets
  <2>2. step(s, rec)
    BY <1>3 DEF filterReferencedKeys
  <2> HIDE DEF batch, docs
  <2>3. rec \in Sweep /\ rec.deletable = docs
    BY <1>0, <2>1 DEF Sweep
  <2> HIDE DEF rec
  <2> QED
    BY <1>0, <1>3, <2>1, <2>2, <2>3, SweepAlone DEF filterReferencedKeys, bounds
<1>4. CASE listPendingBefore(s)
  <2> DEFINE batch == {k \in SigKeys : stalePending(k, w.now) /\ objects[k] = Absent}
             rec == [w EXCEPT !.pc = "abandon", !.batch = batch]
  <2>1. batch \in SUBSET ObjectKeys
    BY KeySets
  <2>2. step(s, rec)
    BY <1>4 DEF listPendingBefore
  <2> HIDE DEF batch
  <2>3. rec \in Sweep /\ rec.deletable = w.deletable
    BY <1>0, <2>1 DEF Sweep
  <2> HIDE DEF rec
  <2> QED
    BY <1>0, <1>4, <2>2, <2>3, SweepAlone DEF listPendingBefore, bounds
<1>5. CASE compareAndSwapLastObjectKey(s)
  <2>1. checkpoint' \in Places
    BY <1>0, <1>5 DEF compareAndSwapLastObjectKey, Sweep
  <2> QED
    BY <1>5, <2>1, IdleSweep, SweepAlone DEF compareAndSwapLastObjectKey, bounds
<1>6. CASE sweepDies(s)
  BY <1>0, <1>6, IdleSweep, SweepAlone DEF sweepDies
<1> QED
  BY <1>1, <1>2, <1>3, <1>4, <1>5, <1>6

\* What a sweep finds undecided it retires, or binds if it is in use.
LEMMA RetirementType ==
  ASSUME Inv, NEW k \in SigKeys, NEW n \in Nat
  PROVE  /\ retirement(k, n) \in LedgerRow
         /\ ledger[k] \in {bound, retired} => retirement(k, n) = ledger[k]
PROOF BY Rows DEF retirement, Inv, Typed, missing, bound, retired, pending

LEMMA RetireSound ==
  ASSUME Inv, NEW s \in Sweepers, retireOrphans(s)
  PROVE  Sound
PROOF
<1> DEFINE w == sweeps[s]
           after == [k \in SigKeys |-> IF k \in w.batch THEN retirement(k, w.now) ELSE ledger[k]]
           gone == w.deletable \cup {k \in w.batch : after[k].state = "retired"}
           rec == [w EXCEPT !.pc = "delete", !.batch = {}, !.deletable = gone]
<1>0. w \in Sweep /\ w.now \in Nat /\ w.batch \subseteq ObjectKeys /\ w.deletable \subseteq ObjectKeys
  BY DEF Inv, Typed, Sweep
<1>1. ledger' = after /\ step(s, rec)
  BY DEF retireOrphans
<1>2. after \in [SigKeys -> LedgerRow]
      /\ \A k \in SigKeys : ledger[k] \in {bound, retired} => after[k] = ledger[k]
  BY <1>0, RetirementType DEF Inv, Typed
<1>3. DecidedStays
  BY <1>1, <1>2 DEF DecidedStays
<1>4. gone \in SUBSET ObjectKeys /\ \A k \in gone \cap SigKeys : after[k] = retired
  BY <1>0, <1>2, Rows DEF Inv, DeletesRetired
<1> HIDE DEF after, gone
<1>5. rec \in Sweep /\ rec.deletable = gone
  BY <1>0, <1>4 DEF Sweep
<1> HIDE DEF rec
<1>6. sweeps' \in [Sweepers -> Sweep] /\ DeletesRetired'
  BY <1>1, <1>3, <1>4, <1>5, SweepReplaced
<1>7. UsesBound /\ GoneRetired /\ ReadsFound
  BY DEF retireOrphans, UsesBound, GoneRetired, ReadsFound
<1> QED
  BY <1>1, <1>2, <1>3, <1>6, <1>7 DEF retireOrphans, Sound, Inv, Typed, bounds

LEMMA AbandonSound ==
  ASSUME Inv, NEW s \in Sweepers, retireAbandonedRegistrations(s)
  PROVE  Sound
PROOF
<1> DEFINE w == sweeps[s]
           rec == [w EXCEPT !.pc = "checkpoint", !.batch = {}]
<1>0. w \in Sweep
  BY DEF Inv, Typed
<1>1. ledger' \in [SigKeys -> LedgerRow] /\ DecidedStays
  BY Rows DEF retireAbandonedRegistrations, stalePending, DecidedStays, Inv, Typed, bound, retired
<1>2. rec \in Sweep /\ rec.deletable = w.deletable
  BY <1>0 DEF Sweep
<1>3. step(s, rec)
  BY DEF retireAbandonedRegistrations
<1> HIDE DEF rec
<1>4. sweeps' \in [Sweepers -> Sweep] /\ DeletesRetired'
  BY <1>1, <1>2, <1>3, SweepReplaced DEF Inv, DeletesRetired, DecidedStays
<1>5. UsesBound /\ GoneRetired /\ ReadsFound
  BY DEF retireAbandonedRegistrations, UsesBound, GoneRetired, ReadsFound
<1> QED
  BY <1>1, <1>4, <1>5 DEF retireAbandonedRegistrations, Sound, Inv, Typed, bounds

LEMMA DeleteSound ==
  ASSUME Inv, NEW s \in Sweepers, deleteMany(s)
  PROVE  Sound
PROOF
<1> DEFINE w == sweeps[s]
           done == [w EXCEPT !.pc = "pending", !.deletable = {}]
<1>0. w \in Sweep /\ done \in Sweep /\ done.deletable = {}
  BY DEF Inv, Typed, Sweep
<1>1. UNCHANGED <<day, ledger, references, clients, checkpoint, begun>>
  BY DEF deleteMany
<1>2. PICK gone \in SUBSET w.deletable :
        objects' = [k \in ObjectKeys |-> IF k \in gone THEN Absent ELSE objects[k]]
  BY DEF deleteMany
<1>3. \E rec \in {done, idle} : step(s, rec)
  BY DEF deleteMany
<1> HIDE DEF done
<1>4. DecidedStays /\ UsesBound /\ ReadsFound
  BY <1>1 DEF DecidedStays, UsesBound, ReadsFound
<1>5. sweeps' \in [Sweepers -> Sweep] /\ DeletesRetired'
  BY <1>0, <1>3, <1>4, IdleSweep, SweepReplaced
<1>6. objects' \in [ObjectKeys -> Nat] /\ GoneRetired
  BY <1>2, KeySets DEF Inv, Typed, DeletesRetired, GoneRetired
<1> QED
  BY <1>1, <1>4, <1>5, <1>6 DEF Sound, Inv, Typed

-----------------------------------------------------------------------------
LEMMA StepSound ==
  ASSUME Inv, [Next]_vars
  PROVE  Sound
PROOF
<1>1. ASSUME NEW k \in SigKeys, request(k, "register") \/ request(k, "sign") PROVE Sound
  BY <1>1, KeySets, RequestSound
<1>2. ASSUME NEW k \in DocKeys, request(k, "upload") \/ release(k) PROVE Sound
  BY <1>2, KeySets, RequestSound, ReleaseSound
<1>3. ASSUME NEW c \in clients, store(c) \/ sign(c) \/ upload(c) PROVE Sound
  BY <1>3, RegisterSound, PutSound, CheckFreshSound, VerifySound, PublishSound, UploadSound
  DEF store, sign
<1>4. ASSUME NEW s \in Sweepers, sweep(s) \/ sweepDies(s) PROVE Sound
  BY <1>4, ScanSound, RetireSound, DeleteSound, AbandonSound DEF sweep
<1>5. CASE dayPasses \/ UNCHANGED vars
  <2>1. Typed'
    BY <1>5 DEF dayPasses, vars, bounds, Inv, Typed
  <2> QED
    BY <1>5, <2>1, LedgerSame, ObjectsSame, ClientsSame DEF dayPasses, vars, Sound
<1> QED
  BY <1>1, <1>2, <1>3, <1>4, <1>5 DEF Next

LEMMA SpecInv == Spec => []Inv
PROOF
<1>1. Inv /\ [Next]_vars => Inv'
  BY StepSound, SoundKeeps
<1> QED
  BY <1>1, InitInv, PTL DEF Spec

\* However many sweeps overlap, die or fail half-way, the drawing behind an
\* accepted signature is in the object store: registerPending and the bind of
\* publishSign against retireOrphans, whose tombstones precede every delete.
THEOREM AssetsKept == Spec => []SignedAssetsKept
PROOF
<1>1. Inv => SignedAssetsKept
  BY DEF Inv
<1> QED
  BY <1>1, SpecInv, PTL

\* A sweep and a signing never both succeed on one key: a bound row stays
\* bound, a tombstone stays, and every use finds its row bound.
THEOREM LedgerDecides == Spec => LedgerDecidesOnce
PROOF
<1>1. Inv /\ [Next]_vars =>
        [\A k \in SigKeys :
           /\ ledger[k].state \in {"bound", "retired"} => ledger'[k] = ledger[k]
           /\ k \in references' => ledger'[k] = bound]_vars
  <2> SUFFICES ASSUME Inv, [Next]_vars, NEW k \in SigKeys
               PROVE  /\ ledger[k].state \in {"bound", "retired"} => ledger'[k] = ledger[k]
                      /\ k \in references' => ledger'[k] = bound
    OBVIOUS
  <2>1. Sound /\ Inv'
    BY StepSound, SoundKeeps
  <2>2. ledger[k] \in LedgerRow
    BY DEF Inv, Typed
  <2> QED
    BY <2>1, <2>2, Rows DEF Inv, ReferencesBound, Sound, DecidedStays
<1> QED
  BY <1>1, SpecInv, PTL DEF Spec, LedgerDecidesOnce
=============================================================================
