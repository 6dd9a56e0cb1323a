------------------------- MODULE DocxConversionProofs --------------------------
(***************************************************************************)
(* Proofs about DocxConversion: for any number of request keys, workers,   *)
(* crashes, outlived leases and failures, and every number of attempts.    *)
(***************************************************************************)
EXTENDS DocxConversion, TLAPS

Errors == {"none", "integrity", "invalid", "idempotency_conflict", "concurrency_conflict", "transient"}

JobRow == [status : {"absent", "pending", "processing", "succeeded", "failed"},
         attempts : Nat, retryable : BOOLEAN, cause : Errors, stale : BOOLEAN,
         source : Sources \cup {None}, expected : Nat, result : Nat]

Worker == [id : JobIds, attempt : Nat,
           pc : {"read", "lookup", "check", "publish", "complete", "fail"},
           head : Nat, result : Nat, error : Errors]

Attempt == [id : JobIds, attempt : Nat,
            outcome : {"succeeded", "retryable_failed", "permanently_failed"}]

Typed ==
  /\ history \in Seq([key : Keys, source : Sources \cup {None}])
  /\ editable \in BOOLEAN /\ audit \in Nat
  /\ requests \subseteq [key : Keys, source : Sources, expected : Nat]
  /\ jobs \in [JobIds -> JobRow]
  /\ attempts \subseteq Attempt
  /\ workers \subseteq Worker

\* A draft key commits once.
KeysOnce == \A g, h \in 1..generation : history[g].key = history[h].key => g = h

\* A revision made of an upload is the one its job asked for.
RevisionsAsked ==
  \A g \in 1..generation :
    history[g].source # None =>
      /\ jobs[Import(history[g].key)].status # "absent"
      /\ sameRequest(jobs[Import(history[g].key)], g)

\* What a job will or does show as its result.
ResultOf(id, result) ==
  /\ \A k \in Keys : id = Import(k) => result \in committed(k) /\ sameRequest(jobs[id], result)
  /\ \A g \in Generations : id = Export(g) => result = g /\ docx(g) \in objects

JobsSound ==
  \A id \in JobIds :
    /\ jobs[id].status \in {"absent", "pending"} => jobs[id].attempts = 0
    /\ jobs[id].status = "succeeded" => ResultOf(id, jobs[id].result)
    /\ jobs[id].status # "absent" => \A g \in Generations : id = Export(g) => jobs[id].expected = g

WorkerOK(w) ==
  /\ jobs[w.id].status \notin {"absent", "pending"}
  /\ w.pc \in {"lookup", "check", "publish"} => w.id[1] = "import"
  /\ w.pc = "complete" => ResultOf(w.id, w.result)

WorkersSound == \A w \in workers : WorkerOK(w)

\* One record at most for an attempt, none newer than the job's last attempt,
\* and only the last may be final: then the job rests as the record says.
Recorded ==
  /\ \A a, b \in attempts : a.id = b.id /\ a.attempt = b.attempt => a = b
  /\ \A a \in attempts : a.outcome = "retryable_failed" => a.attempt < MaxAttempts
  /\ \A a \in attempts :
       LET j == jobs[a.id]
       IN  \/ a.attempt < j.attempts /\ a.outcome = "retryable_failed"
           \/ /\ a.attempt = j.attempts
              /\ \/ j.status = "succeeded" /\ a.outcome = "succeeded"
                 \/ j.status = "failed" /\ j.retryable /\ a.outcome = "retryable_failed"
                 \/ j.status = "failed" /\ ~j.retryable /\ a.outcome = "permanently_failed"
  /\ \A id \in JobIds :
       jobs[id].status \in {"succeeded", "failed"} =>
         \E a \in attempts : a.id = id /\ a.attempt = jobs[id].attempts

Inv == Typed /\ KeysOnce /\ RevisionsAsked /\ JobsSound /\ WorkersSound /\ Recorded

-----------------------------------------------------------------------------
LEMMA Ids ==
  /\ \A k \in Keys : Import(k) \in JobIds /\ Import(k)[1] = "import" /\ Import(k)[2] = k
  /\ \A g \in Generations : Export(g) \in JobIds /\ Export(g)[1] = "export"
  /\ \A id \in JobIds :
       \/ id[1] = "import" /\ id[2] \in Keys /\ id = Import(id[2])
       \/ id[1] = "export" /\ id[2] \in Generations /\ id = Export(id[2])
  /\ \A k, l : Import(k) = Import(l) => k = l
  /\ \A g, h : Export(g) = Export(h) => g = h
  /\ \A k, g : Import(k) # Export(g)
  /\ Generations \subseteq Nat
PROOF BY DEF Import, Export, JobIds, Generations

LEMMA NoJobType == NoJob \in JobRow /\ NoJob.attempts = 0 /\ NoJob.status = "absent"
PROOF BY DEF NoJob, JobRow, Errors, None

LEMMA InitInv == Init => Inv
PROOF
<1> SUFFICES ASSUME Init PROVE Inv
  OBVIOUS
<1>1. generation = 0 /\ Typed
  BY NoJobType DEF Init, Typed, generation
<1>2. JobsSound
  BY NoJobType DEF Init, JobsSound
<1>3. Recorded
  BY NoJobType DEF Init, Recorded
<1> QED
  BY <1>1, <1>2, <1>3 DEF Init, Inv, KeysOnce, RevisionsAsked, WorkersSound

-----------------------------------------------------------------------------
\* Revisions, uploads and the requests of jobs stay.
Grows ==
  /\ \A g \in 1..generation : g \in 1..generation' /\ history'[g] = history[g]
  /\ objects \subseteq objects'
  /\ \A id \in JobIds : jobs[id].status # "absent" =>
       /\ jobs'[id].status # "absent"
       /\ jobs'[id].source = jobs[id].source /\ jobs'[id].expected = jobs[id].expected

LEMMA ResultStays ==
  ASSUME Grows, NEW id \in JobIds, jobs[id].status # "absent", NEW result, ResultOf(id, result)
  PROVE  ResultOf(id, result)'
PROOF
<1>1. ASSUME NEW k \in Keys, id = Import(k)
      PROVE  result \in committed(k)' /\ sameRequest(jobs[id], result)'
  BY <1>1 DEF ResultOf, committed, sameRequest, Grows
<1>2. \A g \in Generations : id = Export(g) => result = g /\ docx(g) \in objects'
  BY DEF ResultOf, Grows
<1>3. UNCHANGED Import(id) /\ \A g : docx(g)' = docx(g)
  BY DEF Import, docx
<1> QED
  BY <1>1, <1>2, <1>3 DEF ResultOf, Import, Export

LEMMA WorkersKeep ==
  ASSUME Inv, Grows, NEW new, workers' \subseteq workers \cup new, \A u \in new : WorkerOK(u)',
         \A id \in JobIds : jobs[id].status \notin {"absent", "pending"} =>
                             jobs'[id].status \notin {"absent", "pending"}
  PROVE  WorkersSound'
PROOF
<1> SUFFICES ASSUME NEW w \in workers PROVE WorkerOK(w)'
  BY DEF WorkersSound
<1>1. w \in Worker /\ WorkerOK(w) /\ w.id \in JobIds
  BY DEF Inv, Typed, WorkersSound, Worker
<1>2. w.pc = "complete" => ResultOf(w.id, w.result)'
  BY <1>1, ResultStays DEF WorkerOK
<1> QED
  BY <1>1, <1>2 DEF WorkerOK

\* The draft gains no revision, or one under a fresh key; if it is made of an
\* upload, the upload and the generation are those of the key's job.
Gains(r) ==
  /\ r \in [key : Keys, source : Sources \cup {None}]
  /\ history' = Append(history, r)
  /\ committed(r.key) = {}
  /\ r.source # None => LET j == jobs[Import(r.key)]
                        IN  j.status # "absent" /\ j.source = r.source /\ j.expected = generation

LEMMA Gained ==
  ASSUME Typed, NEW r, Gains(r)
  PROVE  /\ history' \in Seq([key : Keys, source : Sources \cup {None}])
         /\ generation \in Nat /\ generation' = generation + 1
         /\ \A g \in 1..generation : history'[g] = history[g]
         /\ history'[generation + 1] = r
PROOF BY DEF Typed, Gains, generation

LEMMA HistorySame ==
  ASSUME Typed, UNCHANGED history
  PROVE  generation \in Nat /\ generation' = generation
PROOF BY DEF Typed, generation

LEMMA DraftKeeps ==
  ASSUME Inv, Grows, UNCHANGED history \/ \E r : Gains(r)
  PROVE  KeysOnce' /\ RevisionsAsked'
PROOF
<1>0. \A g \in 1..generation : history[g].key \in Keys
  <2> DEFINE Rev == [key : Keys, source : Sources \cup {None}]
  <2>1. history \in Seq(Rev)
    BY DEF Inv, Typed
  <2> HIDE DEF Rev
  <2>2. \A g \in 1..generation : history[g] \in Rev
    BY <2>1 DEF generation
  <2> QED
    BY <2>2 DEF Rev
<1>1. ASSUME NEW g \in 1..generation, history[g].source # None
      PROVE  /\ jobs'[Import(history[g].key)].status # "absent"
             /\ history[g].source = jobs'[Import(history[g].key)].source
             /\ g = jobs'[Import(history[g].key)].expected + 1
  BY <1>0, <1>1, Ids DEF Inv, RevisionsAsked, sameRequest, Grows
<1>2. CASE UNCHANGED history
  BY <1>1, <1>2, HistorySame DEF Inv, KeysOnce, RevisionsAsked, sameRequest, Import
<1>3. ASSUME NEW r, Gains(r) PROVE KeysOnce' /\ RevisionsAsked'
  <2>1. /\ generation \in Nat /\ generation' = generation + 1
        /\ \A g \in 1..generation : history'[g] = history[g]
        /\ history'[generation + 1] = r
    BY <1>3, Gained DEF Inv
  <2>2. \A g \in 1..generation : history[g].key # r.key
    BY <1>3 DEF Gains, committed
  <2>3. \A g \in 1..generation' : g \in 1..generation \/ g = generation + 1
    BY <2>1
  <2>4. KeysOnce'
    BY <2>1, <2>2, <2>3 DEF Inv, KeysOnce
  <2>5. r.source # None =>
          /\ jobs'[Import(r.key)].status # "absent"
          /\ r.source = jobs'[Import(r.key)].source
          /\ generation + 1 = jobs'[Import(r.key)].expected + 1
    <3>1. r.key \in Keys
      BY <1>3 DEF Gains
    <3> QED
      BY <1>3, <3>1, Ids DEF Gains, Grows
  <2>6. RevisionsAsked'
    BY <1>1, <2>1, <2>3, <2>5 DEF RevisionsAsked, sameRequest, Import
  <2> QED
    BY <2>4, <2>6
<1> QED
  BY <1>2, <1>3

-----------------------------------------------------------------------------
\* Steps that leave jobs and records alone.
LEMMA QuietStep ==
  ASSUME Inv, UNCHANGED <<jobs, attempts>>, UNCHANGED history \/ \E r : Gains(r),
         objects \subseteq objects', editable' \in BOOLEAN, audit' \in Nat,
         requests' \subseteq [key : Keys, source : Sources, expected : Nat],
         NEW new \in SUBSET Worker, workers' \subseteq workers \cup new,
         Grows => \A u \in new : WorkerOK(u)'
  PROVE  Inv'
PROOF
<1>1. history' \in Seq([key : Keys, source : Sources \cup {None}]) /\ Grows
  <2>1. CASE UNCHANGED history
    BY <2>1, HistorySame DEF Inv, Typed, Grows
  <2>2. ASSUME NEW r, Gains(r)
        PROVE  history' \in Seq([key : Keys, source : Sources \cup {None}]) /\ Grows
    <3>1. /\ history' \in Seq([key : Keys, source : Sources \cup {None}])
          /\ generation \in Nat /\ generation' = generation + 1
          /\ \A g \in 1..generation : history'[g] = history[g]
      BY <2>2, Gained DEF Inv
    <3> QED
      BY <3>1 DEF Grows
  <2> QED
    BY <2>1, <2>2
<1>2. Typed'
  BY <1>1 DEF Inv, Typed
<1>3. WorkersSound'
  BY <1>1, WorkersKeep
<1>4. JobsSound'
  <2>1. \A id \in JobIds : jobs[id].status = "succeeded" => ResultOf(id, jobs[id].result)'
    BY <1>1, ResultStays DEF Inv, JobsSound
  <2> QED
    BY <2>1 DEF Inv, JobsSound, Export
<1>5. Recorded'
  BY DEF Inv, Recorded
<1> QED
  BY <1>1, <1>2, <1>3, <1>4, <1>5, DraftKeeps DEF Inv

LEMMA WorkerFacts ==
  ASSUME Inv, NEW w \in workers
  PROVE  /\ w \in Worker /\ w.id \in JobIds /\ WorkerOK(w)
         /\ jobs[w.id] \in JobRow /\ jobs[w.id].status \notin {"absent", "pending"}
         /\ w.id[1] = "import" => w.id[2] \in Keys /\ w.id = Import(w.id[2])
         /\ w.id[1] = "export" => w.id[2] \in Generations /\ w.id = Export(w.id[2])
PROOF BY Ids DEF Inv, Typed, Worker, WorkersSound, WorkerOK

\* The same with one worker replaced.
LEMMA QuietWorker ==
  ASSUME Inv, UNCHANGED <<jobs, attempts>>, UNCHANGED history \/ \E r : Gains(r),
         objects \subseteq objects', editable' \in BOOLEAN, audit' \in Nat, UNCHANGED requests,
         NEW u \in Worker, NEW w \in workers, become(w, u), Grows => WorkerOK(u)'
  PROVE  Inv'
PROOF
<1>1. {u} \in SUBSET Worker /\ workers' \subseteq workers \cup {u}
      /\ (Grows => \A v \in {u} : WorkerOK(v)')
  BY DEF become
<1> QED
  BY <1>1, QuietStep DEF Inv, Typed

\* A worker that does nothing yet but raise an error or go to another step.
LEMMA RaiseKeeps ==
  ASSUME Inv, NEW w \in workers, NEW e \in Errors, raise(w, e), UNCHANGED <<jobs, attempts>>,
         UNCHANGED history \/ \E r : Gains(r), UNCHANGED <<objects, editable, requests>>, audit' \in Nat
  PROVE  Inv'
PROOF
<1> DEFINE u == [w EXCEPT !.pc = "fail", !.error = e]
<1>1. w \in Worker /\ jobs[w.id].status \notin {"absent", "pending"}
  BY WorkerFacts
<1>2. u \in Worker /\ u.id = w.id /\ u.pc = "fail"
  BY <1>1 DEF Worker
<1>3. become(w, u)
  BY DEF raise
<1> HIDE DEF u
<1>4. WorkerOK(u)'
  BY <1>1, <1>2 DEF WorkerOK
<1> QED
  BY <1>2, <1>3, <1>4, QuietWorker DEF Inv, Typed

LEMMA GotoKeeps ==
  ASSUME Inv, NEW w \in workers, NEW pc \in {"lookup", "check", "publish"}, w.id[1] = "import",
         goto(w, pc) \/ (pc = "publish" /\ \E n \in Nat : become(w, [w EXCEPT !.pc = "publish", !.head = n])),
         UNCHANGED <<draft, objects, requests, jobs, attempts>>
  PROVE  Inv'
PROOF
<1>1. w \in Worker /\ jobs[w.id].status \notin {"absent", "pending"}
  BY WorkerFacts
<1>2. PICK u : u \in Worker /\ u.id = w.id /\ u.pc = pc /\ become(w, u)
  <2>1. LET u == [w EXCEPT !.pc = pc] IN u \in Worker /\ u.id = w.id /\ u.pc = pc
    BY <1>1 DEF Worker
  <2>2. \A n \in Nat : LET u == [w EXCEPT !.pc = "publish", !.head = n]
                       IN  u \in Worker /\ u.id = w.id /\ u.pc = "publish"
    BY <1>1 DEF Worker
  <2> QED
    BY <2>1, <2>2 DEF goto
<1>3. WorkerOK(u)'
  BY <1>1, <1>2 DEF WorkerOK
<1> QED
  BY <1>2, <1>3, QuietWorker DEF Inv, Typed, draft

LEMMA CompleteKeeps ==
  ASSUME Inv, NEW w \in workers, NEW n \in Nat, become(w, [w EXCEPT !.pc = "complete", !.result = n]),
         UNCHANGED <<jobs, attempts, requests, editable>>, audit' \in Nat,
         UNCHANGED history \/ \E r : Gains(r), objects \subseteq objects',
         Grows => ResultOf(w.id, n)'
  PROVE  Inv'
PROOF
<1> DEFINE u == [w EXCEPT !.pc = "complete", !.result = n]
<1>1. w \in Worker /\ jobs[w.id].status \notin {"absent", "pending"}
  BY WorkerFacts
<1>2. u \in Worker /\ u.id = w.id /\ u.pc = "complete" /\ u.result = n
  BY <1>1 DEF Worker
<1>3. become(w, u)
  OBVIOUS
<1> HIDE DEF u
<1>4. Grows => WorkerOK(u)'
  BY <1>1, <1>2 DEF WorkerOK
<1> QED
  BY <1>2, <1>3, <1>4, QuietWorker DEF Inv, Typed

\* A commit under the job's key is the job's own when its fingerprint matches.
LEMMA ResolveKeeps ==
  ASSUME Inv, NEW w \in workers, w.id[1] = "import", committed(w.id[2]) # {}, resolve(w),
         UNCHANGED <<draft, objects, requests, jobs, attempts>>
  PROVE  Inv'
PROOF
<1> DEFINE k == w.id[2]
<1>1. PICK g : g = CHOOSE c \in committed(k) : TRUE
  OBVIOUS
<1>2. g \in committed(k) /\ g \in Nat
  BY <1>1 DEF committed
<1>3. CASE sameRequest(jobs[w.id], g)
  <2>1. ResultOf(w.id, g)
    BY <1>2, <1>3, WorkerFacts, Ids DEF ResultOf
  <2>2. Grows => ResultOf(w.id, g)'
    BY <2>1, WorkerFacts, ResultStays
  <2>3. become(w, [w EXCEPT !.pc = "complete", !.result = g])
    BY <1>1, <1>3 DEF resolve
  <2> QED
    BY <1>2, <2>2, <2>3, CompleteKeeps DEF draft, Inv, Typed
<1>4. CASE ~sameRequest(jobs[w.id], g)
  <2>1. raise(w, "idempotency_conflict")
    BY <1>1, <1>4 DEF resolve
  <2> QED
    BY <2>1, RaiseKeeps DEF draft, Errors, Inv, Typed
<1> QED
  BY <1>3, <1>4

LEMMA ReadKeeps ==
  ASSUME Inv, NEW w \in workers, read(w) \/ lookup(w) \/ check(w) \/ transientFault(w)
  PROVE  Inv'
PROOF
<1>1. UNCHANGED <<draft, objects, requests, jobs, attempts>>
  BY DEF read, lookup, check, transientFault
<1>2. ASSUME NEW e \in Errors, raise(w, e) PROVE Inv'
  BY <1>1, <1>2, RaiseKeeps DEF draft, Inv, Typed
<1>3. CASE read(w)
  BY <1>1, <1>2, <1>3, GotoKeeps DEF read, Errors
<1>4. CASE lookup(w)
  <2>1. w.id[1] = "import"
    BY <1>4, WorkerFacts DEF lookup, WorkerOK
  <2> QED
    BY <1>1, <1>4, <2>1, GotoKeeps, ResolveKeeps DEF lookup
<1>5. CASE check(w)
  <2>1. w.id[1] = "import" /\ audit \in Nat
    BY <1>5, WorkerFacts DEF check, WorkerOK, Inv, Typed
  <2> QED
    BY <1>1, <1>2, <1>5, <2>1, GotoKeeps DEF check, Errors
<1>6. CASE transientFault(w)
  BY <1>2, <1>6 DEF transientFault, Errors
<1> QED
  BY <1>3, <1>4, <1>5, <1>6

LEMMA PublishKeeps ==
  ASSUME Inv, NEW w \in workers, publish(w)
  PROVE  Inv'
PROOF
<1> DEFINE k == w.id[2]
           j == jobs[w.id]
           r == [key |-> k, source |-> j.source]
<1>0. w.id[1] = "import" /\ k \in Keys /\ w.id = Import(k) /\ j \in JobRow /\ j.status # "absent"
  BY WorkerFacts DEF publish, WorkerOK
<1>1. CASE committed(k) # {}
  BY <1>0, <1>1, ResolveKeeps DEF publish, draft
<1>2. CASE committed(k) = {} /\ ~publishable(w)
  BY <1>2, RaiseKeeps DEF publish, draft, Errors, Inv, Typed
<1>3. CASE committed(k) = {} /\ publishable(w)
  <2>1. history' = Append(history, r) /\ audit' \in Nat
        /\ UNCHANGED <<editable, objects, requests, jobs, attempts>>
    BY <1>3 DEF publish, Inv, Typed
  <2>2. r \in [key : Keys, source : Sources \cup {None}] /\ r.key = k /\ r.source = j.source
        /\ j.expected = generation
    BY <1>0, <1>3 DEF JobRow, publishable
  <2>3. Gains(r)
    BY <1>0, <1>3, <2>1, <2>2 DEF Gains
  <2>4. PICK n \in Nat : n = generation + 1 /\ n \in 1..n /\ generation' = n /\ history'[n] = r
    BY <2>3, Gained DEF Inv
  <2>5. ResultOf(w.id, n)'
    <3>1. n \in committed(k)' /\ sameRequest(jobs[w.id], n)'
      <4>1. history'[n].key = k /\ history'[n].source = j.source /\ n = j.expected + 1
        BY <2>2, <2>4
      <4> QED
        BY <4>1, <2>1, <2>4 DEF committed, sameRequest
    <3>2. (\A l \in Keys : w.id = Import(l) => l = k) /\ \A g \in Generations : w.id # Export(g)
      BY <1>0, Ids
    <3> QED
      BY <3>1, <3>2 DEF ResultOf, Import, Export
  <2> HIDE DEF r, k
  <2>6. CASE become(w, [w EXCEPT !.pc = "complete", !.result = n])
    BY <2>1, <2>3, <2>5, <2>6, CompleteKeeps
  <2>7. CASE raise(w, "transient")
    BY <2>1, <2>3, <2>7, RaiseKeeps DEF Errors
  <2> QED
    BY <1>3, <2>4, <2>6, <2>7 DEF publish, k
<1> QED
  BY <1>1, <1>2, <1>3

LEMMA ExportKeeps ==
  ASSUME Inv, NEW w \in workers, export(w)
  PROVE  Inv'
PROOF
<1>1. PICK g \in Nat : g = jobs[w.id].expected /\ w.id[2] = g /\ g \in Generations /\ w.id = Export(g)
  BY WorkerFacts, Ids DEF export, Inv, JobsSound
<1>2. objects' = objects \cup {docx(g)} /\ become(w, [w EXCEPT !.pc = "complete", !.result = g])
      /\ UNCHANGED <<draft, requests, jobs, attempts>>
  BY <1>1 DEF export, pinned
<1>3. ResultOf(w.id, g)'
  <2>1. (\A h \in Generations : w.id = Export(h) => h = g) /\ \A k \in Keys : w.id # Import(k)
    BY <1>1, Ids
  <2> QED
    BY <1>2, <2>1 DEF ResultOf, Import, Export, docx
<1> QED
  BY <1>2, <1>3, CompleteKeeps DEF draft, Inv, Typed

\* The author's requests and edits, and a worker's death.
LEMMA AuthorKeeps ==
  ASSUME Inv,
         \/ \E k \in Keys, s \in Sources : enqueueImport(k, s, generation)
         \/ \E k \in Keys : edit(k)
         \/ otherChange
         \/ \E w \in workers : crash(w)
         \/ UNCHANGED vars
  PROVE  Inv'
PROOF
<1> USE DEF Inv, Typed, draft
<1>1. ASSUME UNCHANGED <<jobs, attempts>>, UNCHANGED history \/ \E r : Gains(r),
             objects \subseteq objects', editable' \in BOOLEAN, audit' \in Nat,
             requests' \subseteq [key : Keys, source : Sources, expected : Nat],
             workers' \subseteq workers
      PROVE  Inv'
  <2>1. {} \in SUBSET Worker /\ workers' \subseteq workers \cup {} /\ \A u \in {} : WorkerOK(u)'
    BY <1>1
  <2> QED
    BY <1>1, <2>1, QuietStep
<1>2. ASSUME NEW k \in Keys, NEW s \in Sources, enqueueImport(k, s, generation) PROVE Inv'
  <2>1. [key |-> k, source |-> s, expected |-> generation] \in [key : Keys, source : Sources, expected : Nat]
    BY DEF generation
  <2> QED
    BY <1>1, <1>2, <2>1 DEF enqueueImport
<1>3. ASSUME NEW k \in Keys, edit(k) PROVE Inv'
  <2> DEFINE r == [key |-> k, source |-> None]
  <2>1. Gains(r)
    BY <1>3 DEF Gains, edit
  <2> HIDE DEF r
  <2> QED
    BY <1>1, <1>3, <2>1 DEF edit
<1>4. CASE otherChange
  BY <1>1, <1>4 DEF otherChange
<1>5. ASSUME NEW w \in workers, crash(w) PROVE Inv'
  BY <1>1, <1>5 DEF crash
<1>6. CASE UNCHANGED vars
  BY <1>1, <1>6 DEF vars
<1> QED
  BY <1>2, <1>3, <1>4, <1>5, <1>6

-----------------------------------------------------------------------------
\* Steps that write one job.
LEMMA JobKeeps ==
  ASSUME Inv, UNCHANGED <<draft, objects>>, requests' \subseteq requests, attempts' \subseteq Attempt,
         NEW id \in JobIds, NEW j \in JobRow, jobs' = [jobs EXCEPT ![id] = j],
         jobs[id].status # "absent" =>
           j.status # "absent" /\ j.source = jobs[id].source /\ j.expected = jobs[id].expected,
         jobs[id].status \notin {"absent", "pending"} => j.status \notin {"absent", "pending"},
         j.status \in {"absent", "pending"} => j.attempts = 0,
         j.status # "absent" => \A g \in Generations : id = Export(g) => j.expected = g,
         Grows /\ j.status = "succeeded" => ResultOf(id, j.result)',
         NEW new \in SUBSET Worker, workers' \subseteq workers \cup new,
         \A u \in new : WorkerOK(u)',
         Recorded'
  PROVE  Inv'
PROOF
<1>0. jobs \in [JobIds -> JobRow] /\ jobs'[id] = j
      /\ \A i \in JobIds : i # id => jobs'[i] = jobs[i]
  BY DEF Inv, Typed
<1>1. Grows
  BY <1>0, HistorySame DEF Grows, draft, Inv
<1>2. Typed'
  BY <1>0 DEF Inv, Typed, draft
<1>3. WorkersSound'
  BY <1>0, <1>1, WorkersKeep
<1>4. JobsSound'
  <2> SUFFICES ASSUME NEW i \in JobIds
               PROVE  /\ jobs'[i].status \in {"absent", "pending"} => jobs'[i].attempts = 0
                      /\ jobs'[i].status = "succeeded" => ResultOf(i, jobs[i].result)'
                      /\ jobs'[i].status # "absent" => \A g \in Generations : i = Export(g) => jobs'[i].expected = g
    BY DEF JobsSound, Export
  <2>1. CASE i = id
    BY <1>0, <1>1, <2>1 DEF ResultOf, Import, Export
  <2>2. CASE i # id
    <3>1. jobs[i].status = "succeeded" => ResultOf(i, jobs[i].result)
      BY DEF Inv, JobsSound
    <3>2. PICK result : result = jobs[i].result
      OBVIOUS
    <3>3. jobs[i].status = "succeeded" => ResultOf(i, result)'
      BY <1>1, <3>1, <3>2, ResultStays
    <3>4. jobs'[i].status = "succeeded" => ResultOf(i, jobs[i].result)'
      BY <1>0, <2>2, <3>2, <3>3 DEF ResultOf
    <3> QED
      BY <1>0, <2>2, <3>4 DEF Inv, JobsSound
  <2> QED
    BY <2>1, <2>2
<1> QED
  BY <1>1, <1>2, <1>3, <1>4, DraftKeeps DEF Inv, draft

LEMMA InsertKeeps ==
  ASSUME Inv, (\E r \in requests : insertImport(r)) \/ enqueueExport
  PROVE  Inv'
PROOF
<1>1. ASSUME NEW id \in JobIds, NEW s \in Sources \cup {None}, NEW n \in Nat,
             \A g \in Generations : id = Export(g) => n = g,
             jobs[id].status = "absent", jobs' = [jobs EXCEPT ![id] = pending(s, n)],
             UNCHANGED <<draft, objects, attempts, workers>>, requests' \subseteq requests
      PROVE  Inv'
  <2> DEFINE none == NoJob
  <2>1. none \in JobRow /\ none.attempts = 0
    BY NoJobType
  <2>2. PICK j : j = [none EXCEPT !.status = "pending", !.source = s, !.expected = n]
    OBVIOUS
  <2>3. jobs' = [jobs EXCEPT ![id] = j]
    BY <1>1, <2>2 DEF pending
  <2> HIDE DEF none
  <2>4. j \in JobRow /\ j.status = "pending" /\ j.attempts = 0 /\ j.expected = n
    BY <2>1, <2>2 DEF JobRow
  <2>5. jobs[id].attempts = 0 /\ jobs \in [JobIds -> JobRow] /\ attempts \subseteq Attempt
    BY <1>1 DEF Inv, JobsSound, Typed
  <2>6. \A a \in attempts : a.id # id
    BY <1>1, <2>5 DEF Inv, Recorded, Attempt
  <2>7. Recorded'
    BY <1>1, <2>3, <2>4, <2>5, <2>6 DEF Inv, Recorded, Attempt
  <2>8. {} \in SUBSET Worker /\ workers' \subseteq workers \cup {} /\ \A u \in {} : WorkerOK(u)'
    BY <1>1
  <2> QED
    BY <1>1, <2>3, <2>4, <2>5, <2>7, <2>8, JobKeeps
<1>2. ASSUME NEW r \in requests, insertImport(r) PROVE Inv'
  <2>1. r.key \in Keys /\ r.source \in Sources /\ r.expected \in Nat
    BY DEF Inv, Typed
  <2>2. CASE onConflict(Import(r.key))
    <3>1. PICK id : id = Import(r.key)
      OBVIOUS
    <3>2. /\ id \in JobIds /\ r.source \in Sources \cup {None} /\ r.expected \in Nat
          /\ \A g \in Generations : id = Export(g) => r.expected = g
      BY <2>1, <3>1, Ids
    <3>3. /\ jobs[id].status = "absent" /\ jobs' = [jobs EXCEPT ![id] = pending(r.source, r.expected)]
          /\ UNCHANGED <<draft, objects, attempts, workers>> /\ requests' \subseteq requests
      BY <1>2, <2>2, <3>1 DEF insertImport, onConflict
    <3> QED
      BY <1>1, <3>2, <3>3
  <2>3. CASE ~onConflict(Import(r.key))
    <3>1. {} \in SUBSET Worker /\ workers' \subseteq workers \cup {} /\ \A u \in {} : WorkerOK(u)'
      BY <1>2 DEF insertImport
    <3> QED
      BY <1>2, <2>3, <3>1, QuietStep DEF insertImport, draft, Inv, Typed
  <2> QED
    BY <2>2, <2>3
<1>3. CASE enqueueExport
  <2>1. generation \in Nat
    BY DEF generation, Inv, Typed
  <2>2. PICK id : id = Export(generation)
    OBVIOUS
  <2>3. CASE id \in JobIds
    <3>1. None \in Sources \cup {None} /\ \A g \in Generations : id = Export(g) => generation = g
      BY <2>2, Ids
    <3>2. /\ jobs[id].status = "absent" /\ jobs' = [jobs EXCEPT ![id] = pending(None, generation)]
          /\ UNCHANGED <<draft, objects, attempts, workers>> /\ requests' \subseteq requests
      BY <1>3, <2>2 DEF enqueueExport
    <3>3. PICK n \in Nat : n = generation
      BY <2>1
    <3> QED
      BY <1>1, <2>3, <3>1, <3>2, <3>3
  <2>4. CASE id \notin JobIds
    <3>1. jobs' = jobs
      BY <1>3, <2>2, <2>4 DEF enqueueExport, Inv, Typed
    <3>2. {} \in SUBSET Worker /\ workers' \subseteq workers \cup {} /\ \A u \in {} : WorkerOK(u)'
      BY <1>3 DEF enqueueExport
    <3> QED
      BY <1>3, <3>1, <3>2, QuietStep DEF enqueueExport, draft, Inv, Typed
  <2> QED
    BY <2>3, <2>4
<1> QED
  BY <1>2, <1>3

LEMMA ClaimKeeps ==
  ASSUME Inv, NEW id \in JobIds, claim(id)
  PROVE  Inv'
PROOF
<1>1. jobs[id] \in JobRow /\ attempts \subseteq Attempt /\ jobs \in [JobIds -> JobRow]
  BY DEF Inv, Typed
<1>2. PICK n \in Nat : n = jobs[id].attempts + 1
  BY <1>1 DEF JobRow
<1>3. PICK j : j = [jobs[id] EXCEPT !.status = "processing", !.attempts = n, !.stale = FALSE]
  OBVIOUS
<1>4. /\ j \in JobRow /\ j.status = "processing" /\ j.attempts = n
      /\ j.source = jobs[id].source /\ j.expected = jobs[id].expected
  BY <1>1, <1>3 DEF JobRow
<1>5. jobs' = [jobs EXCEPT ![id] = j] /\ UNCHANGED <<draft, objects, requests, attempts>>
      /\ claimable(jobs[id])
  BY <1>2, <1>3 DEF claim
<1>6. PICK u : u = [id |-> id, attempt |-> n, pc |-> "read", head |-> None, result |-> None,
                    error |-> "none"]
  OBVIOUS
<1>7. u \in Worker /\ u.id = id /\ u.pc = "read" /\ workers' = workers \cup {u}
  BY <1>2, <1>6 DEF Worker, None, Errors, claim
<1>8. jobs[id].status # "absent" /\ jobs[id].status # "succeeded"
      /\ (jobs[id].status = "failed" => jobs[id].retryable)
  BY <1>5 DEF claimable
<1>9. \A a \in attempts : a.id = id => a.attempt < n /\ a.outcome = "retryable_failed"
  BY <1>1, <1>2, <1>8 DEF Inv, Recorded, Attempt, JobRow
<1>10. Recorded'
  BY <1>1, <1>4, <1>5, <1>9 DEF Inv, Recorded, Attempt
<1>11. WorkerOK(u)'
  BY <1>1, <1>4, <1>5, <1>7 DEF WorkerOK
<1>12. {u} \in SUBSET Worker /\ workers' \subseteq workers \cup {u} /\ \A v \in {u} : WorkerOK(v)'
  BY <1>7, <1>11
<1>13. \A g \in Generations : id = Export(g) => j.expected = g
  BY <1>4, <1>8 DEF Inv, JobsSound
<1> QED
  BY <1>1, <1>4, <1>5, <1>8, <1>10, <1>12, <1>13, JobKeeps DEF Inv, Typed

\* The outcome of an attempt, under its lease.
LEMMA SettleKeeps ==
  ASSUME Inv, NEW w \in workers, NEW j \in JobRow, NEW outcome, settle(w, j, outcome),
         j.source = jobs[w.id].source, j.expected = jobs[w.id].expected,
         j.attempts = jobs[w.id].attempts,
         \/ j.status = "succeeded" /\ outcome = "succeeded" /\ ResultOf(w.id, j.result)
         \/ j.status = "failed" /\ j.retryable /\ outcome = "retryable_failed" /\ w.attempt < MaxAttempts
         \/ j.status = "failed" /\ ~j.retryable /\ outcome = "permanently_failed"
  PROVE  Inv'
PROOF
<1>0. {} \in SUBSET Worker /\ workers' \subseteq workers \cup {} /\ \A u \in {} : WorkerOK(u)'
  BY DEF settle
<1>1. CASE ~leaseHeld(w)
  BY <1>0, <1>1, QuietStep DEF settle, draft, Inv, Typed
<1>2. CASE leaseHeld(w)
  <2>1. /\ w.id \in JobIds /\ w.attempt \in Nat /\ attempts \subseteq Attempt
        /\ jobs \in [JobIds -> JobRow] /\ jobs[w.id] \in JobRow
        /\ jobs[w.id].status = "processing" /\ jobs[w.id].attempts = w.attempt
    BY <1>2, WorkerFacts DEF leaseHeld, Inv, Typed, Worker
  <2>2. PICK a : a = [id |-> w.id, attempt |-> w.attempt, outcome |-> outcome]
    OBVIOUS
  <2>3. a \in Attempt /\ a.id = w.id /\ a.attempt = w.attempt /\ a.outcome = outcome
    BY <2>1, <2>2 DEF Attempt
  <2>4. /\ jobs' = [jobs EXCEPT ![w.id] = j] /\ attempts' = attempts \cup {a}
        /\ UNCHANGED <<draft, objects, requests>>
    BY <1>2, <2>2 DEF settle
  <2>5. \A b \in attempts : b.id = w.id => b.attempt < w.attempt /\ b.outcome = "retryable_failed"
    BY <2>1 DEF Inv, Recorded, Attempt
  <2>6. Recorded'
    <3>1. jobs'[w.id] = j /\ \A id \in JobIds : id # w.id => jobs'[id] = jobs[id]
      BY <2>1, <2>4
    <3>2. \A b \in attempts : b.id \in JobIds
      BY <2>1 DEF Attempt
    <3>3. \A b, c \in attempts' : b.id = c.id /\ b.attempt = c.attempt => b = c
      <4>1. \A b \in attempts : ~(b.id = a.id /\ b.attempt = a.attempt)
        BY <2>1, <2>3, <2>5
      <4> QED
        BY <2>4, <4>1 DEF Inv, Recorded
    <3>4. \A b \in attempts' : b.outcome = "retryable_failed" => b.attempt < MaxAttempts
      BY <2>3, <2>4 DEF Inv, Recorded
    <3>5. \A b \in attempts' :
            \/ b.attempt < jobs'[b.id].attempts /\ b.outcome = "retryable_failed"
            \/ /\ b.attempt = jobs'[b.id].attempts
               /\ \/ jobs'[b.id].status = "succeeded" /\ b.outcome = "succeeded"
                  \/ jobs'[b.id].status = "failed" /\ jobs'[b.id].retryable /\ b.outcome = "retryable_failed"
                  \/ jobs'[b.id].status = "failed" /\ ~jobs'[b.id].retryable /\ b.outcome = "permanently_failed"
      <4> TAKE b \in attempts'
      <4>1. CASE b = a
        BY <2>1, <2>3, <3>1, <4>1
      <4>2. CASE b \in attempts /\ b.id = w.id
        BY <2>1, <2>5, <3>1, <4>2
      <4>3. CASE b \in attempts /\ b.id # w.id
        BY <3>1, <3>2, <4>3 DEF Inv, Recorded
      <4> QED
        BY <2>4, <4>1, <4>2, <4>3
    <3>6. \A id \in JobIds : jobs'[id].status \in {"succeeded", "failed"} =>
            \E b \in attempts' : b.id = id /\ b.attempt = jobs'[id].attempts
      <4> TAKE id \in JobIds
      <4>1. CASE id = w.id
        BY <2>1, <2>3, <2>4, <3>1, <4>1
      <4>2. CASE id # w.id
        BY <2>4, <3>1, <4>2 DEF Inv, Recorded
      <4> QED
        BY <4>1, <4>2
    <3> QED
      BY <3>3, <3>4, <3>5, <3>6 DEF Recorded
  <2>7. Grows /\ j.status = "succeeded" => ResultOf(w.id, j.result)'
    BY <2>1, ResultStays
  <2>8. j.status # "absent" => \A g \in Generations : w.id = Export(g) => j.expected = g
    BY <2>1 DEF Inv, JobsSound
  <2>9. attempts' \subseteq Attempt /\ j.status \notin {"absent", "pending"}
    BY <2>1, <2>3, <2>4
  <2> QED
    BY <1>0, <2>1, <2>4, <2>6, <2>7, <2>8, <2>9, JobKeeps
<1> QED
  BY <1>1, <1>2

LEMMA OutcomeKeeps ==
  ASSUME Inv, NEW w \in workers, complete(w) \/ failJob(w)
  PROVE  Inv'
PROOF
<1>1. w \in Worker /\ jobs[w.id] \in JobRow /\ WorkerOK(w)
  BY WorkerFacts
<1>2. CASE complete(w)
  <2>1. PICK j : j = [jobs[w.id] EXCEPT !.status = "succeeded", !.retryable = FALSE, !.result = w.result]
    OBVIOUS
  <2>2. settle(w, j, "succeeded") /\ ResultOf(w.id, w.result)
    BY <1>1, <1>2, <2>1 DEF complete, WorkerOK
  <2>3. /\ j \in JobRow /\ j.source = jobs[w.id].source /\ j.expected = jobs[w.id].expected
        /\ j.attempts = jobs[w.id].attempts /\ j.status = "succeeded" /\ j.result = w.result
    BY <1>1, <2>1 DEF JobRow, Worker
  <2> QED
    BY <2>2, <2>3, SettleKeeps
<1>3. CASE failJob(w)
  <2>1. PICK retry \in BOOLEAN : retry = classifyFailure(w.error, w.attempt)
    BY <1>1 DEF classifyFailure
  <2>2. PICK j : j = [jobs[w.id] EXCEPT !.status = "failed", !.retryable = retry, !.cause = w.error]
    OBVIOUS
  <2>3. PICK outcome : outcome = IF retry THEN "retryable_failed" ELSE "permanently_failed"
    OBVIOUS
  <2>4. settle(w, j, outcome) /\ (retry => w.attempt < MaxAttempts)
    BY <1>3, <2>1, <2>2, <2>3 DEF failJob, classifyFailure
  <2>5. /\ j \in JobRow /\ j.source = jobs[w.id].source /\ j.expected = jobs[w.id].expected
        /\ j.attempts = jobs[w.id].attempts /\ j.status = "failed" /\ j.retryable = retry
    BY <1>1, <2>2 DEF JobRow, Worker
  <2> QED
    BY <2>3, <2>4, <2>5, SettleKeeps
<1> QED
  BY <1>2, <1>3

LEMMA LeaseExpiryKeeps ==
  ASSUME Inv, NEW id \in JobIds, leaseExpires(id)
  PROVE  Inv'
PROOF
<1>1. jobs[id] \in JobRow /\ attempts \subseteq Attempt /\ jobs \in [JobIds -> JobRow]
  BY DEF Inv, Typed
<1>2. PICK j : j = [jobs[id] EXCEPT !.stale = TRUE]
  OBVIOUS
<1>3. /\ j \in JobRow /\ j.status = jobs[id].status /\ j.attempts = jobs[id].attempts
      /\ j.source = jobs[id].source /\ j.expected = jobs[id].expected
      /\ j.retryable = jobs[id].retryable
  BY <1>1, <1>2 DEF JobRow
<1>4. /\ jobs' = [jobs EXCEPT ![id] = j] /\ jobs[id].status = "processing"
      /\ UNCHANGED <<draft, objects, requests, attempts, workers>>
  BY <1>1, <1>2 DEF leaseExpires
<1>5. Recorded'
  BY <1>1, <1>3, <1>4 DEF Inv, Recorded, Attempt
<1>6. {} \in SUBSET Worker /\ workers' \subseteq workers \cup {} /\ \A u \in {} : WorkerOK(u)'
  BY <1>4
<1>7. \A g \in Generations : id = Export(g) => j.expected = g
  BY <1>3, <1>4 DEF Inv, JobsSound
<1> QED
  BY <1>1, <1>3, <1>4, <1>5, <1>6, <1>7, JobKeeps

LEMMA StepInv == Inv /\ [Next]_vars => Inv'
PROOF
<1> SUFFICES ASSUME Inv, [Next]_vars PROVE Inv'
  OBVIOUS
<1>1. ASSUME NEW id \in JobIds, claim(id) \/ leaseExpires(id) PROVE Inv'
  BY <1>1, ClaimKeeps, LeaseExpiryKeeps
<1>2. ASSUME NEW w \in workers, executeClaimedJob(w) \/ transientFault(w) PROVE Inv'
  BY <1>2, ReadKeeps, PublishKeeps, ExportKeeps, OutcomeKeeps DEF executeClaimedJob
<1>3. CASE (\E r \in requests : insertImport(r)) \/ enqueueExport
  BY <1>3, InsertKeeps
<1>4. CASE \/ \E k \in Keys, s \in Sources : enqueueImport(k, s, generation)
           \/ \E k \in Keys : edit(k)
           \/ otherChange
           \/ \E w \in workers : crash(w)
           \/ UNCHANGED vars
  BY <1>4, AuthorKeeps
<1> QED
  BY <1>1, <1>2, <1>3, <1>4 DEF Next

LEMMA SpecInv == Spec => []Inv
PROOF BY InitInv, StepInv, PTL DEF Spec

-----------------------------------------------------------------------------
\* Whatever crashes, is answered too late or is attempted by several workers
\* at once, an upload enters the draft at most once, onto the generation its
\* author saw (prepareDraftRevision, publishDraftRevision).
THEOREM ImportsOnce == Spec => []ImportedOnce
PROOF
<1>1. Inv => ImportedOnce
  <2> SUFFICES ASSUME Inv PROVE ImportedOnce
    OBVIOUS
  <2>1. ASSUME NEW k \in Keys, jobs[Import(k)].status = "succeeded"
        PROVE  jobs[Import(k)].result \in committed(k) /\ sameRequest(jobs[Import(k)], jobs[Import(k)].result)
    BY <2>1, Ids DEF Inv, JobsSound, ResultOf
  <2>2. ASSUME NEW k \in Keys, NEW g \in committed(k)
        PROVE  history[g].source = None \/ sameRequest(jobs[Import(k)], g)
    BY <2>2 DEF Inv, RevisionsAsked, committed
  <2> QED
    BY <2>1, <2>2 DEF Inv, KeysOnce, ImportedOnce
<1> QED
  BY <1>1, SpecInv, PTL

\* An export that succeeded shows the revision it was asked for, and its bytes
\* are stored (enqueueExport, executeExport).
THEOREM ExportsPinned == Spec => []ExportPinned
PROOF
<1>1. Inv => ExportPinned
  BY Ids DEF Inv, JobsSound, ResultOf, ExportPinned
<1> QED
  BY <1>1, SpecInv, PTL

\* The log of attempts agrees with the jobs for any number of crashes and
\* leases taken over (settle).
THEOREM AttemptsLogged == Spec => []AttemptsRecorded
PROOF
<1>1. Inv => AttemptsRecorded
  <2> SUFFICES ASSUME Inv PROVE AttemptsRecorded
    OBVIOUS
  <2>0. attempts \subseteq Attempt /\ jobs \in [JobIds -> JobRow]
    BY DEF Inv, Typed
  <2>1. ASSUME NEW a \in attempts, NEW b \in attempts, a.id = b.id
        PROVE  \/ a = b
               \/ a.attempt < b.attempt /\ a.outcome = "retryable_failed"
               \/ b.attempt < a.attempt /\ b.outcome = "retryable_failed"
    <3>1. a.id \in JobIds /\ a.attempt \in Nat /\ b.attempt \in Nat /\ jobs[a.id].attempts \in Nat
      BY <2>0 DEF Attempt, JobRow
    <3> QED
      BY <2>1, <3>1 DEF Inv, Recorded
  <2>2. ASSUME NEW id \in JobIds
        PROVE  LET j == jobs[id]
                   last == {a \in attempts : a.id = id /\ a.attempt = j.attempts}
               IN  CASE j.status = "processing" -> last = {}
                     [] j.status = "succeeded" -> \E a \in last : a.outcome = "succeeded"
                     [] j.status = "failed" ->
                          \E a \in last : a.outcome = IF j.retryable THEN "retryable_failed"
                                                      ELSE "permanently_failed"
                     [] OTHER -> TRUE
    <3> DEFINE j == jobs[id]
               last == {a \in attempts : a.id = id /\ a.attempt = j.attempts}
    <3>1. j \in JobRow /\ \A a \in last : a \in attempts /\ a.id = id /\ a.attempt = j.attempts
      BY <2>0
    <3>2. j.status \in {"succeeded", "failed"} => \E a \in last : TRUE
      BY DEF Inv, Recorded
    <3>3. \A a \in last :
            \/ j.status = "succeeded" /\ a.outcome = "succeeded"
            \/ j.status = "failed" /\ j.retryable /\ a.outcome = "retryable_failed"
            \/ j.status = "failed" /\ ~j.retryable /\ a.outcome = "permanently_failed"
      BY <3>1 DEF Inv, Recorded, JobRow
    <3> HIDE DEF last, j
    <3>4. j.status = "processing" => last = {}
      BY <3>3
    <3>5. j.status = "succeeded" => \E a \in last : a.outcome = "succeeded"
      BY <3>2, <3>3
    <3>6. j.status = "failed" =>
            \E a \in last : a.outcome = IF j.retryable THEN "retryable_failed" ELSE "permanently_failed"
      BY <3>2, <3>3
    <3>7. CASE j.status = "processing"
      BY <3>4, <3>7 DEF j, last
    <3>8. CASE j.status = "succeeded"
      BY <3>5, <3>8 DEF j, last
    <3>9. CASE j.status = "failed"
      BY <3>6, <3>9 DEF j, last
    <3>10. CASE j.status \notin {"processing", "succeeded", "failed"}
      BY <3>10 DEF j
    <3> QED
      BY <3>7, <3>8, <3>9, <3>10
  <2> QED
    BY <2>1, <2>2 DEF Inv, Recorded, AttemptsRecorded
<1> QED
  BY <1>1, SpecInv, PTL

\* All of it together, which is what the store and its drain promise of a
\* conversion (prepareDraftRevision, publishDraftRevision, executeExport, settle).
THEOREM ConversionsCorrect == Spec => []ConversionsSound
PROOF
<1>1. ImportedOnce /\ ExportPinned /\ AttemptsRecorded => ConversionsSound
  BY DEF ConversionsSound
<1> QED
  BY <1>1, ImportsOnce, ExportsPinned, AttemptsLogged, PTL

-----------------------------------------------------------------------------
\* What a step may do to one job: nothing, accept it, lease it, let its lease
\* lapse, or settle it under its lease.
RowStep(j, k) ==
  \/ k = j
  \/ j.status = "absent" /\ k.status = "pending" /\ k.attempts = j.attempts
  \/ claimable(j) /\ k.status = "processing" /\ k.attempts = j.attempts + 1
  \/ j.status = "processing" /\ k.status \in {"processing", "succeeded", "failed"}
       /\ k.attempts = j.attempts

LEMMA OneRow ==
  ASSUME Inv, NEW id, NEW j, jobs' = [jobs EXCEPT ![id] = j],
         id \in JobIds => RowStep(jobs[id], j)
  PROVE  \A i \in JobIds : RowStep(jobs[i], jobs'[i])
PROOF BY DEF Inv, Typed, RowStep

LEMMA RowSteps ==
  ASSUME Inv, [Next]_vars
  PROVE  \A i \in JobIds : RowStep(jobs[i], jobs'[i])
PROOF
<1>1. CASE UNCHANGED jobs
  BY <1>1 DEF RowStep
<1>2. ASSUME NEW id, NEW s, NEW n, jobs' = [jobs EXCEPT ![id] = pending(s, n)],
             jobs[id].status = "absent"
      PROVE  \A i \in JobIds : RowStep(jobs[i], jobs'[i])
  <2>1. pending(s, n).status = "pending" /\ pending(s, n).attempts = 0
    BY DEF pending, NoJob
  <2>2. id \in JobIds => jobs[id].attempts = 0
    BY <1>2 DEF Inv, JobsSound
  <2>3. id \in JobIds => RowStep(jobs[id], pending(s, n))
    BY <1>2, <2>1, <2>2 DEF RowStep
  <2> QED
    BY <1>2, <2>3, OneRow
<1>3. ASSUME NEW r \in requests, insertImport(r) PROVE \A i \in JobIds : RowStep(jobs[i], jobs'[i])
  BY <1>1, <1>2, <1>3 DEF insertImport, onConflict
<1>4. CASE enqueueExport
  BY <1>2, <1>4 DEF enqueueExport
<1>5. ASSUME NEW id \in JobIds, claim(id) PROVE \A i \in JobIds : RowStep(jobs[i], jobs'[i])
  <2>1. PICK j : j = [jobs[id] EXCEPT !.status = "processing", !.attempts = jobs[id].attempts + 1,
                                      !.stale = FALSE]
    OBVIOUS
  <2>2. jobs[id] \in JobRow /\ jobs' = [jobs EXCEPT ![id] = j] /\ claimable(jobs[id])
    BY <1>5, <2>1 DEF claim, Inv, Typed
  <2>3. j.status = "processing" /\ j.attempts = jobs[id].attempts + 1
    BY <2>1, <2>2 DEF JobRow
  <2> QED
    BY <2>2, <2>3, OneRow DEF RowStep
<1>6. ASSUME NEW id \in JobIds, leaseExpires(id) PROVE \A i \in JobIds : RowStep(jobs[i], jobs'[i])
  <2>1. PICK j : j = [jobs[id] EXCEPT !.stale = TRUE]
    OBVIOUS
  <2>2. jobs[id] \in JobRow /\ jobs' = [jobs EXCEPT ![id] = j] /\ jobs[id].status = "processing"
    BY <1>6, <2>1 DEF leaseExpires, Inv, Typed
  <2>3. j.status = "processing" /\ j.attempts = jobs[id].attempts
    BY <2>1, <2>2 DEF JobRow
  <2> QED
    BY <2>2, <2>3, OneRow DEF RowStep
<1>7. ASSUME NEW w \in workers, NEW j, NEW outcome, settle(w, j, outcome),
             j.status \in {"succeeded", "failed"}, j.attempts = jobs[w.id].attempts
      PROVE  \A i \in JobIds : RowStep(jobs[i], jobs'[i])
  <2>1. CASE leaseHeld(w)
    BY <1>7, <2>1, OneRow DEF settle, leaseHeld, RowStep
  <2> QED
    BY <1>1, <1>7, <2>1 DEF settle
<1>8. ASSUME NEW w \in workers, complete(w) \/ failJob(w)
      PROVE  \A i \in JobIds : RowStep(jobs[i], jobs'[i])
  <2>1. jobs[w.id] \in JobRow
    BY WorkerFacts
  <2>2. CASE complete(w)
    <3>1. PICK j : j = [jobs[w.id] EXCEPT !.status = "succeeded", !.retryable = FALSE, !.result = w.result]
      OBVIOUS
    <3>2. j.status = "succeeded" /\ j.attempts = jobs[w.id].attempts /\ settle(w, j, "succeeded")
      BY <2>1, <2>2, <3>1 DEF JobRow, complete
    <3> QED
      BY <1>7, <3>2
  <2>3. CASE failJob(w)
    <3>1. PICK retry : retry = classifyFailure(w.error, w.attempt)
      OBVIOUS
    <3>2. PICK j : j = [jobs[w.id] EXCEPT !.status = "failed", !.retryable = retry, !.cause = w.error]
      OBVIOUS
    <3>3. j.status = "failed" /\ j.attempts = jobs[w.id].attempts
      BY <2>1, <3>2 DEF JobRow
    <3>4. settle(w, j, IF retry THEN "retryable_failed" ELSE "permanently_failed")
      BY <2>3, <3>1, <3>2 DEF failJob
    <3> QED
      BY <1>7, <3>3, <3>4
  <2> QED
    BY <1>8, <2>2, <2>3
<1> QED
  BY <1>1, <1>3, <1>4, <1>5, <1>6, <1>8
  DEF Next, enqueueImport, executeClaimedJob, read, lookup, check, publish, export,
      transientFault, crash, edit, otherChange, vars

\* Every conversion is a leased job: its lease is only taken over by a newer
\* one, its outcome is written under the newest, and a job that ended stays as
\* it ended, for any number of workers and crashes.
THEOREM DocxLeasesImplemented == Spec => ImplementsDocxLeases
PROOF
<1>1. Init => \A id \in JobIds : Job(id)!Absent
  <2> SUFFICES ASSUME Init, NEW id \in JobIds PROVE Job(id)!Absent
    OBVIOUS
  <2>1. jobs[id].status = "absent" /\ jobs[id].attempts = 0
    BY NoJobType DEF Init
  <2> QED
    BY <2>1 DEF Job!Absent, None
<1>2. ASSUME Inv, [Next]_vars, NEW id \in JobIds
      PROVE  [Job(id)!JobNext]_(Job(id)!job) /\ (terminal(jobs[id]) => jobs'[id] = jobs[id])
  <2> DEFINE j == jobs[id]
             k == jobs'[id]
  <2>1. RowStep(j, k) /\ j \in JobRow /\ k \in JobRow
    BY <1>2, RowSteps, StepInv DEF Inv, Typed
  <2>2. terminal(j) => k = j
    BY <2>1 DEF RowStep, terminal, claimable, JobRow
  <2>3. [Job(id)!JobNext]_(Job(id)!job)
    BY <2>1 DEF RowStep, claimable, JobRow, Job!JobNext, Job!job, Job!Enqueue, Job!Claim,
                Job!Release, Job!Bury, Job!Finish
  <2> QED
    BY <2>2, <2>3
<1> DEFINE Leased == \A id \in JobIds : Job(id)!Absent
           Moves == \A id \in JobIds :
                      /\ [Job(id)!JobNext]_(Job(id)!job)
                      /\ terminal(jobs[id]) => jobs'[id] = jobs[id]
<1>3. Init => Leased
  BY <1>1
<1>4. Inv /\ [Next]_vars => [Moves]_vars
  BY <1>2
<1>5. ImplementsDocxLeases <=> Leased /\ [][Moves]_vars
  BY DEF ImplementsDocxLeases
<1> HIDE DEF Leased, Moves
<1> QED
  BY <1>3, <1>4, <1>5, SpecInv, PTL DEF Spec
=============================================================================
