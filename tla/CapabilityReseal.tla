-------------------------- MODULE CapabilityReseal ---------------------------
(***************************************************************************)
(* Rotation of the key that seals invitation capabilities: the rows of the *)
(* delivery outbox, the reseal sweep that moves them to the active key,    *)
(* the drain that opens them, and a deployment in which processes with the *)
(* old and the new keyring run side by side.  Keys are numbered in the     *)
(* order of rotation; a process of generation g seals under key g and      *)
(* opens keys g and g - 1 (the latter until it is dropped).                *)
(***************************************************************************)
EXTENDS Naturals, FiniteSets

CONSTANTS
  Deliveries,   \* rows of delivery_outbox
  BatchLimit,   \* MAX_DELIVERY_RESEAL_SWEEP_BATCH
  MaxAttempts,  \* MAX_INVITATION_DELIVERY_ATTEMPTS
  MaxRotations, \* bound: rotations
  MaxOverruns   \* bound: attempts at which a lease is outlived by its worker

ResealConstants ==
  /\ IsFiniteSet(Deliveries)
  /\ {BatchLimit, MaxAttempts} \subseteq Nat \ {0} 
  /\ {MaxRotations, MaxOverruns} \subseteq Nat

VARIABLES
  rows,      \* delivery_outbox: status, the key of the ciphertext (0: none), attempts
  running,   \* generations deployed
  previous,  \* DELIVERY_ENCRYPTION_KEY_PREVIOUS is set for the newest
  sweeps,    \* rows a sweep has read: generation, row, key
  tasks      \* leases being worked on

vars == <<rows, running, previous, sweeps, tasks>>

None == 0
newest == CHOOSE g \in running : \A h \in running : h <= g
known(g) == IF g = newest /\ ~previous THEN {g} ELSE {g, g - 1}

-----------------------------------------------------------------------------
\* findStaleSealedCapabilities: at most BatchLimit rows.
stale(g) ==
  {d \in Deliveries : rows[d].status \in {"blocked", "pending", "failed"}
                      /\ rows[d].sealed \notin {None, g}}

findStaleSealedCapabilities(g) ==
  /\ ~\E s \in sweeps : s.by = g
  /\ \E batch \in SUBSET stale(g) \ {{}} :
       /\ Cardinality(batch) <= BatchLimit
       /\ batch # stale(g) => Cardinality(batch) = BatchLimit
       /\ sweeps' = sweeps \cup {[by |-> g, row |-> d, key |-> rows[d].sealed] : d \in batch}
  /\ UNCHANGED <<rows, running, previous, tasks>>

\* Slip: the write does not ask what has become of the ciphertext.
resealable_blind(s) == rows[s.row].status # "processing"

\* Slip: the write expects the key it brings.
resealable_own(s) ==
  rows[s.row].status # "processing" /\ rows[s.row].sealed # None /\ rows[s.row].sealed = s.by

resealable(s) ==
  rows[s.row].status # "processing" /\ rows[s.row].sealed # None /\ rows[s.row].sealed = s.key

\* open, reseal under the active key of the process, and the guarded write.
resealCapability(s) ==
  /\ sweeps' = sweeps \ {s}
  /\ rows' = IF s.key \in known(s.by) /\ resealable(s)
             THEN [rows EXCEPT ![s.row].sealed = s.by] ELSE rows
  /\ UNCHANGED <<running, previous, tasks>>

-----------------------------------------------------------------------------
scrubbed(x, status) == [x EXCEPT !.status = status, !.sealed = None]

working(d) == \E t \in tasks : t.row = d

\* The lease has run out: its worker is gone, or takes longer than it may.
lapsed(d) ==
  rows[d].status = "processing" /\ (working(d) => rows[d].attempts <= MaxOverruns)

\* The drain: a pending or retryable row, or one whose lease has run out.
claimPendingInvitations(g) ==
  /\ \E d \in Deliveries :
       /\ rows[d].status \in {"pending", "failed"} \/ lapsed(d)
       /\ rows' = [rows EXCEPT ![d].status = "processing", ![d].attempts = @ + 1]
       /\ tasks' = {t \in tasks : t.row # d}
                     \cup {[by |-> g, row |-> d, attempt |-> rows[d].attempts + 1]}
  /\ UNCHANGED <<running, previous, sweeps>>

\* Slip: a key the process does not know is taken for a broken row.
retryable_never(t) == FALSE

\* A key outside the keyring is not the row's fault.
retryable(t) == t.attempt < MaxAttempts

\* #deliverClaim: a key the process does not know is retried; with a known one
\* the mail is accepted, or fails in a way that is retried or is not.
deliverClaim(t) ==
  /\ tasks' = tasks \ {t}
  /\ LET x == rows[t.row]
         again == IF retryable(t) THEN [x EXCEPT !.status = "failed"] ELSE scrubbed(x, "dead")
     IN  IF x.sealed \in known(t.by)
         THEN \E y \in {scrubbed(x, "delivered"), again, scrubbed(x, "dead")} :
                rows' = [rows EXCEPT ![t.row] = y]
         ELSE rows' = [rows EXCEPT ![t.row] = again]
  /\ UNCHANGED <<running, previous, sweeps>>

\* The next routing group is released.
releaseBlocked(d) ==
  /\ rows[d].status = "blocked"
  /\ rows' = [rows EXCEPT ![d].status = "pending"]
  /\ UNCHANGED <<running, previous, sweeps, tasks>>

\* The envelope ends, or the recipient does: a row that is not leased is
\* scrubbed.
terminalCleanup(d) ==
  /\ rows[d].status \in {"blocked", "pending", "failed"} \/ lapsed(d)
  /\ rows' = [rows EXCEPT ![d] = scrubbed(@, "cancelled")]
  /\ tasks' = {t \in tasks : t.row # d}
  /\ UNCHANGED <<running, previous, sweeps>>

-----------------------------------------------------------------------------
\* The operator's part (docs/deployment.md): the new key is deployed with the
\* old one as previous, the old processes end, and the previous key is unset
\* once no row reports it.
rotate ==
  /\ Cardinality(running) = 1 /\ ~previous /\ newest <= MaxRotations
  /\ running' = running \cup {newest + 1} /\ previous' = TRUE
  /\ UNCHANGED <<rows, sweeps, tasks>>

\* Processes of an old generation stop, with what they were doing.
oldStops ==
  /\ Cardinality(running) > 1
  /\ running' = {newest}
  /\ sweeps' = {s \in sweeps : s.by = newest} /\ tasks' = {t \in tasks : t.by = newest}
  /\ UNCHANGED <<rows, previous>>

unsetPrevious ==
  /\ previous /\ running = {newest}
  /\ \A d \in Deliveries : rows[d].sealed \in {None, newest}
  /\ previous' = FALSE
  /\ UNCHANGED <<rows, running, sweeps, tasks>>

Init ==
  /\ rows \in [Deliveries -> [status : {"blocked", "pending"}, sealed : {1}, attempts : {0}]]
  /\ running = {1} /\ previous = FALSE /\ sweeps = {} /\ tasks = {}

Next ==
  \/ \E g \in running : findStaleSealedCapabilities(g) \/ claimPendingInvitations(g)
  \/ \E s \in sweeps : resealCapability(s)
  \/ \E t \in tasks : deliverClaim(t)
  \/ \E d \in Deliveries : releaseBlocked(d) \/ terminalCleanup(d)
  \/ rotate \/ oldStops \/ unsetPrevious

Spec == Init /\ [][Next]_vars

\* Sweep and drain are scheduled in the processes of the newest generation,
\* and the old ones stop in the end.
FairStep(i) ==
  \/ i = 1 /\ findStaleSealedCapabilities(newest)
  \/ i = 2 /\ claimPendingInvitations(newest)
  \/ i = 3 /\ \E s \in sweeps : resealCapability(s)
  \/ i = 4 /\ \E t \in tasks : deliverClaim(t)
  \/ i = 5 /\ oldStops

Fairness == \A i \in 1..5 : WF_vars(FairStep(i))

FairSpec == Spec /\ Fairness

-----------------------------------------------------------------------------
\* A capability that was destroyed with its row stays destroyed, whatever a
\* sweep had read before.  About the conditions of resealCapability.
DestroyedStays ==
  [][\A d \in Deliveries : rows[d].sealed = None => rows'[d].sealed = None]_vars

\* An invitation is not given up because of the rotation: a worker
\* whose keyring lacks the row's key fails the row for good only with all
\* attempts used.
\* About the classification of sealing_key_mismatch.
MismatchRetried ==
  [][\A t \in tasks :
       t \notin tasks' /\ rows[t.row].sealed \notin known(t.by) \cup {None}
       /\ rows'[t.row].status = "dead" /\ rows[t.row].status = "processing"
         => t.attempt >= MaxAttempts]_vars

\* A rotation can be finished: every row leaves the previous key, also rows that
\* are blocked, and rows that are claimed when the sweep comes by.
RotationFinished == previous => \A d \in Deliveries : rows[d].sealed \in {None, newest}

RotationFinishes == []<>RotationFinished
=============================================================================
