------------------------------ MODULE LeasedJob ------------------------------
(***************************************************************************)
(* What every background queue of the program promises about one job: a    *)
(* lease is taken over only by a newer one, an outcome is written only     *)
(* under the newest lease, and a job that is done stays done.              *)
(***************************************************************************)
EXTENDS Naturals

VARIABLES
  phase,    \* where the job is
  lease,    \* how many leases have been handed out on it
  winner    \* the lease under which it was done, or 0

job == <<phase, lease, winner>>

Absent == phase = "absent" /\ lease = 0 /\ winner = 0

Enqueue == phase = "absent" /\ phase' = "open" /\ UNCHANGED <<lease, winner>>

\* Discovery may lease the job in the step that creates it.  A held job is
\* taken over when its lease is past its time.
Claim ==
  /\ phase \in {"absent", "open", "held"}
  /\ phase' = "held"
  /\ lease' = lease + 1
  /\ UNCHANGED winner

Release == phase = "held" /\ phase' = "open" /\ UNCHANGED <<lease, winner>>

Bury == phase \in {"open", "held"} /\ phase' = "dead" /\ UNCHANGED <<lease, winner>>

Revive == phase = "dead" /\ phase' = "open" /\ UNCHANGED <<lease, winner>>

Finish == phase = "held" /\ phase' = "done" /\ winner' = lease /\ UNCHANGED lease

JobNext == Enqueue \/ Claim \/ Release \/ Bury \/ Revive \/ Finish

JobSpec == Absent /\ [][JobNext]_job
=============================================================================
