--------------------------- MODULE InvitationMail ----------------------------
(***************************************************************************)
(* Delivery of the mail of one instance invitation: the encrypted outbox   *)
(* row, the drain that leases it, the mail provider, and an invitation     *)
(* that is accepted, revoked or runs out meanwhile.  The number of         *)
(* attempts stands for the claim token.                                    *)
(***************************************************************************)
EXTENDS Naturals, FiniteSets

CONSTANTS
  MaxAttempts,  \* MAX_INSTANCE_INVITATION_DELIVERY_ATTEMPTS
  MaxCrashes,   \* bound: workers that die
  MaxOverruns   \* bound: leases outlived by a running worker

MailConstants == MaxAttempts \in Nat \ {0} /\ {MaxCrashes, MaxOverruns} \subseteq Nat

VARIABLES
  invitation,  \* "pending", "closed" (accepted or revoked) or "lapsed"
  row,         \* instance_invitation_delivery_outbox
  workers,     \* leases being worked on
  mails,       \* how often the provider was handed the mail
  crashes, overruns

bounds == <<crashes, overruns>>
vars == <<invitation, row, workers, mails, bounds>>

None == 0

NewRow == [status |-> "pending", retryable |-> TRUE, payload |-> TRUE, attempts |-> 0,
           stale |-> FALSE, by |-> None]

given == [row EXCEPT !.status = "failed", !.retryable = FALSE, !.payload = FALSE]

-----------------------------------------------------------------------------
\* Slip: the clean-up leaves rows alone whose worker died at the last attempt.
exhausted_settled == row.attempts >= MaxAttempts /\ row.status # "processing"

exhausted == row.attempts >= MaxAttempts /\ (row.status # "processing" \/ row.stale)

\* What the claim clears away first.
undeliverable == row.retryable /\ (invitation # "pending" \/ exhausted)

\* Slip: any failed row is taken again.
claimable_anyFailed ==
  /\ invitation = "pending" /\ row.attempts < MaxAttempts
  /\ row.status \in {"pending", "failed"} \/ (row.status = "processing" /\ row.stale)

\* The backoff (available_at) is a matter of when.
claimable ==
  /\ invitation = "pending" /\ row.attempts < MaxAttempts
  /\ \/ row.status \in {"pending", "failed"} /\ row.retryable
     \/ row.status = "processing" /\ row.stale

\* claimPending: one transaction clears away what cannot go out and leases
\* what can.
claimPending ==
  \/ /\ undeliverable
     /\ row' = given
     /\ UNCHANGED <<invitation, workers, mails, bounds>>
  \/ /\ ~undeliverable /\ claimable
     /\ row' = [row EXCEPT !.status = "processing", !.attempts = @ + 1, !.stale = FALSE]
     /\ workers' = workers \cup {[attempt |-> row.attempts + 1, pc |-> "read",
                                  outcome |-> "none"]}
     /\ UNCHANGED <<invitation, mails, bounds>>

leaseHeld(w) == row.status = "processing" /\ row.attempts = w.attempt

become(w, u) == workers' = (workers \ {w}) \cup {u}
ended(w, outcome) == [w EXCEPT !.pc = "record", !.outcome = outcome]

\* The row and its invitation are read again; the batch's clock decides on
\* the expiry, so an invitation that ran out since the claim still goes out.
\* The payload may be sealed under an unknown key, or not open.
readClaimed(w) ==
  /\ w.pc = "read"
  /\ IF ~leaseHeld(w) THEN workers' = workers \ {w}
     ELSE IF invitation = "closed" \/ ~row.payload THEN become(w, ended(w, "permanent"))
     ELSE \/ become(w, [w EXCEPT !.pc = "send"])
          \/ \E o \in {"transient", "permanent"} : become(w, ended(w, o))
  /\ UNCHANGED <<invitation, row, mails, bounds>>

\* The provider takes the mail and answers, or its answer is lost, or it
\* refuses.
send(w) ==
  /\ w.pc = "send"
  /\ \/ /\ mails' = mails + 1
        /\ \E o \in {"delivered", "transient"} : become(w, ended(w, o))
     \/ /\ \E o \in {"transient", "permanent"} : become(w, ended(w, o))
        /\ UNCHANGED mails
  /\ UNCHANGED <<invitation, row, bounds>>

willRetry(w) == w.outcome = "transient" /\ w.attempt < MaxAttempts

\* complete and fail, both conditional on the lease.
record(w) ==
  /\ w.pc = "record"
  /\ workers' = workers \ {w}
  /\ row' = IF ~leaseHeld(w) THEN row
            ELSE IF w.outcome = "delivered"
            THEN [given EXCEPT !.status = "delivered", !.by = w.attempt]
            ELSE IF willRetry(w) THEN [row EXCEPT !.status = "failed"]
            ELSE given
  /\ UNCHANGED <<invitation, mails, bounds>>

deliver(w) == readClaimed(w) \/ send(w) \/ record(w)

-----------------------------------------------------------------------------
\* Accepted, revoked, or a week has passed.
invitationEnds ==
  /\ invitation = "pending"
  /\ invitation' \in {"closed", "lapsed"}
  /\ UNCHANGED <<row, workers, mails, bounds>>

crash(w) ==
  /\ crashes < MaxCrashes /\ crashes' = crashes + 1
  /\ workers' = workers \ {w}
  /\ UNCHANGED <<invitation, row, mails, overruns>>

\* Five minutes pass.
leaseExpires ==
  LET running == \E w \in workers : w.attempt = row.attempts
  IN  /\ row.status = "processing" /\ ~row.stale
      /\ running => overruns < MaxOverruns
      /\ overruns' = IF running THEN overruns + 1 ELSE overruns
      /\ row' = [row EXCEPT !.stale = TRUE]
      /\ UNCHANGED <<invitation, workers, mails, crashes>>

Init ==
  /\ invitation = "pending" /\ row = NewRow
  /\ workers = {} /\ mails = 0 /\ crashes = 0 /\ overruns = 0

Next ==
  \/ claimPending \/ leaseExpires \/ invitationEnds
  \/ \E w \in workers : deliver(w) \/ crash(w)

Spec == Init /\ [][Next]_vars

\* The drain runs from a schedule and leases run out with the clock.
FairStep(i) ==
  \/ i = 1 /\ claimPending
  \/ i = 2 /\ leaseExpires
  \/ i = 3 /\ \E w \in workers : deliver(w)

Fairness == \A i \in 1..3 : WF_vars(FairStep(i))

FairSpec == Spec /\ Fairness

-----------------------------------------------------------------------------
\* The mail is handed to the provider no more often than there are attempts,
\* whatever crashed and however many workers outlived their leases.  About
\* the attempts counted and compared in claimPending.
MailsBounded == mails <= MaxAttempts

Leases == INSTANCE LeasedJob WITH
  phase <- CASE row.status = "pending" -> "open"
             [] row.status = "processing" -> "held"
             [] row.status = "delivered" -> "done"
             [] OTHER -> IF row.retryable THEN "open" ELSE "dead",
  lease <- row.attempts, winner <- row.by

\* The row is a leased job once it is enqueued, and an end is an end.  About
\* claimPending, complete and fail.
ImplementsMailLeases ==
  [][[Leases!JobNext]_(Leases!job) /\ (~row.retryable => row' = row)]_vars

\* The row comes to its end, and with it the invitation token is destroyed:
\* delivered, given up, or no longer wanted.  About the takeover of leases
\* and the clean-up in claimPending.
MailSettled == ~row.retryable /\ ~row.payload
=============================================================================
