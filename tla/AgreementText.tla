---------------------------- MODULE AgreementText ----------------------------
(***************************************************************************)
(* What authoring promises about the text of one agreement: every revision *)
(* is made from the one it replaces, nothing is edited while it is offered,*)
(* and what is issued is what was offered, for good.                       *)
(***************************************************************************)
EXTENDS Sequences

VARIABLES
  text,     \* the edits that made the current text, oldest first
  stage,    \* "open", "offered", "issued" or "cancelled"
  issued    \* the text recipients were given

agreement == <<text, stage, issued>>

Blank == stage \in {"open", "offered"} /\ issued = <<>>

Edit ==
  /\ stage = "open"
  /\ \E e \in {text'[i] : i \in DOMAIN text'} : text' = Append(text, e)
  /\ UNCHANGED <<stage, issued>>

Offer == stage = "open" /\ text # <<>> /\ stage' = "offered" /\ UNCHANGED <<text, issued>>

Withdraw == stage = "offered" /\ stage' = "open" /\ UNCHANGED <<text, issued>>

Issue == stage = "offered" /\ stage' = "issued" /\ issued' = text /\ UNCHANGED text

Cancel == stage \in {"open", "offered"} /\ stage' = "cancelled" /\ UNCHANGED <<text, issued>>

AgreementNext == Edit \/ Offer \/ Withdraw \/ Issue \/ Cancel

AgreementSpec == Blank /\ [][AgreementNext]_agreement
=============================================================================
