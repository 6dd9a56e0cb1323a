-------------------------- MODULE MCEnvelopeSigning --------------------------
(***************************************************************************)
(* Small instances of EnvelopeSigning.                                     *)
(***************************************************************************)
EXTENDS EnvelopeSigning, TLC

CONSTANTS a, b, c

\* Two approvers share order 1; the signer follows.
ParallelThenSigner ==
  {a, b, c}
ParallelRole == a :> "approver" @@ b :> "approver" @@ c :> "signer"
ParallelOrder == a :> 1 @@ b :> 1 @@ c :> 2

\* Two signers side by side.
Pair == {a, b}
ParallelPairRole == a :> "signer" @@ b :> "signer"
ParallelPairOrder == a :> 1 @@ b :> 1

Single == {a}
SingleRole == a :> "signer"
SingleOrder == a :> 1

SessionSymmetry == Permutations(Sessions)
=============================================================================
