--------------------------- MODULE RevisionChanges ---------------------------
(***************************************************************************)
(* The diff of two document sets: every document is classified, the list   *)
(* is cut to a number of files, line diffs are computed for the Markdown   *)
(* documents that remain until a budget of bytes is used up, and what was  *)
(* computed is joined to one text under a second budget.  A run of this    *)
(* module is one call of generateRevisionDiff.  Of a line diff only its    *)
(* size matters, and RevisionDiff is about the rest; title and path of a   *)
(* document are one name.                                                  *)
(***************************************************************************)
EXTENDS Naturals, Sequences, SequencesExt, FiniteSetsExt

CONSTANTS
  Markdown, Pdf,   \* document ids by kind
  DiffBytes,       \* size of a document's line diff
  Budgets,         \* values of maxDiffBytes
  FileLimits,      \* values of maxFiles
  HeaderBytes,     \* size of a file header
  MarkerBytes      \* size of the truncation marker

Ids == Markdown \cup Pdf

RevisionChangesConstants ==
  /\ Markdown \cap Pdf = {}
  /\ DiffBytes \in [Markdown -> Nat]
  /\ Budgets \subseteq Nat /\ FileLimits \subseteq Nat
  /\ HeaderBytes \in Nat \ {0} /\ MarkerBytes \in Nat

VARIABLES
  base, head,                             \* documents of the two sets, in order
  maxDiffBytes, maxFiles, includeUnified,
  pc,
  returned,    \* the changes that are kept
  deferred,    \* those whose line diff is still to be computed
  remaining,   \* bytes left for line diffs
  diffs,       \* what a document's diff became: bytes written, and whether cut
  joined,      \* changes joined to the text, with the bytes of each piece
  toJoin, total,
  truncated

input == <<base, head, maxDiffBytes, maxFiles, includeUnified>>
vars == <<input, pc, returned, deferred, remaining, diffs, joined, toJoin, total, truncated>>

-----------------------------------------------------------------------------
(***************************************************************************)
(* Classification.                                                         *)
(***************************************************************************)

\* Only whether values differ matters: the base has the value 1 everywhere.
Leaves(values) == [id : Ids, name : values, content : values]

Manifests(values) ==
  {s \in SeqOf(Leaves(values), Cardinality(Ids)) :
     \A i, j \in DOMAIN s : s[i].id = s[j].id => i = j}

ids(manifest) == {manifest[i].id : i \in DOMAIN manifest}

position(manifest, id) == CHOOSE i \in DOMAIN manifest : manifest[i].id = id

leaf(manifest, id) == manifest[position(manifest, id)]

contentChanged(id) ==
  \/ id \notin ids(base) \cap ids(head)
  \/ leaf(base, id).content # leaf(head, id).content

changeType(id) ==
  IF id \notin ids(base) THEN "added"
  ELSE IF id \notin ids(head) THEN "removed"
  ELSE IF ~contentChanged(id) /\ leaf(base, id).name = leaf(head, id).name
          /\ position(base, id) = position(head, id)
  THEN "unchanged" ELSE "modified"

idsOf(manifest) == [i \in DOMAIN manifest |-> manifest[i].id]

\* The head's documents in order, then those that were removed.
allChanges ==
  idsOf(head) \o SelectSeq(idsOf(base), LAMBDA id : id \notin ids(head))

changed(id) == changeType(id) # "unchanged"

first(seq, n) == SubSeq(seq, 1, Min({n, Len(seq)}))

\* Slip: the list is cut as it stands.
kept_asListed == first(allChanges, maxFiles)

\* Unchanged documents go first when the list is cut.
kept ==
  IF Len(allChanges) <= maxFiles THEN allChanges
  ELSE first(SelectSeq(allChanges, changed) \o SelectSeq(allChanges, LAMBDA id : ~changed(id)),
             maxFiles)

classify ==
  /\ pc = "classify"
  /\ returned' = kept
  /\ truncated' = (Len(allChanges) > maxFiles)
  /\ deferred' = SelectSeq(allChanges, LAMBDA id :
                   id \in Markdown /\ contentChanged(id) /\ id \in ToSet(kept))
  /\ pc' = "diff"
  /\ UNCHANGED <<input, remaining, diffs, joined, toJoin, total>>

-----------------------------------------------------------------------------
(***************************************************************************)
(* Line diffs.                                                             *)
(***************************************************************************)

record(id, bytes, cut) ==
  /\ diffs' = [diffs EXCEPT ![id] = [bytes |-> bytes, cut |-> cut]]
  /\ truncated' = (truncated \/ cut)

\* Slip: a diff that is cut leaves the budget as it is.
spent_kept(bytes) == IF bytes <= remaining THEN remaining - bytes ELSE remaining

spent(bytes) == IF bytes <= remaining THEN remaining - bytes ELSE 0

diffNext ==
  LET id == Head(deferred)
      bytes == DiffBytes[id]
  IN  /\ pc = "diff" /\ deferred # <<>>
      /\ deferred' = Tail(deferred)
      /\ IF ~includeUnified \/ remaining = 0
         THEN record(id, 0, includeUnified) /\ UNCHANGED remaining
         ELSE /\ record(id, Min({bytes, remaining}), bytes > remaining)
              /\ remaining' = spent(bytes)
      /\ UNCHANGED <<input, pc, returned, joined, toJoin, total>>

diffsDone ==
  /\ pc = "diff" /\ deferred = <<>>
  /\ pc' = "join"
  /\ toJoin' = SelectSeq(returned, changed)
  /\ UNCHANGED <<input, returned, deferred, remaining, diffs, joined, total, truncated>>

-----------------------------------------------------------------------------
(***************************************************************************)
(* The text.                                                               *)
(***************************************************************************)

available(separator) ==
  IF total + separator > maxDiffBytes THEN 0 ELSE maxDiffBytes - total - separator

partBytes(id) == HeaderBytes + diffs[id].bytes

separator == IF joined = <<>> THEN 0 ELSE 1

joinNext ==
  LET id == Head(toJoin)
      room == available(separator)
      budget == IF room > MarkerBytes THEN room - MarkerBytes ELSE 0
      piece == IF budget > 0 THEN budget + MarkerBytes ELSE Min({MarkerBytes, room})
  IN  /\ pc = "join" /\ toJoin # <<>>
      /\ IF partBytes(id) <= room
         THEN /\ joined' = Append(joined, [id |-> id, bytes |-> partBytes(id)])
              /\ total' = total + separator + partBytes(id)
              /\ toJoin' = Tail(toJoin)
              /\ UNCHANGED truncated
         ELSE /\ joined' = IF room = 0 THEN joined ELSE Append(joined, [id |-> id, bytes |-> piece])
              /\ toJoin' = <<>>
              /\ truncated' = TRUE
              /\ UNCHANGED total
      /\ UNCHANGED <<input, pc, returned, deferred, remaining, diffs>>

-----------------------------------------------------------------------------
Init ==
  /\ base \in Manifests({1}) /\ head \in Manifests({1, 2})
  /\ maxDiffBytes \in Budgets /\ maxFiles \in FileLimits /\ includeUnified \in BOOLEAN
  /\ pc = "classify"
  /\ returned = <<>> /\ deferred = <<>> /\ remaining = maxDiffBytes
  /\ diffs = [id \in Ids |-> [bytes |-> 0, cut |-> FALSE]]
  /\ joined = <<>> /\ toJoin = <<>> /\ total = 0 /\ truncated = FALSE

Next == classify \/ diffNext \/ diffsDone \/ joinNext

Spec == Init /\ [][Next]_vars

done == pc = "join" /\ toJoin = <<>>

-----------------------------------------------------------------------------
(***************************************************************************)
(* Properties.                                                             *)
(***************************************************************************)

\* Neither the line diffs together nor the text exceed the limit on bytes,
\* whatever markers and separators are added.  About MAX_DIFF_BYTES.
BytesBounded ==
  /\ FoldFunction(LAMBDA d, n : d.bytes + n, 0, diffs) <= maxDiffBytes
  /\ FoldFunction(LAMBDA p, n : p.bytes + n, 0, joined)
       + (IF joined = <<>> THEN 0 ELSE Len(joined) - 1) <= maxDiffBytes

\* A result that does not say it is truncated hides nothing: every document is
\* listed, every line diff and every change is in the text in full.  However
\* short the list, an unchanged document never takes the place of a changed one.
NothingHidden ==
  done =>
    /\ \A id \in ids(base) \cup ids(head) :
         id \notin ToSet(returned) /\ changed(id) => \A k \in ToSet(returned) : changed(k)
    /\ ~truncated =>
         /\ ToSet(returned) = ids(base) \cup ids(head)
         /\ \A id \in ToSet(returned) :
              changed(id) => \E p \in ToSet(joined) : p.id = id /\ p.bytes = partBytes(id)
         /\ \A id \in Markdown \cap ToSet(returned) :
              includeUnified /\ contentChanged(id) => diffs[id].bytes = DiffBytes[id]
=============================================================================
