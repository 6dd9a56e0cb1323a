---------------------------- MODULE DocumentSet ----------------------------
(***************************************************************************)
(* The documents of a draft: the tree of Markdown files tracked by Git and *)
(* the manifest that orders them with uploaded PDFs, through any sequence  *)
(* of commits (edits, appended PDFs, reorders that may leave documents     *)
(* out), and the Merkle hash that pins a set in the audit trail.           *)
(*                                                                         *)
(* A content digest stands for the content, a hash for what was hashed, a  *)
(* position for the place in the sequence; identifiers are minted in order *)
(* and a Markdown title, which its path determines, is left out.           *)
(***************************************************************************)
EXTENDS Naturals, Sequences, SequencesExt, FiniteSets

CONSTANTS
  Paths,      \* Markdown files under documents/, numbered in order
  Contents,   \* what a file may contain
  Pdfs,       \* digests of uploaded PDFs
  MaxSize,    \* MAX_DOCUMENT_SET_SIZE
  MaxCommits, \* bound: commits made
  None

DocumentSetConstants ==
  /\ MaxSize \in Nat \ {0} /\ MaxCommits \in Nat
  /\ Paths \subseteq Nat
  /\ None \notin Paths \cup Contents

VARIABLES
  tree,      \* the tracked files: what each path contains, or None
  manifest,  \* document-set.json of the head; empty when the draft has none
  minted,    \* identifiers minted so far
  commits

vars == <<tree, manifest, minted, commits>>

pdf(id, digest) == [id |-> id, kind |-> "pdf", name |-> None, digest |-> digest]

leaves(set) == ToSet(set)
named(set, path) == {leaf \in leaves(set) : leaf.name = path}
tracked == {p \in Paths : tree[p] # None}

\* assertDocumentSet: what is published is within bounds, or refused.
wellFormed(set) ==
  /\ Len(set) \in 1..MaxSize
  /\ \A i, j \in DOMAIN set :
       i # j => set[i].id # set[j].id /\ (set[i].kind = "markdown" => set[i].name # set[j].name)

-----------------------------------------------------------------------------
(***************************************************************************)
(* Commits.                                                                *)
(***************************************************************************)

\* Paths that are not in the new set are no longer tracked.
keepMarkdown_all(files, set) == files

keepMarkdown(files, set) ==
  [p \in Paths |-> IF named(set, p) = {} THEN None ELSE files[p]]

\* Slip: a document that is left out of the order stays tracked.

\* The first manifest of a draft: its files in the order of their paths.
materialize(files) ==
  LET paths == SetToSortSeq({p \in Paths : files[p] # None}, LAMBDA p, q : p < q)
  IN  [i \in DOMAIN paths |-> [id |-> minted + i, kind |-> "markdown", name |-> paths[i],
                               digest |-> files[paths[i]]]]

publish(set, files, fresh) ==
  /\ wellFormed(set)
  /\ manifest' = set
  /\ tree' = keepMarkdown(files, set)
  /\ minted' = minted + fresh
  /\ commits < MaxCommits /\ commits' = commits + 1

\* Slip: an edit of a known file is taken for a new file.
leafAt_renewed(leaf, edits, files, id) ==
  IF leaf.kind = "markdown" /\ leaf.name \in edits
  THEN [leaf EXCEPT !.id = id, !.digest = files[leaf.name]] ELSE leaf

\* upsertMarkdownDocument of a known path keeps the leaf and its identifier.
leafAt(leaf, edits, files, id) ==
  IF leaf.kind = "markdown" /\ leaf.name \in edits
  THEN [leaf EXCEPT !.digest = files[leaf.name]] ELSE leaf

\* Files are written; new ones follow what is there, in the order of paths.
commitEdits(edits, content) ==
  LET files == [p \in Paths |-> IF p \in edits THEN content ELSE tree[p]]
      known == [i \in DOMAIN manifest |-> leafAt(manifest[i], edits, files, minted + i)]
      paths == SetToSortSeq({p \in edits : named(manifest, p) = {}}, LAMBDA p, q : p < q)
      new   == [i \in DOMAIN paths |-> [id |-> minted + i, kind |-> "markdown",
                                        name |-> paths[i], digest |-> content]]
  IN  IF manifest = <<>>
      THEN publish(materialize(files), files, Cardinality(Paths))
      ELSE publish(known \o new, files, Cardinality(Paths))

\* A draft from before manifests gets one before the PDF is put in.
appendPdf(digest, position) ==
  LET base == IF manifest = <<>> THEN materialize(tree) ELSE manifest
      leaf == pdf(minted + Cardinality(Paths) + 1, digest)
  IN  /\ position \in 0..Len(base)
      /\ publish(InsertAt(base, position + 1, leaf), tree, Cardinality(Paths) + 1)

\* An order names documents of the set, none twice; the others are dropped.
reorder(order) ==
  /\ manifest # <<>>
  /\ Len(order) > 0 /\ IsInjective(order)
  /\ \A i \in DOMAIN order : order[i] \in DOMAIN manifest
  /\ publish([i \in DOMAIN order |-> manifest[order[i]]], tree, 0)

Init ==
  /\ tree \in [Paths -> Contents \cup {None}]
  /\ manifest = <<>> /\ minted = 0 /\ commits = 0

Next ==
  \/ \E edits \in SUBSET Paths \ {{}}, content \in Contents : commitEdits(edits, content)
  \/ \E digest \in Pdfs, position \in 0..MaxSize : appendPdf(digest, position)
  \/ \E order \in SeqOf(1..Len(manifest), Len(manifest)) : reorder(order)

Spec == Init /\ [][Next]_vars

-----------------------------------------------------------------------------
(***************************************************************************)
(* Hashes.                                                                 *)
(***************************************************************************)

RECURSIVE merkleRoot(_), inclusionSiblings(_, _), foldInclusionProof(_, _, _, _)

\* Slip: only the content is hashed.
leafHashes_content(set) == [i \in DOMAIN set |-> <<"leaf", set[i].digest>>]

leafHashes(set) == [i \in DOMAIN set |-> <<"leaf", i, set[i]>>]

hashNode(left, right) == <<"node", left, right>>

largestPowerOfTwoLessThan(n) ==
  CHOOSE k \in 1..n : (\E e \in 0..n : k = 2^e) /\ k < n /\ 2 * k >= n

merkleRoot(hashes) ==
  LET k == largestPowerOfTwoLessThan(Len(hashes))
  IN  IF Len(hashes) = 1 THEN hashes[1]
      ELSE hashNode(merkleRoot(SubSeq(hashes, 1, k)),
                    merkleRoot(SubSeq(hashes, k + 1, Len(hashes))))

documentSetHash(set) == merkleRoot(leafHashes(set))

\* From the leaf up; indices count from 1.
inclusionSiblings(hashes, index) ==
  LET k == largestPowerOfTwoLessThan(Len(hashes))
      left == SubSeq(hashes, 1, k)
      right == SubSeq(hashes, k + 1, Len(hashes))
  IN  IF Len(hashes) = 1 THEN <<>>
      ELSE IF index <= k THEN Append(inclusionSiblings(left, index), merkleRoot(right))
      ELSE Append(inclusionSiblings(right, index - k), merkleRoot(left))

\* Slip: the sibling always goes to the right.
foldInclusionProof_rightOnly(hash, index, size, siblings) ==
  FoldSeq(LAMBDA sibling, h : hashNode(h, sibling), hash, siblings)

\* A proof of the wrong length hashes to nothing.
foldInclusionProof(hash, index, size, siblings) ==
  LET k == largestPowerOfTwoLessThan(size)
      rest == Front(siblings)
      fold(i, n) == foldInclusionProof(hash, i, n, rest)
  IN  CASE size = 1 -> IF siblings = <<>> THEN hash ELSE <<>>
        [] size > 1 /\ siblings = <<>> -> <<>>
        [] size > 1 /\ siblings # <<>> /\ index <= k ->
             IF fold(index, k) = <<>> THEN <<>> ELSE hashNode(fold(index, k), Last(siblings))
        [] OTHER ->
             IF fold(index - k, size - k) = <<>> THEN <<>>
             ELSE hashNode(Last(siblings), fold(index - k, size - k))

inclusionProof(set, index) ==
  [index |-> index, size |-> Len(set), leafHash |-> leafHashes(set)[index],
   siblings |-> inclusionSiblings(leafHashes(set), index)]

verifyInclusionProof(set, proof) ==
  /\ proof.size = Len(set)
  /\ proof.leafHash = leafHashes(set)[proof.index]
  /\ foldInclusionProof(proof.leafHash, proof.index, proof.size, proof.siblings)
       = documentSetHash(set)

-----------------------------------------------------------------------------
(***************************************************************************)
(* Properties.                                                             *)
(***************************************************************************)

\* The manifest describes the tree: the Markdown documents of the set are
\* exactly the tracked files, with the content they have, so that the check
\* of the built tree never refuses a commit of the author.  About
\* buildDocumentSetCommit and assertResultingDocumentSet, through edits,
\* reorders that drop documents, and drafts older than manifests.
TreeDescribed ==
  manifest # <<>> =>
    /\ wellFormed(manifest)
    /\ tracked = {leaf.name : leaf \in {l \in leaves(manifest) : l.kind = "markdown"}}
    /\ \A leaf \in leaves(manifest) : leaf.kind = "markdown" => tree[leaf.name] = leaf.digest

\* An identifier means one document for good, which is what field placements
\* and orders rely on: a document that stays keeps its identifier, whatever
\* is edited or moved, and a new document never gets one that was in use.
\* About upsertMarkdownDocument, appendPdfDocument and reorderDocumentSet.
IdentifiersStable ==
  [][/\ \A a \in leaves(manifest), b \in leaves(manifest') :
          a.id = b.id => a.kind = b.kind /\ a.name = b.name
                         /\ (a.kind = "pdf" => a.digest = b.digest)
     /\ \A a \in leaves(manifest), b \in leaves(manifest') :
          a.kind = "markdown" /\ a.name = b.name => a.id = b.id
     /\ \A b \in leaves(manifest') :
          b.id <= minted => \E a \in leaves(manifest) : a.id = b.id]_vars

\* The hash pins the set: every document has a proof that verifies, and no
\* proof verifies against the set of the next revision unless it is the same
\* set.  About merkleRoot, inclusionSiblings and foldInclusionProof at every
\* size, the odd ones included.
ProofsVerify ==
  \A i \in DOMAIN manifest : verifyInclusionProof(manifest, inclusionProof(manifest, i))

HashPins ==
  [][manifest # <<>> /\ manifest' # manifest =>
       /\ documentSetHash(manifest') # documentSetHash(manifest)
       /\ \A i \in DOMAIN manifest :
            ~verifyInclusionProof(manifest', inclusionProof(manifest, i))]_vars
=============================================================================
