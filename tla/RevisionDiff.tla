---------------------------- MODULE RevisionDiff ----------------------------
(***************************************************************************)
(* The unified diff of two revisions of a Markdown document: an edit       *)
(* script from a table of longest common subsequences, cut into hunks by a *)
(* single pass with a look-ahead, and written out with line ranges and     *)
(* end-of-file marks.  A text is its lines and whether the last one is     *)
(* terminated; a run of this module is one call of formatUnifiedDiff.      *)
(***************************************************************************)
EXTENDS Integers, Sequences, SequencesExt, FiniteSetsExt

CONSTANTS
  Lines,         \* line contents
  MinLines, MaxLines,  \* bounds: lines of a text
  Contexts,      \* values of contextLines
  MaxCells,      \* MAX_LCS_MATRIX_CELLS
  Terminated     \* bound: whether texts may end without a newline

RevisionDiffConstants ==
  /\ MinLines \in Nat /\ MaxLines \in Nat /\ MaxCells \in Nat
  /\ Contexts \subseteq Nat /\ Terminated \subseteq BOOLEAN

VARIABLES
  old, new,           \* the two texts
  contextLines,
  script,             \* the edit script; none before it is computed
  idx,                \* lines of the script read so far
  hunk, hunks,        \* the open hunk, if any, and the closed ones
  trailing,           \* context lines since the last change of the open hunk
  oldLine, newLine    \* numbers of the next lines

text == <<old, new, contextLines>>
pass == <<idx, hunk, hunks, trailing, oldLine, newLine>>
vars == <<text, script, pass>>

Texts ==
  {t \in [lines : SeqOf(Lines, MaxLines), newline : Terminated] :
     Len(t.lines) >= MinLines /\ (t.lines = <<>> => t.newline)}

NoScript == <<>>

-----------------------------------------------------------------------------
(***************************************************************************)
(* The edit script.                                                        *)
(***************************************************************************)

edit(type, line) == [type |-> type, line |-> line]

edits(type, lines) == [i \in DOMAIN lines |-> edit(type, lines[i])]

\* A row of the table from the one before it.
lcsRow(above, line, b) ==
  FoldLeft(LAMBDA row, j : Append(row, IF line = b[j] THEN above[j] + 1
                                       ELSE Max({row[j], above[j + 1]})),
           <<0>>, [j \in DOMAIN b |-> j])

\* dp[i + 1][j + 1]: the length of a longest common subsequence of the first i
\* and the first j lines.
lcs(a, b) ==
  FoldLeft(LAMBDA dp, line : Append(dp, lcsRow(Last(dp), line, b)),
           <<[j \in 1..(Len(b) + 1) |-> 0]>>, a)

\* Slip: the shorter prefix is followed.
prefersAddition_swapped(dp, i, j) == dp[i + 1][j] <= dp[i][j + 1]

prefersAddition(dp, i, j) == dp[i + 1][j] >= dp[i][j + 1]

\* The way back through the table.
backtrack(a, b) ==
  LET dp == lcs(a, b)
      path[p \in (0..Len(a)) \X (0..Len(b))] ==
        LET i == p[1]
            j == p[2]
        IN  IF i = 0 /\ j = 0 THEN <<>>
            ELSE IF i > 0 /\ j > 0 /\ a[i] = b[j]
            THEN Append(path[<<i - 1, j - 1>>], edit("context", a[i]))
            ELSE IF j > 0 /\ (i = 0 \/ prefersAddition(dp, i, j))
            THEN Append(path[<<i, j - 1>>], edit("addition", b[j]))
            ELSE Append(path[<<i - 1, j>>], edit("deletion", a[i]))
  IN  path[<<Len(a), Len(b)>>]

tooLarge == Len(old.lines) * Len(new.lines) > MaxCells

lineDiff ==
  IF old = new THEN edits("context", old.lines)
  ELSE IF tooLarge THEN edits("deletion", old.lines) \o edits("addition", new.lines)
  ELSE backtrack(old.lines, new.lines)

computeLineDiff ==
  /\ script = NoScript /\ old # new
  /\ script' = lineDiff
  /\ UNCHANGED <<text, pass>>

-----------------------------------------------------------------------------
(***************************************************************************)
(* The hunks.                                                              *)
(***************************************************************************)

NoHunk == [oldStart |-> 0, oldCount |-> 0, newStart |-> 0, newCount |-> 0, lines |-> <<>>]

reading == idx < Len(script) /\ Len(script) > 0

next == script[idx + 1]

advance ==
  /\ idx' = idx + 1
  /\ oldLine' = IF next.type = "addition" THEN oldLine ELSE oldLine + 1
  /\ newLine' = IF next.type = "deletion" THEN newLine ELSE newLine + 1
  /\ UNCHANGED <<text, script>>

\* A new hunk starts with the context before the change.
opened(lead) ==
  [oldStart |-> Max({1, oldLine - Len(lead)}), oldCount |-> Len(lead),
   newStart |-> Max({1, newLine - Len(lead)}), newCount |-> Len(lead), lines |-> lead]

extended(h) ==
  [h EXCEPT !.lines = Append(@, next),
            !.oldCount = IF next.type = "addition" THEN @ ELSE @ + 1,
            !.newCount = IF next.type = "deletion" THEN @ ELSE @ + 1]

change ==
  LET lead == SubSeq(script, Max({0, idx - contextLines}) + 1, idx)
  IN  /\ reading /\ next.type # "context"
      /\ hunk' = extended(IF hunk = NoHunk THEN opened(lead) ELSE hunk)
      /\ trailing' = 0
      /\ UNCHANGED hunks
      /\ advance

\* Slip: the next change is looked for within the trailing context only.
changeAhead_near ==
  \E k \in (idx + 2)..Min({Len(script), idx + contextLines}) : script[k].type # "context"

\* A change follows that is near enough to share the hunk.
changeAhead ==
  \E k \in (idx + 2)..Min({Len(script), idx + 1 + 2 * contextLines}) : script[k].type # "context"

\* Slip: a hunk closes when no change follows soon, whatever its trailing
\* context.
ends_early == ~changeAhead
ends == trailing + 1 >= contextLines /\ ~changeAhead

contextLine ==
  /\ reading /\ next.type = "context"
  /\ IF hunk = NoHunk THEN UNCHANGED <<hunk, hunks, trailing>>
     ELSE IF ends
     THEN hunks' = Append(hunks, extended(hunk)) /\ hunk' = NoHunk /\ trailing' = 0
     ELSE hunk' = extended(hunk) /\ trailing' = trailing + 1 /\ UNCHANGED hunks
  /\ advance

lastHunk ==
  /\ script # NoScript /\ ~reading /\ hunk # NoHunk
  /\ hunks' = Append(hunks, hunk)
  /\ hunk' = NoHunk
  /\ UNCHANGED <<text, script, idx, trailing, oldLine, newLine>>

-----------------------------------------------------------------------------
Init ==
  /\ old \in Texts /\ new \in Texts
  /\ contextLines \in Contexts
  /\ script = NoScript /\ idx = 0
  /\ hunk = NoHunk /\ hunks = <<>>
  /\ trailing = 0 /\ oldLine = 1 /\ newLine = 1

Next == computeLineDiff \/ change \/ contextLine \/ lastHunk

Spec == Init /\ [][Next]_vars

formatted == script # NoScript /\ ~reading /\ hunk = NoHunk

-----------------------------------------------------------------------------
(***************************************************************************)
(* What formatUnifiedDiff writes of the hunks.                             *)
(***************************************************************************)

\* A range of no lines names the line before it.
start(first, count) == IF count = 0 THEN first - 1 ELSE first

\* The line with its end-of-file mark.
marked(h, i) ==
  LET l == h.lines[i]
      before(type) == Cardinality({k \in 1..(i - 1) : h.lines[k].type # type})
      oldLast == l.type # "addition" /\ h.oldStart + before("addition") = Len(old.lines)
      newLast == l.type # "deletion" /\ h.newStart + before("deletion") = Len(new.lines)
  IN  [type |-> l.type, line |-> l.line,
       eof |-> (oldLast /\ ~old.newline) \/ (newLast /\ ~new.newline)]

written(h) ==
  [oldStart |-> start(h.oldStart, h.oldCount), oldCount |-> h.oldCount,
   newStart |-> start(h.newStart, h.newCount), newCount |-> h.newCount,
   lines |-> [i \in DOMAIN h.lines |-> marked(h, i)]]

unified == [k \in DOMAIN hunks |-> written(hunks[k])]

-----------------------------------------------------------------------------
(***************************************************************************)
(* Properties.                                                             *)
(***************************************************************************)

side(lines, type) ==
  LET those == SelectSeq(lines, LAMBDA l : l.type # type)
  IN  [i \in DOMAIN those |-> those[i].line]

oldSide(lines) == side(lines, "addition")
newSide(lines) == side(lines, "deletion")

Subsequences(s) ==
  {FoldLeft(LAMBDA t, i : IF i \in S THEN Append(t, s[i]) ELSE t, <<>>, [i \in DOMAIN s |-> i]) :
     S \in SUBSET DOMAIN s}

\* The script turns the old lines into the new ones, and, below the bound on
\* the table, no script keeps more lines.  The length is compared with the
\* definition of a longest common subsequence.  About computeLineDiff.
ScriptMinimal ==
  script # NoScript /\ idx = 0 =>
    /\ oldSide(script) = old.lines /\ newSide(script) = new.lines
    /\ tooLarge \/
       Len(SelectSeq(script, LAMBDA l : l.type = "context")) =
         Max({Len(s) : s \in Subsequences(old.lines) \cap Subsequences(new.lines)})

\* The line of the old text a hunk starts at; after which, if it covers none.
firstOld(h) == IF h.oldCount = 0 THEN h.oldStart + 1 ELSE h.oldStart

\* Applying the hunks one after the other: the lines between them are kept.
Applied(hs) ==
  LET end(k) == IF k = 0 THEN 0 ELSE firstOld(hs[k]) + hs[k].oldCount - 1
      piece(k) == SubSeq(old.lines, end(k - 1) + 1, firstOld(hs[k]) - 1) \o newSide(hs[k].lines)
  IN  FlattenSeq([k \in DOMAIN hs |-> piece(k)])
        \o SubSeq(old.lines, end(Len(hs)) + 1, Len(old.lines))

\* What is written is a patch: hunks do not overlap, each one's old side is
\* found in the old text at the lines its header gives, its header counts its
\* lines and says where they are in the new text, and applying it gives the
\* new lines.  A hunk is opened, extended and closed at different lines of one
\* pass, and its ranges depend on all of them.  About buildUnifiedHunks and
\* formatUnifiedDiff.
PatchApplies ==
  formatted =>
    /\ \A k \in DOMAIN unified :
         LET h == unified[k]
             first == firstOld(h)
             firstNew == IF h.newCount = 0 THEN h.newStart + 1 ELSE h.newStart
         IN  /\ k > 1 => first > firstOld(unified[k - 1]) + unified[k - 1].oldCount - 1
             /\ SubSeq(old.lines, first, first + h.oldCount - 1) = oldSide(h.lines)
             /\ SubSeq(new.lines, firstNew, firstNew + h.newCount - 1) = newSide(h.lines)
             /\ h.oldCount = Len(oldSide(h.lines)) /\ h.newCount = Len(newSide(h.lines))
    /\ Applied(unified) = new.lines

\* Every change is written with the context asked for, also where changes are
\* close and share a hunk.  About the look-ahead.
ContextComplete ==
  formatted =>
    LET near == {i \in DOMAIN script :
                   \E c \in (i - contextLines)..(i + contextLines) :
                     c \in DOMAIN script /\ script[c].type # "context"}
    IN  FoldFunction(LAMBDA h, n : Len(h.lines) + n, 0, hunks) >= Cardinality(near)
=============================================================================
