----------------------------- MODULE Selection -----------------------------
(***************************************************************************)
(* build_diff_result of app/git_repo.py: which of the changed files of a   *)
(* push are analysed, and how much of each.  Paths are numbers, so that    *)
(* the order of git and of sort is the order of the numbers; the ignore    *)
(* patterns (app/ignore.py) are the set of paths they match; a diff is its *)
(* length, and additions plus deletions are one weight.                    *)
(***************************************************************************)
EXTENDS Integers, Sequences, FiniteSets, FiniteSetsExt

CONSTANTS
  Paths,            \* paths of the repository
  Ignored,          \* paths IgnoreMatcher matches
  Versions,         \* contents of a file
  Patch,            \* Patch[v][w]: what git diff writes for a change from v to w
  MaxChangedFiles,  \* max_changed_files
  MaxFileDiff,      \* max_file_diff_chars
  MaxTotalDiff,     \* max_diff_chars
  ClipMark,         \* length of the line that marks a truncated diff
  BinaryNote        \* length of the text that replaces a binary diff

\* The version of a path that does not exist, and the path of no file.
Absent == 0
NoPath == 0

\* upto[i] is the length of the first i blocks of code around the change.
Patches == [size : Nat, weight : Nat, binary : BOOLEAN, upto : Seq(Nat)]

ASSUME SelectionAssumption ==
  /\ Paths \subseteq Nat \ {NoPath} /\ IsFiniteSet(Paths)
  /\ Ignored \subseteq Paths
  /\ Versions \subseteq Nat \ {Absent}
  /\ \A v, w \in Versions \cup {Absent} : Patch[v][w] \in Patches
  /\ MaxChangedFiles \in Nat /\ MaxFileDiff \in Nat /\ MaxTotalDiff \in Nat
  /\ ClipMark \in Nat /\ BinaryNote \in Nat

VARIABLES
  entries,          \* name_status, with the versions of each path
  todo,             \* files the loop has still to decide on
  kept, dropped,    \* the loop's results
  ignored,          \* entries left out by the ignore patterns
  total,            \* total_diff_chars
  phase             \* where _prepare stands

selectionVars == <<entries, todo, kept, dropped, ignored, total, phase>>

SelectionInit ==
  /\ phase = "idle"
  /\ entries = {} /\ todo = {} /\ kept = {} /\ dropped = {} /\ ignored = {}
  /\ total = 0

-----------------------------------------------------------------------------
(* Changes and files.                                                      *)

\* Renames have a second path; new_path or path.
Effective(e) == IF e.new # NoPath THEN e.new ELSE e.path

\* A rename is skipped when both of its paths are ignored.
Skipped(e) ==
  Effective(e) \in Ignored /\ (e.new = NoPath \/ e.path \in Ignored)

File(e, status, patch) ==
  [old |-> IF status = "added" THEN NoPath ELSE e.path,
   new |-> IF status = "deleted" THEN NoPath ELSE Effective(e),
   path |-> Effective(e), status |-> status, binary |-> patch.binary,
   size |-> patch.size, weight |-> patch.weight, upto |-> patch.upto]

\* The sections git writes for an entry: a change of type is a deletion and
\* an addition of the same path.
Sections(e) ==
  CASE e.code = "A" -> {File(e, "added", Patch[Absent][e.to])}
    [] e.code = "M" -> {File(e, "modified", Patch[e.from][e.to])}
    [] e.code = "D" -> {File(e, "deleted", Patch[e.from][Absent])}
    [] e.code = "R" -> {File(e, "renamed", Patch[e.from][e.to])}
    [] e.code = "T" -> {File(e, "deleted", Patch[e.from][Absent]),
                        File(e, "added", Patch[Absent][e.to])}

\* diff_files: git diff for the paths that are kept.
DiffFiles(es) == UNION {Sections(e) : e \in es}

\* The order after files.sort: largest change first, ties as git wrote them.
Before(f, g) ==
  \/ f.weight > g.weight
  \/ /\ f.weight = g.weight
     /\ f.path < g.path \/ (f.path = g.path /\ f.status = "deleted" /\ g.status # "deleted")

Clipped(f, mark) ==
  IF f.binary THEN [f EXCEPT !.size = BinaryNote]
  ELSE IF f.size > MaxFileDiff THEN [f EXCEPT !.size = MaxFileDiff + mark] ELSE f

\* Mutant: a truncated diff is marked and its text kept.
ClipNot(f) == IF f.binary THEN Clipped(f, ClipMark) ELSE f

\* A binary diff is replaced, a long one truncated and marked.
Clip(f) == Clipped(f, ClipMark)

-----------------------------------------------------------------------------
(* The steps of build_diff_result.                                         *)

\* The entries are split before git is asked for any patch.
Split ==
  /\ phase = "listed"
  /\ ignored' = {e \in entries : Skipped(e)}
  /\ todo' = DiffFiles(entries \ ignored')
  /\ phase' = "cap"
  /\ UNCHANGED <<entries, kept, dropped, total>>

\* The first files of the order, as many as the limit allows.
IsHead(first, files) ==
  /\ IF Cardinality(files) > MaxChangedFiles
       THEN Cardinality(first) = MaxChangedFiles
       ELSE first = files
  /\ \A f \in first, g \in files \ first : Before(f, g)

\* Mutant: files above the limit are cut off and not reported.
CapQuietly ==
  /\ phase = "cap"
  /\ \E first \in SUBSET todo : IsHead(first, todo) /\ todo' = first
  /\ phase' = "take"
  /\ UNCHANGED <<entries, kept, dropped, ignored, total>>

\* Files above the limit on their number are dropped, the smallest changes.
Cap ==
  /\ phase = "cap"
  /\ \E first \in SUBSET todo :
       IsHead(first, todo) /\ todo' = first /\ dropped' = todo \ first
  /\ phase' = "take"
  /\ UNCHANGED <<entries, kept, ignored, total>>

\* f is the next file of the loop.
IsNext(f) == f \in todo /\ \A g \in todo \ {f} : Before(f, g)

\* Mutant: the first file that does not fit ends the loop.
TakeUntilFull ==
  /\ phase = "take"
  /\ \E f \in todo :
       /\ IsNext(f)
       /\ IF total + Clip(f).size > MaxTotalDiff
            THEN dropped' = dropped \cup todo /\ todo' = {} /\ UNCHANGED <<kept, total>>
            ELSE /\ todo' = todo \ {f}
                 /\ kept' = kept \cup {Clip(f)}
                 /\ total' = total + Clip(f).size
                 /\ UNCHANGED dropped
  /\ UNCHANGED <<entries, ignored, phase>>

\* Mutant: the room is measured before a long diff is truncated.
TakeByFullSize ==
  /\ phase = "take"
  /\ \E f \in todo :
       /\ IsNext(f)
       /\ todo' = todo \ {f}
       /\ IF total + f.size > MaxTotalDiff
            THEN dropped' = dropped \cup {f} /\ UNCHANGED <<kept, total>>
            ELSE /\ kept' = kept \cup {Clip(f)}
                 /\ total' = total + Clip(f).size
                 /\ UNCHANGED dropped
  /\ UNCHANGED <<entries, ignored, phase>>

\* One file of the loop: what does not fit is passed over, a later and
\* smaller one may still fit.
Take ==
  /\ phase = "take"
  /\ \E f \in todo :
       /\ IsNext(f)
       /\ todo' = todo \ {f}
       /\ IF total + Clip(f).size > MaxTotalDiff
            THEN dropped' = dropped \cup {f} /\ UNCHANGED <<kept, total>>
            ELSE /\ kept' = kept \cup {Clip(f)}
                 /\ total' = total + Clip(f).size
                 /\ UNCHANGED dropped
  /\ UNCHANGED <<entries, ignored, phase>>

\* The DiffResult is returned.
Selected ==
  /\ phase = "take" /\ todo = {}
  /\ phase' = "selected"
  /\ UNCHANGED <<entries, todo, kept, dropped, ignored, total>>

SelectionStep == Split \/ Cap \/ Take \/ Selected

-----------------------------------------------------------------------------
(* Properties.                                                             *)

Listed == phase \in {"idle", "listed"}

\* build_diff_result splits, caps and clips a push in four places: every
\* change still ends up in exactly one of the lists that the summary and its
\* notes are made from (files, ignored_files, dropped_files).
EveryChangeIsAccountedFor ==
  ~Listed =>
    /\ \A e \in entries : e \in ignored \/ \A f \in Sections(e) :
         \E g \in todo \cup kept \cup dropped : g.path = f.path /\ g.status = f.status
    /\ \A e \in ignored : {e.path, Effective(e)} \subseteq Ignored
    /\ \A f \in kept, g \in dropped : ~(f.path = g.path /\ f.status = g.status)

\* "All limits are applied here so nothing downstream can accidentally hand
\* an unbounded diff to the LLM": number, length of each and total length,
\* the marks and notes the function itself adds included.
DiffIsBounded ==
  /\ Cardinality(kept) <= MaxChangedFiles
  /\ \A f \in kept : f.size <= MaxFileDiff + ClipMark \/ f.binary
  /\ MapThenSumSet(LAMBDA f : f.size, kept) <= MaxTotalDiff

\* A file is left out only if the files taken before it, which have larger
\* changes, leave no room for it: neither the cap nor the skipped files cost
\* a file that would have fitted.
DroppedForWantOfRoom ==
  phase = "selected" =>
    \A f \in dropped :
      LET larger == {g \in kept : Before(g, f)}
      IN  \/ Cardinality(larger \cup {g \in dropped : Before(g, f)}) >= MaxChangedFiles
          \/ MapThenSumSet(LAMBDA g : g.size, larger) + Clip(f).size > MaxTotalDiff

\* The limits leave room for one file, whatever its size.
RoomForOne ==
  /\ MaxChangedFiles >= 1
  /\ MaxFileDiff + ClipMark <= MaxTotalDiff /\ BinaryNote <= MaxTotalDiff

\* has_analysable_changes is false only for a push whose changes are all
\* ignored: the limits never empty a push, which would be reported as
\* "no_changes" or "ignored_only" and never analysed.
LimitsNeverEmptyAPush ==
  (RoomForOne /\ phase = "selected" /\ kept = {}) => \A e \in entries : Skipped(e)
=============================================================================
