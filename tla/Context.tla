------------------------------ MODULE Context ------------------------------
(***************************************************************************)
(* The requests for the language model: ContextBuilder and                 *)
(* group_files_by_subsystem of app/context.py, and the choice between one  *)
(* request and one per subsystem at the end of _prepare in                 *)
(* app/analyzer.py.  A text is its length.                                 *)
(***************************************************************************)
EXTENDS Selection, Sorting, SequencesExt

CONSTANTS
  Dir,              \* directory of each path, a sequence of names
  Other,            \* name of the group of merged directories
  Threshold,        \* hierarchical_file_threshold
  MaxGroups,        \* hierarchical_max_groups
  MaxContext,       \* max_context_chars
  MaxFileContext,   \* max_file_context_chars
  MinGroup,         \* the 4000 characters a group gets at least
  MinUseful,        \* MIN_USEFUL_CONTEXT_CHARS
  CutMark, Join,    \* lengths of the line that marks cut code, of a separator
  MaxSpans          \* bound: blocks of code around the changes of a file

ASSUME ContextAssumption ==
  /\ Dir \in [Paths -> Seq(STRING)] /\ \A p \in Paths : Dir[p] # Other
  /\ Threshold \in Nat /\ MaxGroups \in Nat \ {0}
  /\ MaxContext \in Nat /\ MaxFileContext \in Nat
  /\ MinGroup \in Nat \ {0} /\ MinUseful \in Nat \ {0}
  /\ CutMark \in Nat /\ Join \in Nat /\ MaxSpans \in Nat
  /\ \A v, w \in Versions \cup {Absent} :
       LET upto == Patch[v][w].upto
       IN  Len(upto) <= MaxSpans /\ \A i, j \in DOMAIN upto : i <= j => upto[i] <= upto[j]

VARIABLES
  groups,           \* groups whose request is still to be built
  made,             \* requests finished
  limits,           \* max_context_chars and max_file_context_chars of the builder
  request, at,      \* files of the request being built, and how many were added
  budget,           \* what is left of that request's budget
  shown, left       \* files that are in a request, files a full request left out

contextVars == <<groups, made, limits, request, at, budget, shown, left>>

NoLimits == [total |-> 0, file |-> 0]

ContextInit ==
  /\ groups = {} /\ made = 0 /\ limits = NoLimits
  /\ request = <<>> /\ at = 0 /\ budget = 0
  /\ shown = {} /\ left = {}

-----------------------------------------------------------------------------
(* group_files_by_subsystem.                                               *)

\* kept.sort by path; the sort is stable.
Ahead(f, g) == f.path < g.path \/ (f.path = g.path /\ Before(f, g))

ByPath(files) == {r \in files \X files : Ahead(r[1], r[2])}

\* The leading directories of a path; a file at the top has none.
KeyFor(f, depth) == SubSeq(Dir[f.path], 1, Min({depth, Len(Dir[f.path])}))

\* Each group has its files in the order of all files.
GroupsAt(files, depth) ==
  LET Group(key) == {f \in files : KeyFor(f, depth) = key}
  IN  {[name |-> key, files |-> Sorted(Group(key), ByPath(Group(key)))] :
         key \in {KeyFor(f, depth) : f \in files}}

\* Largest group first; ties in the order of their first files.
BySize(gs) ==
  {r \in gs \X gs :
     \/ Len(r[1].files) > Len(r[2].files)
     \/ Len(r[1].files) = Len(r[2].files) /\ Ahead(r[1].files[1], r[2].files[1])}

\* The files of some groups, group by group.
Chained(gs) ==
  LET files == UNION {Range(g.files) : g \in gs}
      Comes(f, k) == \E g, h \in gs :
        /\ f \in Range(g.files) /\ k \in Range(h.files)
        /\ <<g, h>> \in BySize(gs) \/ (g = h /\ Ahead(f, k))
  IN  Sorted(files, {r \in files \X files : Comes(r[1], r[2])})

\* The groups but for the n largest become one.
Merged(gs, n) ==
  LET tail == {g \in gs : Cardinality({h \in gs : <<h, g>> \in BySize(gs)}) >= n}
  IN  (gs \ tail) \cup (IF tail = {} THEN {} ELSE {[name |-> Other, files |-> Chained(tail)]})

\* Mutant: one group too many is kept apart from the merged ones.
MergeTooFew(files) == Merged(GroupsAt(files, 1), MaxGroups)

\* Still too many top-level directories: the smallest ones are merged.
MergeSmallest(files) == Merged(GroupsAt(files, 1), MaxGroups - 1)

GroupFilesBySubsystem(files) ==
  IF files = {} THEN {}
  ELSE IF Cardinality(GroupsAt(files, 2)) <= MaxGroups THEN GroupsAt(files, 2)
  ELSE IF Cardinality(GroupsAt(files, 1)) <= MaxGroups THEN GroupsAt(files, 1)
  ELSE MergeSmallest(files)

-----------------------------------------------------------------------------
(* build_file_context and render_spans.                                    *)

\* Mutant: the blocks are not cut off.
RenderedWhole(upto, max) ==
  IF upto = <<>> THEN 0 ELSE upto[Len(upto)] + Join * (Len(upto) - 1)

\* The length of the rendered blocks: whole ones while they fit, then a part
\* of the next one if that is worth it.
Rendered(upto, max) ==
  LET whole == Cardinality({i \in DOMAIN upto : upto[i] <= max})
      used == IF whole = 0 THEN 0 ELSE upto[whole]
  IN  IF whole < Len(upto) /\ max - used > MinUseful
        THEN max + CutMark + Join * whole
        ELSE used + Join * Max({whole - 1, 0})

\* char_size of the context of f: the diff always, and code where the diff
\* does not show the file already and leaves room.  No blocks stands for no
\* changed ranges and for a source that cannot be read.
FileSize(f, b) ==
  LET room == Min({b, limits.file}) - f.size
  IN  IF f.status \in {"deleted", "added"} \/ f.binary \/ room < MinUseful
        THEN f.size
        ELSE f.size + Rendered(f.upto, room)

-----------------------------------------------------------------------------
(* The end of _prepare.                                                    *)

\* One request for all files.
PlanSingle ==
  /\ phase = "plan" /\ Cardinality(kept) <= Threshold
  /\ limits' = [total |-> MaxContext, file |-> MaxFileContext]
  /\ groups' = {[name |-> <<>>, files |-> Sorted(kept, ByPath(kept))]}
  /\ phase' = "request"
  /\ UNCHANGED <<made, request, at, budget, shown, left>>

\* Large push: one request per subsystem, which share the budget.
PlanGroups ==
  /\ phase = "plan" /\ Cardinality(kept) > Threshold
  /\ groups' = GroupFilesBySubsystem(kept)
  /\ LET limit == Max({MinGroup, MaxContext \div Max({Cardinality(groups'), 1})})
     IN  limits' = [total |-> limit, file |-> Min({MaxFileContext, limit})]
  /\ phase' = "request"
  /\ UNCHANGED <<made, request, at, budget, shown, left>>

\* Mutant: every file may use the limit of a single file.
ShareUnsplit(n) == Max({MinUseful, limits.file})

\* per_file: an even split.
Share(n) == Max({MinUseful, Min({limits.file, limits.total \div Max({n, 1})})})

\* build is called for a group; the groups do not depend on each other.
OpenRequest ==
  /\ phase = "request"
  /\ \E g \in groups : groups' = groups \ {g} /\ request' = g.files
  /\ at' = 0
  /\ budget' = limits.total
  /\ phase' = "files"
  /\ UNCHANGED <<made, limits, shown, left>>

\* The next file of the loop.
AddFile ==
  /\ phase = "files" /\ at < Len(request) /\ budget > 0
  /\ LET f == request[at + 1]
     IN  /\ budget' = budget - FileSize(f, Min({Share(Len(request)), budget}))
         /\ shown' = shown \cup {f}
  /\ at' = at + 1
  /\ UNCHANGED <<groups, made, limits, request, left, phase>>

\* The loop ends, by break when the budget is used up; the files that are
\* left appear in no list.
CloseRequest ==
  /\ phase = "files" /\ (at = Len(request) \/ budget <= 0)
  /\ left' = left \cup {request[i] : i \in (at + 1)..Len(request)}
  /\ request' = <<>> /\ at' = 0
  /\ made' = made + 1
  /\ phase' = "request"
  /\ UNCHANGED <<groups, limits, budget, shown>>

ContextStep ==
  /\ PlanSingle \/ PlanGroups \/ OpenRequest \/ AddFile \/ CloseRequest
  /\ UNCHANGED <<entries, todo, kept, dropped, ignored, total>>

-----------------------------------------------------------------------------
(* Properties.                                                             *)

Building == phase \in {"request", "files"}

Overhead == CutMark + Join * MaxSpans

\* "Never an unbounded amount": a request exceeds its limit by at most one
\* diff or the marks of one file, however the diffs and the code around them
\* follow each other.
RequestIsBounded ==
  budget >= -Max({MaxFileDiff + ClipMark, BinaryNote, Overhead})

\* Grouping by two directories, by one, and the merge of the smallest lose no
\* file, put none into two requests and make no empty request, and the calls
\* of a push stay within hierarchical_max_groups.
EveryFileInOneRequest ==
  Building =>
    LET rest == {request[i] : i \in (at + 1)..Len(request)}
        waiting == UNION {Range(g.files) : g \in groups}
    IN  /\ kept = shown \cup left \cup rest \cup waiting
        /\ Cardinality(kept) = Cardinality(shown) + Cardinality(left) + (Len(request) - at)
                               + MapThenSumSet(LAMBDA g : Len(g.files), groups)
        /\ \A g \in groups : g.files # <<>>
        /\ made + Cardinality(groups) + (IF phase = "files" THEN 1 ELSE 0) <= MaxGroups

\* A request is full before its last file.
Starves == phase = "files" /\ budget <= 0 /\ at < Len(request)

EvenShare == limits.total \div Len(request)

OverShare == {i \in 1..at : request[i].size > EvenShare}

\* The even split works among files that keep to it: a file is left out of
\* its request only behind one whose diff is larger than its share, unless
\* the shares are raised above an even split or the marks outweigh a share.
EvenSplitHolds ==
  Starves =>
    \/ OverShare # {}
    \/ EvenShare < MinUseful
    \/ (Len(request) - 1) * Overhead >= EvenShare

\* "Even split, so one huge file cannot starve the rest of the change": the
\* comment on the split in build.
OneHugeFileStarvesNobody == Starves => Cardinality(OverShare) > 1
=============================================================================
