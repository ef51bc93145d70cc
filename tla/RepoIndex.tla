----------------------------- MODULE RepoIndex -----------------------------
(***************************************************************************)
(* What the repository map holds (RepoMapStore.build_full and              *)
(* apply_changes in app/repo_map.py, _update_repo_map in app/analyzer.py). *)
(* A tree gives every path its version, an index the version a path was    *)
(* indexed at.                                                             *)
(***************************************************************************)
EXTENDS Selection

CONSTANTS
  Sources,          \* paths is_source_file accepts
  Binaries          \* versions with a NUL byte in their first 8000 bytes

ASSUME RepoIndexAssumption == Sources \subseteq Paths /\ Binaries \subseteq Versions

Trees == [Paths -> Versions \cup {Absent}]

EmptyMap == [p \in Paths |-> Absent]

\* file_content: None when absent or binary.
Read(tree, p) == IF tree[p] \in Binaries THEN Absent ELSE tree[p]

\* The full index of bootstrap.
BuildFull(tree) ==
  [p \in Paths |-> IF p \in Sources \ Ignored THEN Read(tree, p) ELSE Absent]

-----------------------------------------------------------------------------
(* apply_changes: three loops, in this order.  The old path of a rename    *)
(* does not exist in the new tree, so it is not the new path of another.   *)

ApplyRenamed(map, tree, renamed) ==
  [p \in Paths |->
     IF p \in Sources /\ Read(tree, p) # Absent /\ \E r \in renamed : r.new = p
       THEN Read(tree, p)
     ELSE IF \E r \in renamed : r.old = p THEN Absent ELSE map[p]]

ApplyDeleted(map, deleted) == [p \in Paths |-> IF p \in deleted THEN Absent ELSE map[p]]

\* A file that cannot be read any more leaves the index.
ApplyModified(map, tree, modified) ==
  [p \in Paths |-> IF p \in modified \cap Sources THEN Read(tree, p) ELSE map[p]]

\* Mutant: deletions are applied last.
ApplyDeletedLast(map, tree, modified, deleted, renamed) ==
  ApplyDeleted(ApplyModified(ApplyRenamed(map, tree, renamed), tree, modified), deleted)

ApplyChanges(map, tree, modified, deleted, renamed) ==
  ApplyModified(ApplyDeleted(ApplyRenamed(map, tree, renamed), deleted), tree, modified)

-----------------------------------------------------------------------------
(* The lists _update_repo_map makes from diff.files.                       *)

ExistsAfter(f) == f.status # "deleted" /\ f.new # NoPath

\* The index after a push whose files were selected for analysis.
Updated(map, tree, files) ==
  ApplyChanges(map, tree,
               {f.new : f \in {g \in files : ExistsAfter(g)}},
               {f.old : f \in {g \in files : g.status = "deleted"}},
               {f \in files : f.status = "renamed"})
=============================================================================
