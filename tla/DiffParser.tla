----------------------------- MODULE DiffParser -----------------------------
(***************************************************************************)
(* parse_unified_diff (app/diff_parser.py) against the output of git diff. *)
(* git writes one line per step and knows what it says; the parser reads   *)
(* it in the same step and has only the line.  Lines of a hunk may look    *)
(* like header lines, and a form feed or another break that splitlines     *)
(* knows and git does not makes the rest of a line a line of its own.      *)
(***************************************************************************)
EXTENDS Integers, Sequences

CONSTANTS
  Names,            \* paths in the repository
  Changes,          \* what the sections of a diff may be about
  Quoted,           \* names git writes in quotes
  Ambiguous,        \* names that contain " b/"
  Cut,              \* Cut[n]: n without a one-letter first directory, if it has one
  NoName,           \* None
  LeftPart, RightPart,  \* what is found in a header split at the wrong place
  Positions,        \* bound: where hunks start
  MaxSections, MaxLines \* bounds: sections, and lines of hunks

ASSUME DiffParserAssumption ==
  /\ Quoted \subseteq Names /\ Ambiguous \subseteq Names
  /\ Cut \in [Names -> Names]
  /\ {NoName, LeftPart, RightPart} \cap Names = {}
  /\ LeftPart # RightPart /\ NoName \notin {LeftPart, RightPart}
  /\ Positions \subseteq Nat \ {0}
  /\ MaxSections \in Nat /\ MaxLines \in Nat

HasRename(s) == s.status \in {"renamed", "copied"}

ASSUME ChangesAssumption ==
  /\ Changes \subseteq [status : {"added", "deleted", "modified", "renamed", "copied"},
                        body : {"hunks", "binary", "none"}, old : Names, new : Names]
  /\ \A s \in Changes : HasRename(s) \/ s.old = s.new

VARIABLES
  \* git
  section,          \* what the current section says
  script,           \* its header lines still to be written
  written,          \* sections and lines of hunks so far
  \* the parser
  block,            \* the _Block being filled
  in_hunk, new_line,
  last              \* the last ChangedFile, with the section it was made from

writerVars == <<section, script, written>>
parserVars == <<block, in_hunk, new_line, last>>
vars == <<writerVars, parserVars>>

-----------------------------------------------------------------------------
(* What git writes.  A line is what the parser's tests can see: its first  *)
(* characters, what kind of header line it looks like, the name or the     *)
(* names in it, and the position in a hunk header.                         *)

Line(first, header, name, start) ==
  [first |-> first, header |-> header, name |-> name, start |-> start]

HeaderLine(header, name) == Line("other", header, name, 0)

\* The old and the new name as git writes them on the --- and +++ lines.
OldName(s) == IF s.status = "added" THEN NoName ELSE s.old
NewName(s) == IF s.status = "deleted" THEN NoName ELSE s.new

StatusLines(s) ==
  CASE s.status = "added" -> <<HeaderLine("new file mode", NoName)>>
    [] s.status = "deleted" -> <<HeaderLine("deleted file mode", NoName)>>
    [] s.status = "renamed" -> <<HeaderLine("rename from", s.old), HeaderLine("rename to", s.new)>>
    [] s.status = "copied" -> <<HeaderLine("copy from", s.old), HeaderLine("copy to", s.new)>>
    [] s.status = "modified" -> <<HeaderLine("old mode", NoName)>>

BodyLines(s) ==
  CASE s.body = "hunks" -> <<Line("-", "---", OldName(s), 0), Line("+", "+++", NewName(s), 0)>>
    [] s.body = "binary" -> <<HeaderLine("Binary files", NoName)>>
    [] s.body = "none" -> <<>>

HeaderLines(s) ==
  <<HeaderLine("diff", <<s.old, s.new>>)>> \o StatusLines(s) \o BodyLines(s)

Truth(s) ==
  [status |-> s.status, body |-> s.body, old |-> s.old, new |-> s.new,
   adds |-> 0, dels |-> 0, touched |-> {}, open |-> FALSE, line |-> 0, drift |-> 0, strays |-> 0]

-----------------------------------------------------------------------------
(* The parser.                                                             *)

NoBlock == [exists |-> FALSE]

\* _header_paths_from_diff_line: the line is split at the first " b/".
HeaderPaths(o, n) ==
  CASE o \in Quoted -> <<>>
    [] o \in Ambiguous \ Quoted -> <<LeftPart, RightPart>>
    [] o \notin Quoted \cup Ambiguous /\ n \in Quoted -> <<>>
    [] OTHER -> <<o, n>>

NewBlock(line) ==
  [exists |-> TRUE, old_path |-> NoName, new_path |-> NoName,
   rename_from |-> NoName, rename_to |-> NoName,
   is_new |-> FALSE, is_deleted |-> FALSE, is_copy |-> FALSE, is_binary |-> FALSE,
   additions |-> 0, deletions |-> 0, touched |-> {},
   header_paths |-> HeaderPaths(line.name[1], line.name[2])]

Or(a, b) == IF a # NoName THEN a ELSE b

\* _finalise
Finalise(b) ==
  LET fromHeader(i) == IF b.header_paths = <<>> THEN NoName ELSE b.header_paths[i]
      named == Or(b.rename_from, b.old_path) # NoName \/ Or(b.rename_to, b.new_path) # NoName
      old0 == IF named THEN Or(b.rename_from, b.old_path) ELSE fromHeader(1)
      new0 == IF named THEN Or(b.rename_to, b.new_path) ELSE fromHeader(2)
      old1 == IF b.is_new THEN NoName ELSE old0
      new1 == IF b.is_new THEN Or(new0, fromHeader(2)) ELSE new0
      old == IF b.is_deleted THEN Or(old1, fromHeader(1)) ELSE old1
      new == IF b.is_deleted THEN NoName ELSE new1
  IN  [old |-> old, new |-> new, binary |-> b.is_binary,
       additions |-> b.additions, deletions |-> b.deletions, touched |-> b.touched,
       status |-> CASE b.is_new -> "added"
                    [] ~b.is_new /\ b.is_deleted -> "deleted"
                    [] ~b.is_new /\ ~b.is_deleted /\ b.is_copy -> "copied"
                    [] OTHER -> IF b.rename_from # NoName
                                     \/ (old # NoName /\ new # NoName /\ old # new)
                                  THEN "renamed" ELSE "modified"]

\* The extended header: rename and copy lines have no a/ or b/ prefix, and
\* lose what looks like one.
ReadHeader(b, line) ==
  CASE line.header = "new file mode" -> [b EXCEPT !.is_new = TRUE]
    [] line.header = "deleted file mode" -> [b EXCEPT !.is_deleted = TRUE]
    [] line.header = "rename from" -> [b EXCEPT !.rename_from = Cut[line.name]]
    [] line.header = "rename to" -> [b EXCEPT !.rename_to = Cut[line.name]]
    [] line.header = "copy from" -> [b EXCEPT !.is_copy = TRUE, !.rename_from = Cut[line.name]]
    [] line.header = "copy to" -> [b EXCEPT !.is_copy = TRUE, !.rename_to = Cut[line.name]]
    [] line.header = "---" -> [b EXCEPT !.old_path = line.name]
    [] line.header = "+++" -> [b EXCEPT !.new_path = line.name]
    [] line.header = "Binary files" -> [b EXCEPT !.is_binary = TRUE]
    [] OTHER -> b

\* A line of a hunk.
ReadHunkLine(b, line) ==
  CASE line.first = "+" -> [b EXCEPT !.additions = @ + 1, !.touched = @ \cup {new_line}]
    [] line.first = "-" -> [b EXCEPT !.deletions = @ + 1, !.touched = @ \cup {new_line}]
    [] OTHER -> b

Close == IF block.exists THEN last' = [file |-> Finalise(block), truth |-> section]
                         ELSE UNCHANGED last

\* Mutant: header lines are recognised wherever they stand.
InHunkByLooks(line) == in_hunk /\ line.header = "none"

InHunk(line) == in_hunk

\* Mutant: the marker of a missing newline is taken for a line of the file.
AdvanceOverMarker(line) == IF line.first = "-" THEN new_line ELSE new_line + 1

\* Removed lines and the marker of a missing newline have no line number.
Advance(line) == IF line.first \in {"-", "\\"} THEN new_line ELSE new_line + 1

\* One turn of the loop.  git writes a diff line first, so there is a block.
ReadLine(line) ==
  \/ /\ line.header = "diff"
     /\ Close
     /\ block' = NewBlock(line) /\ in_hunk' = FALSE
     /\ UNCHANGED new_line
  \/ /\ line.header # "diff" /\ line.first = "@@"
     /\ in_hunk' = TRUE /\ new_line' = line.start
     /\ UNCHANGED <<block, last>>
  \/ /\ line.header # "diff" /\ line.first # "@@" /\ InHunk(line)
     /\ block' = ReadHunkLine(block, line) /\ new_line' = Advance(line)
     /\ UNCHANGED <<in_hunk, last>>
  \/ /\ line.header # "diff" /\ line.first # "@@" /\ ~InHunk(line)
     /\ block' = ReadHeader(block, line)
     /\ UNCHANGED <<in_hunk, new_line, last>>

-----------------------------------------------------------------------------
(* The text, line by line.                                                 *)

Init ==
  /\ section = Truth([status |-> "modified", body |-> "none", old |-> NoName, new |-> NoName])
  /\ script = <<>> /\ written = [sections |-> 0, lines |-> 0]
  /\ block = NoBlock /\ in_hunk = FALSE /\ new_line = 0
  /\ last = [file |-> NoBlock, truth |-> section]

\* The diff line of the next file.
WriteSection ==
  /\ script = <<>> /\ written.sections < MaxSections
  /\ block.exists \/ written.sections = 0
  /\ \E s \in Changes :
       /\ section' = Truth(s)
       /\ script' = Tail(HeaderLines(s))
       /\ ReadLine(Head(HeaderLines(s)))
  /\ written' = [written EXCEPT !.sections = @ + 1]

WriteHeaderLine ==
  /\ script # <<>>
  /\ script' = Tail(script)
  /\ ReadLine(Head(script))
  /\ UNCHANGED <<section, written>>

InBody == block.exists /\ script = <<>> /\ section.body = "hunks" /\ written.lines < MaxLines

CountLine == script' = script /\ written' = [written EXCEPT !.lines = @ + 1]

\* A hunk that leaves lines in the new file starts at its first line there,
\* one that leaves none at 0.
WriteHunk ==
  /\ InBody
  /\ \E start \in (IF section.status = "added" THEN {} ELSE {0})
                   \cup (IF section.status = "deleted" THEN {} ELSE Positions) :
       /\ section' = [section EXCEPT !.open = TRUE, !.line = start, !.drift = 0]
       /\ ReadLine(Line("@@", "none", NoName, start))
  /\ CountLine

\* An added line; its text may start with "++ ".
WriteAdded ==
  /\ InBody /\ section.open /\ section.line > 0
  /\ section' = [section EXCEPT !.adds = @ + 1, !.touched = @ \cup {section.line}, !.line = @ + 1]
  /\ \E looks \in {"none", "+++"} : ReadLine(Line("+", looks, RightPart, 0))
  /\ CountLine

\* A removed line, marked where it was; its text may start with "-- ".
WriteRemoved ==
  /\ InBody /\ section.open /\ section.status # "added"
  /\ section' = [section EXCEPT !.dels = @ + 1, !.touched = @ \cup {section.line}]
  /\ \E looks \in {"none", "---"} : ReadLine(Line("-", looks, LeftPart, 0))
  /\ CountLine

WriteContext ==
  /\ InBody /\ section.open /\ section.line > 0 /\ section.status # "added"
  /\ section' = [section EXCEPT !.line = @ + 1]
  /\ ReadLine(Line("other", "none", NoName, 0))
  /\ CountLine

\* "\ No newline at end of file", after any line.
WriteMarker ==
  /\ InBody /\ section.open
  /\ ReadLine(Line("\\", "none", NoName, 0))
  /\ CountLine /\ UNCHANGED section

\* The rest of a line after a break that only splitlines knows.  It may start
\* with @@ but is not the header of a hunk or of a file.
WriteStray ==
  /\ InBody /\ section.open
  /\ \E first \in {"+", "-", "\\", "@@", "other"} :
       /\ section' = [section EXCEPT !.strays = @ + 1,
                                      !.drift = IF first \in {"+", "other"} THEN @ + 1 ELSE @]
       /\ ReadLine(Line(first, "none", NoName, new_line))
  /\ CountLine

\* The end of the text.
EndOfText ==
  /\ script = <<>> /\ block.exists
  /\ Close
  /\ block' = NoBlock
  /\ UNCHANGED <<writerVars, in_hunk, new_line>>

Next ==
  \/ WriteSection \/ WriteHeaderLine \/ WriteHunk \/ WriteAdded \/ WriteRemoved
  \/ WriteContext \/ WriteMarker \/ WriteStray \/ EndOfText

Spec == Init /\ [][Next]_vars

-----------------------------------------------------------------------------
(* Properties.                                                             *)

\* Inside a hunk the parser is where git is, but for the lines it was made to
\* see since the hunk began: a line that looks like a header, a marker or an
\* earlier hunk does not shift the lines that follow.
ParserKeepsPosition ==
  block.exists =>
    /\ in_hunk = section.open
    /\ in_hunk => new_line = section.line + section.drift

\* The section the last file was made from.
Told == last.truth
Heard == last.file

\* What changed in the last file is counted and located as git meant it, if
\* none of its lines was broken.
ChangesAreCounted ==
  (last.file # NoBlock /\ Told.strays = 0) =>
    /\ Heard.additions = Told.adds /\ Heard.deletions = Told.dels
    /\ Heard.touched = Told.touched
    /\ Heard.binary = (Told.body = "binary")

\* The names stand on lines the parser can tell apart: on the --- and +++
\* lines, or else on a diff line that splits in one way; and no name of a
\* rename starts with a directory that looks like a prefix.
NamesAreReadable(s) ==
  IF HasRename(s) THEN Cut[s.old] = s.old /\ Cut[s.new] = s.new
  ELSE s.body = "hunks" \/ s.old \notin Quoted \cup Ambiguous

\* Each section gives a file of its status and names, whatever the kind of the
\* change, from whichever header lines the section has.
FileIsIdentified ==
  (last.file # NoBlock /\ NamesAreReadable(Told)) =>
    /\ Heard.status = Told.status
    /\ Heard.old = OldName(Told) /\ Heard.new = NewName(Told)
=============================================================================
