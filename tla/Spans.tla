------------------------------- MODULE Spans -------------------------------
(***************************************************************************)
(* From changed lines to the code that is shown around them: _coalesce of  *)
(* app/diff_parser.py and the span functions of app/context.py.  A span is *)
(* a pair of line numbers, both included.                                  *)
(***************************************************************************)
EXTENDS Sorting, SequencesExt

Covered(spans) == UNION {s[1]..s[2] : s \in Range(spans)}

\* Mutant: a gap of one line is closed.
JoinsOverGap(last, start) == start <= last + 2

\* A line or a span that touches the last one is joined to it.
Joins(last, start) == start <= last + 1

AddLine(ranges, n) ==
  IF ranges # <<>> /\ Joins(Last(ranges)[2], n)
    THEN [ranges EXCEPT ![Len(ranges)] = <<@[1], n>>]
    ELSE Append(ranges, <<n, n>>)

\* _coalesce; line 0 stands for a change that left no line.
Coalesce(lines) ==
  LET kept == {n \in lines : n >= 1}
  IN  FoldLeft(AddLine, <<>>, Sorted(kept, {p \in kept \X kept : p[1] < p[2]}))

\* The later span may end inside the earlier one.
JoinedEnd(last, span) == Max({last[2], span[2]})

AddSpan(merged, span) ==
  IF merged # <<>> /\ Joins(Last(merged)[2], span[1])
    THEN [merged EXCEPT ![Len(merged)] = <<@[1], JoinedEnd(@, span)>>]
    ELSE Append(merged, span)

\* In the order of their starts.
Earlier(s, t) == s[1] < t[1] \/ (s[1] = t[1] /\ s[2] < t[2])

\* _merge_spans
MergeSpans(spans) ==
  FoldLeft(AddSpan, <<>>, Sorted(spans, {p \in spans \X spans : Earlier(p[1], p[2])}))

\* window_spans
WindowSpans(lines, ranges, window) ==
  MergeSpans({<<Max({1, r[1] - window}), Min({lines, r[2] + window})>> : r \in Range(ranges)})

\* Mutant: the largest definition that meets the range.
ChosenWidest(meeting) == CHOOSE n \in meeting : \A m \in meeting : n[2] - n[1] >= m[2] - m[1]

\* The smallest one; which of several is left open.
Chosen(meeting) == CHOOSE n \in meeting : \A m \in meeting : n[2] - n[1] <= m[2] - m[1]

\* python_enclosing_spans over the definitions of the file: the smallest one
\* that meets each range.
EnclosingSpans(definitions, ranges) ==
  LET Meeting(r) == {n \in definitions : n[1] <= r[2] /\ n[2] >= r[1]}
  IN  MergeSpans({Chosen(Meeting(r)) : r \in {q \in Range(ranges) : Meeting(q) # {}}})

\* build_file_context: windows where no definition is met.
ContextSpans(definitions, lines, ranges, window) ==
  LET enclosing == EnclosingSpans(definitions, ranges)
  IN  IF enclosing # <<>> THEN enclosing ELSE WindowSpans(lines, ranges, window)

\* render_spans: the lines of the file that are shown.
ShownLines(spans, lines) == Covered(spans) \cap 1..lines
=============================================================================
