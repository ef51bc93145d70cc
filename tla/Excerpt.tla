------------------------------ MODULE Excerpt ------------------------------
(***************************************************************************)
(* The code shown around the lines a section of a diff touches, in files   *)
(* of any length and with any definitions.                                 *)
(***************************************************************************)
EXTENDS DiffParser, Spans

CONSTANTS
  Lengths,          \* how many lines the new file may have
  Windows,          \* window_lines
  Layouts           \* the spans of the definitions a file may have

\* Two definitions are nested or apart.
ASSUME ExcerptAssumption ==
  /\ Lengths \subseteq Nat /\ Windows \subseteq Nat
  /\ Layouts \subseteq SUBSET (Nat \X Nat)
  /\ \A layout \in Layouts : \A d, e \in layout :
       /\ d[1] <= d[2]
       /\ \/ d[2] < e[1] \/ e[2] < d[1]
          \/ d[1] <= e[1] /\ e[2] <= d[2]
          \/ e[1] <= d[1] /\ d[2] <= e[2]

\* The lines of the file being parsed.
Touched == IF block.exists THEN block.touched ELSE {}

\* changed_ranges
Ranges == Coalesce(Touched)

Apart(spans) == \A i \in 1..(Len(spans) - 1) : spans[i][2] + 1 < spans[i + 1][1]

\* Where no definition is met the windows show every changed line that is in
\* the file, nothing that is further from a change than the window, and no
\* line twice ("shared code is never sent twice"), at the file's ends and
\* where windows meet or overlap.
WindowsShowTheChange ==
  LET ranges == Ranges
  IN  \A layout \in {d \in Layouts : EnclosingSpans(d, ranges) = <<>>}, n \in Lengths, w \in Windows :
        LET spans == ContextSpans(layout, n, ranges, w)
        IN  /\ Touched \cap 1..n \subseteq ShownLines(spans, n)
            /\ \A k \in ShownLines(spans, n) : \E t \in Touched : t - w <= k /\ k <= t + w
            /\ Apart(spans)

\* Changes inside one definition show nothing outside it, and for every range
\* that meets a definition one that it meets is shown to its end, also where
\* a method's span falls inside its class's.
DefinitionsHoldTheChange ==
  \A layout \in Layouts :
    LET ranges == Ranges
        spans == EnclosingSpans(layout, ranges)
        Meets(d, r) == (d[1]..d[2]) \cap (r[1]..r[2]) # {}
    IN  /\ Apart(spans)
        /\ \A d \in layout :
             (ranges # <<>> /\ Covered(ranges) \subseteq d[1]..d[2])
               => Covered(spans) \subseteq d[1]..d[2]
        /\ \A r \in Range(ranges) :
             (\E d \in layout : Meets(d, r)) =>
               \E d \in layout : Meets(d, r) /\ d[1]..d[2] \subseteq Covered(spans)
=============================================================================
