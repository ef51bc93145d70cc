-------------------------- MODULE DiffParserProofs --------------------------
(***************************************************************************)
(* For any names, changes and number of sections and lines the parser is   *)
(* where git is, and counts, places and names what git meant.  The         *)
(* invariants tie the block being filled to the section being written.     *)
(***************************************************************************)
EXTENDS DiffParser, SequenceTheorems, TLAPS

AllNames == Names \cup {NoName, LeftPart, RightPart}

Sections ==
  [status : {"added", "deleted", "modified", "renamed", "copied"},
   body : {"hunks", "binary", "none"}, old : AllNames, new : AllNames,
   adds : Nat, dels : Nat, touched : SUBSET Nat, open : BOOLEAN,
   line : Nat, drift : Nat, strays : Nat]

Blocks ==
  [exists : {TRUE}, old_path : AllNames, new_path : AllNames,
   rename_from : AllNames, rename_to : AllNames,
   is_new : BOOLEAN, is_deleted : BOOLEAN, is_copy : BOOLEAN, is_binary : BOOLEAN,
   additions : Nat, deletions : Nat, touched : SUBSET Nat, header_paths : Seq(AllNames)]

RenameHeaders == {"rename from", "rename to", "copy from", "copy to"}

\* The lines of a script: none starts a section or a hunk.
ScriptLines ==
  {l \in [first : {"other", "-", "+"},
          header : {"new file mode", "deleted file mode", "old mode", "---", "+++", "Binary files"}
                     \cup RenameHeaders,
          name : AllNames, start : Nat] :
     l.header \in RenameHeaders => l.name \in Names}

Types ==
  /\ section \in Sections /\ script \in Seq(ScriptLines)
  /\ block \in Blocks \cup {NoBlock}
  /\ in_hunk \in BOOLEAN /\ new_line \in Nat

\* Header lines come before the first hunk.
HeaderFirst == script # <<>> => block.exists /\ ~section.open

\* The block agrees with the section as far as it is written.
CountsSoFar ==
  (block.exists /\ section.strays = 0) =>
    /\ block.additions = section.adds /\ block.deletions = section.dels
    /\ block.touched = section.touched
    /\ section.drift = 0

Binary(lines) == \E i \in DOMAIN lines : lines[i].header = "Binary files"

BinarySoFar ==
  block.exists => (section.body = "binary" <=> (block.is_binary \/ Binary(script)))

PInv ==
  /\ Types /\ ParserKeepsPosition /\ HeaderFirst /\ CountsSoFar /\ BinarySoFar
  /\ ChangesAreCounted

-----------------------------------------------------------------------------
(* What git writes.                                                        *)

\* Which lines a script may hold.
LEMMA ScriptLine ==
  ASSUME NEW first \in {"other", "-", "+"}, NEW header, NEW name \in AllNames,
         \/ header \in {"new file mode", "deleted file mode", "old mode", "---", "+++", "Binary files"}
         \/ header \in RenameHeaders /\ name \in Names
  PROVE  /\ Line(first, header, name, 0) \in ScriptLines
         /\ Line(first, header, name, 0).header = header
  BY DEF Line, ScriptLines, RenameHeaders, AllNames

\* Scripts of one and of two lines.
LEMMA ShortScripts ==
  ASSUME NEW a \in ScriptLines, NEW b \in ScriptLines
  PROVE  /\ <<a>> \in Seq(ScriptLines) /\ <<a, b>> \in Seq(ScriptLines)
         /\ Binary(<<a>>) <=> a.header = "Binary files"
         /\ Binary(<<a, b>>) <=> (a.header = "Binary files" \/ b.header = "Binary files")
<1>1. DOMAIN <<a>> = {1} /\ DOMAIN <<a, b>> = {1, 2}
  OBVIOUS
<1>2. <<a>>[1] = a /\ <<a, b>>[1] = a /\ <<a, b>>[2] = b
  OBVIOUS
<1>3. <<a>> \in Seq(ScriptLines) /\ <<a, b>> \in Seq(ScriptLines)
  OBVIOUS
<1>4. /\ Binary(<<a>>) <=> <<a>>[1].header = "Binary files"
      /\ Binary(<<a, b>>) <=> (<<a, b>>[1].header = "Binary files" \/ <<a, b>>[2].header = "Binary files")
  BY <1>1, Zenon DEF Binary
<1> QED BY <1>2, <1>3, <1>4

\* The status lines of a section, none about a binary file.
LEMMA StatusShape ==
  ASSUME NEW s \in Changes
  PROVE  StatusLines(s) \in Seq(ScriptLines) /\ ~Binary(StatusLines(s))
<1>1. /\ s.status \in {"added", "deleted", "modified", "renamed", "copied"}
      /\ s.old \in Names /\ s.new \in Names
  BY ChangesAssumption
<1>2. CASE s.status \in {"added", "deleted", "modified"}
  <2>1. PICK h \in {"new file mode", "deleted file mode", "old mode"} :
          StatusLines(s) = <<HeaderLine(h, NoName)>>
    BY <1>2 DEF StatusLines
  <2>2. HeaderLine(h, NoName) \in ScriptLines /\ HeaderLine(h, NoName).header = h
    BY ScriptLine DEF HeaderLine, AllNames
  <2> QED BY <2>1, <2>2, ShortScripts
<1>3. CASE s.status \in {"renamed", "copied"}
  <2>1. PICK f \in RenameHeaders, t \in RenameHeaders :
          StatusLines(s) = <<HeaderLine(f, s.old), HeaderLine(t, s.new)>>
    BY <1>3 DEF StatusLines, RenameHeaders
  <2>2. /\ HeaderLine(f, s.old) \in ScriptLines /\ HeaderLine(f, s.old).header = f
        /\ HeaderLine(t, s.new) \in ScriptLines /\ HeaderLine(t, s.new).header = t
    BY ScriptLine, <1>1 DEF HeaderLine, AllNames
  <2>3. f # "Binary files" /\ t # "Binary files"
    BY DEF RenameHeaders
  <2> QED BY <2>1, <2>2, <2>3, ShortScripts
<1> QED BY <1>1, <1>2, <1>3

\* The body lines of a section announce a binary file exactly if it is one.
LEMMA BodyShape ==
  ASSUME NEW s \in Changes
  PROVE  BodyLines(s) \in Seq(ScriptLines) /\ (Binary(BodyLines(s)) <=> s.body = "binary")
<1>1. s.body \in {"hunks", "binary", "none"} /\ s.old \in Names /\ s.new \in Names
  BY ChangesAssumption
<1>2. CASE s.body = "none"
  <2>1. BodyLines(s) = <<>>
    BY <1>2 DEF BodyLines
  <2> QED BY <1>2, <2>1 DEF Binary
<1>3. CASE s.body = "binary"
  <2>1. BodyLines(s) = <<HeaderLine("Binary files", NoName)>>
    BY <1>3 DEF BodyLines
  <2>2. /\ HeaderLine("Binary files", NoName) \in ScriptLines
        /\ HeaderLine("Binary files", NoName).header = "Binary files"
    BY ScriptLine DEF HeaderLine, AllNames
  <2> QED BY <1>3, <2>1, <2>2, ShortScripts
<1>4. CASE s.body = "hunks"
  <2>1. BodyLines(s) = <<Line("-", "---", OldName(s), 0), Line("+", "+++", NewName(s), 0)>>
    BY <1>4 DEF BodyLines
  <2>2. OldName(s) \in AllNames /\ NewName(s) \in AllNames
    BY <1>1 DEF OldName, NewName, AllNames
  <2>3. /\ Line("-", "---", OldName(s), 0) \in ScriptLines
        /\ Line("-", "---", OldName(s), 0).header = "---"
        /\ Line("+", "+++", NewName(s), 0) \in ScriptLines
        /\ Line("+", "+++", NewName(s), 0).header = "+++"
    BY <2>2, ScriptLine
  <2> QED BY <1>4, <2>1, <2>3, ShortScripts
<1> QED BY <1>1, <1>2, <1>3, <1>4

\* A concatenation is about a binary file if one of its parts is.
LEMMA BinaryConcat ==
  ASSUME NEW p \in Seq(ScriptLines), NEW q \in Seq(ScriptLines)
  PROVE  p \o q \in Seq(ScriptLines) /\ (Binary(p \o q) <=> Binary(p) \/ Binary(q))
<1>1. /\ p \o q \in Seq(ScriptLines) /\ Len(p \o q) = Len(p) + Len(q)
      /\ \A i \in 1..(Len(p) + Len(q)) : (p \o q)[i] = IF i <= Len(p) THEN p[i] ELSE q[i - Len(p)]
  BY ConcatProperties
<1>2. /\ Len(p) \in Nat /\ DOMAIN p = 1..Len(p) /\ Len(q) \in Nat /\ DOMAIN q = 1..Len(q)
      /\ DOMAIN (p \o q) = 1..(Len(p) + Len(q))
  BY <1>1
<1>3. ASSUME NEW i \in DOMAIN (p \o q), (p \o q)[i].header = "Binary files"
      PROVE  Binary(p) \/ Binary(q)
  <2>1. CASE i <= Len(p)
    <3>1. i \in DOMAIN p /\ (p \o q)[i] = p[i]
      BY <1>1, <1>2, <2>1
    <3> QED BY <1>3, <3>1 DEF Binary
  <2>2. CASE i > Len(p)
    <3>1. i - Len(p) \in DOMAIN q /\ (p \o q)[i] = q[i - Len(p)]
      BY <1>1, <1>2, <2>2
    <3> QED BY <1>3, <3>1 DEF Binary
  <2> QED BY <1>2, <2>1, <2>2
<1>4. ASSUME NEW i \in DOMAIN p PROVE i \in DOMAIN (p \o q) /\ (p \o q)[i] = p[i]
  BY <1>1, <1>2
<1>5. ASSUME NEW i \in DOMAIN q
      PROVE  i + Len(p) \in DOMAIN (p \o q) /\ (p \o q)[i + Len(p)] = q[i]
  BY <1>1, <1>2
<1> QED BY <1>1, <1>3, <1>4, <1>5 DEF Binary

\* Head and tail of a sequence that was put in front of.
LEMMA Prepended ==
  ASSUME NEW S, NEW e, NEW p \in Seq(S)
  PROVE  Head(<<e>> \o p) = e /\ Tail(<<e>> \o p) = p
<1> DEFINE T == S \cup {e}
           q == <<e>> \o p
<1>1. <<e>> \in Seq(T) /\ Len(<<e>>) = 1 /\ <<e>>[1] = e
  OBVIOUS
<1>2. p \in Seq(T) /\ Len(p) \in Nat
  BY SeqMonotonic
<1> HIDE DEF T
<1>3. /\ q \in Seq(T) /\ Len(q) = 1 + Len(p)
      /\ \A i \in 1..(1 + Len(p)) : q[i] = IF i <= 1 THEN e ELSE p[i - 1]
  BY <1>1, <1>2, ConcatProperties
<1> HIDE DEF q
<1>4. q # <<>> /\ Head(q) = q[1]
  BY <1>2, <1>3
<1>5. /\ Tail(q) \in Seq(T) /\ Len(Tail(q)) = Len(p)
      /\ \A i \in 1..Len(p) : Tail(q)[i] = p[i]
  BY <1>2, <1>3, <1>4, HeadTailProperties
<1>6. Tail(q) = p
  BY <1>2, <1>5, SeqEqual
<1> QED BY <1>2, <1>3, <1>4, <1>6 DEF q

\* The header of a section is a diff line and a script that announces a
\* binary file exactly if the section is about one.
LEMMA HeaderShape ==
  ASSUME NEW s \in Changes
  PROVE  /\ Head(HeaderLines(s)) = HeaderLine("diff", <<s.old, s.new>>)
         /\ Tail(HeaderLines(s)) = StatusLines(s) \o BodyLines(s)
         /\ Tail(HeaderLines(s)) \in Seq(ScriptLines)
         /\ Binary(Tail(HeaderLines(s))) <=> s.body = "binary"
<1> DEFINE first == HeaderLine("diff", <<s.old, s.new>>)
           rest == StatusLines(s) \o BodyLines(s)
<1>1. rest \in Seq(ScriptLines) /\ (Binary(rest) <=> s.body = "binary")
  BY StatusShape, BodyShape, BinaryConcat
<1>2. HeaderLines(s) = <<first>> \o rest
  <2> DEFINE T == ScriptLines \cup {first}
  <2>1. <<first>> \in Seq(T) /\ StatusLines(s) \in Seq(T) /\ BodyLines(s) \in Seq(T)
    BY StatusShape, BodyShape, SeqMonotonic
  <2> HIDE DEF T
  <2> QED BY <2>1, ConcatAssociative DEF HeaderLines
<1> HIDE DEF rest, first
<1>3. Head(HeaderLines(s)) = first /\ Tail(HeaderLines(s)) = rest
  BY <1>1, <1>2, Prepended
<1> QED BY <1>1, <1>3 DEF first, rest

-----------------------------------------------------------------------------
(* What the parser does with a line.                                       *)

\* The four branches of the loop.
LEMMA ReadCases ==
  ASSUME NEW line, ReadLine(line)
  PROVE  /\ line.header = "diff" =>
              Close /\ block' = NewBlock(line) /\ in_hunk' = FALSE /\ new_line' = new_line
         /\ (line.header # "diff" /\ line.first = "@@") =>
              in_hunk' = TRUE /\ new_line' = line.start /\ block' = block /\ last' = last
         /\ (line.header # "diff" /\ line.first # "@@" /\ in_hunk) =>
              /\ block' = ReadHunkLine(block, line) /\ new_line' = Advance(line)
              /\ in_hunk' = in_hunk /\ last' = last
         /\ (line.header # "diff" /\ line.first # "@@" /\ ~in_hunk) =>
              /\ block' = ReadHeader(block, line)
              /\ in_hunk' = in_hunk /\ new_line' = new_line /\ last' = last
  BY DEF ReadLine, InHunk

\* The fields of a line.
LEMMA LineFields ==
  ASSUME NEW first, NEW header, NEW name, NEW start
  PROVE  /\ Line(first, header, name, start).first = first
         /\ Line(first, header, name, start).header = header
         /\ Line(first, header, name, start).name = name
         /\ Line(first, header, name, start).start = start
  BY DEF Line

\* A new block has seen nothing.
LEMMA NewBlockShape ==
  ASSUME NEW s \in Changes, NEW line, line.name = <<s.old, s.new>>
  PROVE  LET b == NewBlock(line)
         IN  /\ b \in Blocks /\ ~b.is_binary
             /\ b.additions = 0 /\ b.deletions = 0 /\ b.touched = {}
<1>1. s.old \in Names /\ s.new \in Names
  BY ChangesAssumption
<1>2. HeaderPaths(s.old, s.new) \in Seq(AllNames)
  <2>1. HeaderPaths(s.old, s.new) \in {<<>>, <<LeftPart, RightPart>>, <<s.old, s.new>>}
    BY DEF HeaderPaths
  <2>2. PICK x \in AllNames, y \in AllNames : HeaderPaths(s.old, s.new) \in {<<>>, <<x, y>>}
    BY <1>1, <2>1 DEF AllNames
  <2>3. <<>> \in Seq(AllNames) /\ <<x, y>> \in Seq(AllNames)
    OBVIOUS
  <2> QED BY <2>2, <2>3
<1>3. line.name[1] = s.old /\ line.name[2] = s.new
  OBVIOUS
<1> QED BY <1>2, <1>3 DEF NewBlock, Blocks, AllNames

\* A header line changes what is known of the file, not the counts.
LEMMA ReadHeaderShape ==
  ASSUME NEW b \in Blocks, NEW l \in ScriptLines
  PROVE  LET c == ReadHeader(b, l)
         IN  /\ c \in Blocks
             /\ c.is_binary <=> (b.is_binary \/ l.header = "Binary files")
             /\ c.additions = b.additions /\ c.deletions = b.deletions /\ c.touched = b.touched
<1>1. l.name \in AllNames /\ (l.header \in RenameHeaders => Cut[l.name] \in AllNames)
  BY DiffParserAssumption DEF ScriptLines, AllNames
<1> QED BY <1>1 DEF ReadHeader, Blocks, RenameHeaders

\* A line of a hunk is counted by its first character.
LEMMA ReadHunkLineShape ==
  ASSUME NEW b \in Blocks, NEW l, new_line \in Nat
  PROVE  LET c == ReadHunkLine(b, l)
         IN  /\ c \in Blocks /\ c.is_binary = b.is_binary
             /\ l.first = "+" => /\ c.additions = b.additions + 1 /\ c.deletions = b.deletions
                                 /\ c.touched = b.touched \cup {new_line}
             /\ l.first = "-" => /\ c.additions = b.additions /\ c.deletions = b.deletions + 1
                                 /\ c.touched = b.touched \cup {new_line}
             /\ l.first \notin {"+", "-"} => c = b
<1> DEFINE t == b.touched \cup {new_line}
           a == b.additions + 1
           d == b.deletions + 1
<1>1. t \in SUBSET Nat /\ a \in Nat /\ d \in Nat
  BY DEF Blocks
<1>2. CASE l.first = "+"
  <2>1. ReadHunkLine(b, l) = [b EXCEPT !.additions = a, !.touched = t]
    BY <1>2 DEF ReadHunkLine, Blocks
  <2>2. l.first # "-" /\ l.first \in {"+", "-"}
    BY <1>2
  <2> HIDE DEF t, a, d
  <2>3. LET c == ReadHunkLine(b, l)
        IN  /\ c \in Blocks /\ c.is_binary = b.is_binary
            /\ c.additions = a /\ c.deletions = b.deletions /\ c.touched = t
    BY <1>1, <2>1 DEF Blocks
  <2> QED BY <2>2, <2>3 DEF t, a
<1>3. CASE l.first = "-"
  <2>1. ReadHunkLine(b, l) = [b EXCEPT !.deletions = d, !.touched = t]
    BY <1>3 DEF ReadHunkLine, Blocks
  <2>2. l.first # "+" /\ l.first \in {"+", "-"}
    BY <1>3
  <2> HIDE DEF t, a, d
  <2>3. LET c == ReadHunkLine(b, l)
        IN  /\ c \in Blocks /\ c.is_binary = b.is_binary
            /\ c.additions = b.additions /\ c.deletions = d /\ c.touched = t
    BY <1>1, <2>1 DEF Blocks
  <2> QED BY <2>2, <2>3 DEF t, d
<1>4. CASE l.first \notin {"+", "-"}
  <2>1. ReadHunkLine(b, l) = b
    BY <1>4 DEF ReadHunkLine
  <2> QED BY <1>4, <2>1
<1> QED BY <1>2, <1>3, <1>4

\* The finished file has the counts of its block.
LEMMA FinaliseCounts ==
  ASSUME NEW b
  PROVE  LET f == Finalise(b)
         IN  /\ f.additions = b.additions /\ f.deletions = b.deletions
             /\ f.touched = b.touched /\ f.binary = b.is_binary
  BY DEF Finalise

\* The parser has a block or none.
LEMMA BlockExists ==
  ASSUME block \in Blocks \cup {NoBlock}
  PROVE  block.exists \in BOOLEAN /\ (block.exists <=> block \in Blocks)
<1>1. block \in Blocks => block.exists = TRUE
  BY DEF Blocks
<1>2. block = NoBlock => block.exists = FALSE
  BY DEF NoBlock
<1> QED BY <1>1, <1>2

\* A section that ends agrees with the file made from it.
LEMMA CloseCounts ==
  ASSUME PInv, script = <<>>, Close
  PROVE  ChangesAreCounted'
<1>1. CASE ~block.exists
  BY <1>1 DEF Close, PInv, ChangesAreCounted, Told, Heard
<1>2. CASE block.exists
  <2>1. last' = [file |-> Finalise(block), truth |-> section]
    BY <1>2 DEF Close
  <2>2. ~Binary(script)
    BY DEF Binary
  <2>3. section.strays = 0 =>
          /\ block.additions = section.adds /\ block.deletions = section.dels
          /\ block.touched = section.touched
    BY <1>2 DEF PInv, CountsSoFar
  <2>4. block.is_binary = (section.body = "binary")
    <3>1. block.is_binary \in BOOLEAN
      BY <1>2, BlockExists DEF PInv, Types, Blocks
    <3> QED BY <1>2, <2>2, <3>1 DEF PInv, BinarySoFar
  <2>5. Told' = section /\ Heard' = Finalise(block)
    BY <2>1 DEF Told, Heard
  <2> QED BY <2>3, <2>4, <2>5, FinaliseCounts DEF ChangesAreCounted
<1> QED BY <1>1, <1>2

-----------------------------------------------------------------------------
(* The invariant.                                                          *)

\* The empty text.
LEMMA InitPInv == Init => PInv
<1> SUFFICES ASSUME Init PROVE PInv
  OBVIOUS
<1>1. ~block.exists /\ block = NoBlock
  BY DEF Init, NoBlock
<1>2. section \in Sections
  BY DEF Init, Truth, Sections, AllNames
<1>3. script = <<>> /\ script \in Seq(ScriptLines)
  BY DEF Init
<1>4. ChangesAreCounted
  BY DEF Init, ChangesAreCounted
<1> QED
  BY <1>1, <1>2, <1>3, <1>4
  DEF Init, PInv, Types, ParserKeepsPosition, HeaderFirst, CountsSoFar, BinarySoFar

\* A diff line closes one block and opens the next.
LEMMA SectionStep == PInv /\ WriteSection => PInv'
<1> SUFFICES ASSUME PInv, WriteSection PROVE PInv'
  OBVIOUS
<1>1. PICK s \in Changes :
        section' = Truth(s) /\ script' = Tail(HeaderLines(s)) /\ ReadLine(Head(HeaderLines(s)))
  BY DEF WriteSection
<1> DEFINE line == HeaderLine("diff", <<s.old, s.new>>)
<1>2. line.header = "diff" /\ line.name = <<s.old, s.new>>
  BY LineFields DEF HeaderLine
<1>3. ReadLine(line) /\ script' \in Seq(ScriptLines) /\ (Binary(script)' <=> s.body = "binary")
  BY <1>1, HeaderShape DEF Binary
<1> HIDE DEF line
<1>4. Close /\ block' = NewBlock(line) /\ in_hunk' = FALSE /\ new_line' = new_line
  BY <1>2, <1>3, ReadCases
<1>5. /\ block' \in Blocks /\ ~block'.is_binary
      /\ block'.additions = 0 /\ block'.deletions = 0 /\ block'.touched = {}
  BY <1>2, <1>4, NewBlockShape
<1>6. /\ section' \in Sections /\ section'.open = FALSE /\ section'.drift = 0
      /\ section'.body = s.body /\ section'.adds = 0 /\ section'.dels = 0 /\ section'.touched = {}
  BY <1>1, ChangesAssumption DEF Truth, Sections, AllNames
<1>7. ChangesAreCounted'
  BY <1>4, CloseCounts DEF WriteSection
<1>8. block'.exists = TRUE
  BY <1>5 DEF Blocks
<1> QED
  BY <1>3, <1>4, <1>5, <1>6, <1>7, <1>8
  DEF PInv, Types, ParserKeepsPosition, HeaderFirst, CountsSoFar, BinarySoFar

\* A header line is taken from the script and read.
LEMMA HeaderStep == PInv /\ WriteHeaderLine => PInv'
<1> SUFFICES ASSUME PInv, WriteHeaderLine PROVE PInv'
  OBVIOUS
<1> DEFINE line == Head(script)
<1>1. /\ script # <<>> /\ script' = Tail(script) /\ ReadLine(line) /\ section' = section
  BY DEF WriteHeaderLine
<1>2. block.exists /\ ~section.open /\ block \in Blocks
  BY <1>1, BlockExists DEF PInv, HeaderFirst, Types
<1>3. ~in_hunk
  BY <1>2 DEF PInv, ParserKeepsPosition
<1>4. script \in Seq(ScriptLines) /\ line \in ScriptLines /\ script' \in Seq(ScriptLines)
  BY <1>1, HeadTailProperties DEF PInv, Types
<1>5. Binary(script) <=> (line.header = "Binary files" \/ Binary(script)')
  <2>1. /\ Len(script) \in Nat \ {0} /\ DOMAIN script = 1..Len(script) /\ line = script[1]
    BY <1>1, <1>4
  <2>2. /\ DOMAIN script' = 1..(Len(script) - 1)
        /\ \A i \in 1..(Len(script) - 1) : script'[i] = script[i + 1]
    BY <1>1, <1>4, HeadTailProperties
  <2>3. ASSUME NEW i \in DOMAIN script, i # 1
        PROVE  i - 1 \in DOMAIN script' /\ script'[i - 1] = script[i]
    BY <2>1, <2>2, <2>3
  <2>4. ASSUME NEW i \in DOMAIN script'
        PROVE  i + 1 \in DOMAIN script /\ script'[i] = script[i + 1]
    BY <2>1, <2>2
  <2>5. 1 \in DOMAIN script
    BY <2>1
  <2> HIDE DEF line
  <2>6. Binary(script) => line.header = "Binary files" \/ Binary(script)'
    BY <2>1, <2>3 DEF Binary
  <2>7. line.header = "Binary files" \/ Binary(script)' => Binary(script)
    BY <2>1, <2>4, <2>5 DEF Binary
  <2> QED BY <2>6, <2>7
<1> HIDE DEF line
<1>6. /\ block' = ReadHeader(block, line) /\ in_hunk' = in_hunk /\ new_line' = new_line
      /\ last' = last
  BY <1>1, <1>3, <1>4, ReadCases DEF ScriptLines, RenameHeaders
<1>7. /\ block' \in Blocks
      /\ block'.is_binary <=> (block.is_binary \/ line.header = "Binary files")
      /\ block'.additions = block.additions /\ block'.deletions = block.deletions
      /\ block'.touched = block.touched
  BY <1>2, <1>4, <1>6, ReadHeaderShape
<1>8. block'.exists = TRUE
  BY <1>7 DEF Blocks
<1>9. Types' /\ ParserKeepsPosition' /\ HeaderFirst'
  BY <1>1, <1>2, <1>3, <1>4, <1>6, <1>7, <1>8 DEF PInv, Types, ParserKeepsPosition, HeaderFirst
<1>10. CountsSoFar'
  BY <1>1, <1>2, <1>7 DEF PInv, CountsSoFar
<1>11. BinarySoFar'
  BY <1>1, <1>2, <1>5, <1>7 DEF PInv, BinarySoFar
<1>12. ChangesAreCounted'
  BY <1>6 DEF PInv, ChangesAreCounted, Told, Heard
<1> QED BY <1>9, <1>10, <1>11, <1>12 DEF PInv

\* The end of the text closes the last block.
LEMMA EndStep == PInv /\ EndOfText => PInv'
<1> SUFFICES ASSUME PInv, EndOfText PROVE PInv'
  OBVIOUS
<1>1. /\ script = <<>> /\ Close /\ block' = NoBlock
      /\ UNCHANGED <<section, script, in_hunk, new_line>>
  BY DEF EndOfText, writerVars
<1>2. ChangesAreCounted'
  BY <1>1, CloseCounts
<1>3. block'.exists = FALSE
  BY <1>1 DEF NoBlock
<1> QED
  BY <1>1, <1>2, <1>3
  DEF PInv, Types, ParserKeepsPosition, HeaderFirst, CountsSoFar, BinarySoFar

\* What the steps inside a body have in common.
InBodyFacts ==
  /\ block \in Blocks /\ script = <<>> /\ script' = script
  /\ section \in Sections /\ new_line \in Nat /\ in_hunk = section.open

\* They follow from the invariant.
LEMMA BodyFacts ==
  ASSUME PInv, InBody, CountLine
  PROVE  InBodyFacts
  BY BlockExists DEF PInv, Types, ParserKeepsPosition, InBody, CountLine, InBodyFacts

\* A step inside a hunk keeps the invariant if it moves git and the parser by
\* the same number of lines and counts the same.
LEMMA HunkStep ==
  ASSUME PInv, InBody, CountLine, section' \in Sections, section'.open = TRUE,
         section'.body = section.body,
         block' \in Blocks, block'.is_binary = block.is_binary, last' = last,
         in_hunk' = TRUE, new_line' \in Nat, new_line' = section'.line + section'.drift,
         section'.strays = 0 =>
           /\ block'.additions = section'.adds /\ block'.deletions = section'.dels
           /\ block'.touched = section'.touched /\ section'.drift = 0
  PROVE  PInv'
<1>1. script = <<>> /\ script' = <<>> /\ script' \in Seq(ScriptLines) /\ block.exists
  BY DEF InBody, CountLine, PInv, Types
<1>2. block'.exists = TRUE
  BY DEF Blocks
<1>3. Types' /\ ParserKeepsPosition' /\ HeaderFirst' /\ CountsSoFar'
  BY <1>1, <1>2 DEF Types, ParserKeepsPosition, HeaderFirst, CountsSoFar
<1>4. BinarySoFar'
  BY <1>1, <1>2 DEF PInv, BinarySoFar, Binary
<1>5. ChangesAreCounted'
  BY DEF PInv, ChangesAreCounted, Told, Heard
<1> QED BY <1>3, <1>4, <1>5 DEF PInv

\* A hunk header puts the parser where git is.
LEMMA HunkHeaderStep == PInv /\ WriteHunk => PInv'
<1> SUFFICES ASSUME PInv, WriteHunk PROVE PInv'
  OBVIOUS
<1>1. PICK start \in Nat :
        /\ section' = [section EXCEPT !.open = TRUE, !.line = start, !.drift = 0]
        /\ ReadLine(Line("@@", "none", NoName, start))
  BY DiffParserAssumption DEF WriteHunk
<1>2. InBody /\ CountLine /\ InBodyFacts
  BY BodyFacts DEF WriteHunk
<1>3. in_hunk' = TRUE /\ new_line' = start /\ block' = block /\ last' = last
  <2> DEFINE line == Line("@@", "none", NoName, start)
  <2>1. line.first = "@@" /\ line.header = "none" /\ line.start = start
    BY LineFields
  <2> HIDE DEF line
  <2> QED BY <1>1, <2>1, ReadCases DEF line
<1>4. /\ section' \in Sections /\ section'.open = TRUE /\ section'.body = section.body
      /\ section'.line = start /\ section'.drift = 0 /\ section'.strays = section.strays
      /\ section'.adds = section.adds /\ section'.dels = section.dels
      /\ section'.touched = section.touched
  BY <1>1, <1>2 DEF InBodyFacts, Sections
<1>5. section.strays = 0 =>
        /\ block.additions = section.adds /\ block.deletions = section.dels
        /\ block.touched = section.touched
  BY <1>2, BlockExists DEF PInv, CountsSoFar, InBodyFacts, Types
<1>6. new_line' \in Nat /\ new_line' = section'.line + section'.drift
  BY <1>3, <1>4
<1>7. block' \in Blocks /\ block'.is_binary = block.is_binary
  BY <1>2, <1>3 DEF InBodyFacts
<1>8. section'.strays = 0 =>
        /\ block'.additions = section'.adds /\ block'.deletions = section'.dels
        /\ block'.touched = section'.touched /\ section'.drift = 0
  BY <1>3, <1>4, <1>5
<1> QED BY <1>2, <1>3, <1>4, <1>6, <1>7, <1>8, HunkStep

\* Inside a hunk the branch for its lines is taken.
LEMMA ReadInHunk ==
  ASSUME PInv, InBody, CountLine, section.open,
         NEW first, first # "@@", NEW header, header # "diff", NEW name, NEW start,
         ReadLine(Line(first, header, name, start))
  PROVE  /\ block' \in Blocks /\ block'.is_binary = block.is_binary
         /\ first = "+" => /\ block'.additions = block.additions + 1
                           /\ block'.deletions = block.deletions
                           /\ block'.touched = block.touched \cup {new_line}
         /\ first = "-" => /\ block'.additions = block.additions
                           /\ block'.deletions = block.deletions + 1
                           /\ block'.touched = block.touched \cup {new_line}
         /\ first \notin {"+", "-"} => block' = block
         /\ new_line' = (IF first \in {"-", "\\"} THEN new_line ELSE new_line + 1)
         /\ in_hunk' = TRUE /\ last' = last
         /\ new_line = section.line + section.drift
         /\ section.strays = 0 =>
              /\ block.additions = section.adds /\ block.deletions = section.dels
              /\ block.touched = section.touched /\ section.drift = 0
<1> DEFINE line == Line(first, header, name, start)
<1>1. InBodyFacts /\ in_hunk = TRUE
  BY BodyFacts DEF InBodyFacts
<1>2. line.first = first /\ line.header = header
  BY LineFields
<1> HIDE DEF line
<1>3. /\ block' = ReadHunkLine(block, line) /\ new_line' = Advance(line)
      /\ in_hunk' = in_hunk /\ last' = last
  BY <1>1, <1>2, ReadCases DEF line
<1>4. new_line = section.line + section.drift
  BY <1>1 DEF PInv, ParserKeepsPosition, InBody
<1>5. section.strays = 0 =>
        /\ block.additions = section.adds /\ block.deletions = section.dels
        /\ block.touched = section.touched /\ section.drift = 0
  BY DEF PInv, CountsSoFar, InBody
<1>6. Advance(line) = (IF first \in {"-", "\\"} THEN new_line ELSE new_line + 1)
  BY <1>2 DEF Advance
<1> QED BY <1>1, <1>2, <1>3, <1>4, <1>5, <1>6, ReadHunkLineShape DEF InBodyFacts

\* An added line, whatever it looks like.
LEMMA ReadAdded ==
  ASSUME PInv, InBody, CountLine, section.open,
         NEW header, header # "diff", NEW name, ReadLine(Line("+", header, name, 0))
  PROVE  /\ block' \in Blocks /\ block'.is_binary = block.is_binary
         /\ block'.additions = block.additions + 1 /\ block'.deletions = block.deletions
         /\ block'.touched = block.touched \cup {new_line}
         /\ new_line' = new_line + 1 /\ in_hunk' = TRUE /\ last' = last
<1> DEFINE first == "+"
<1>1. first # "@@" /\ first \notin {"-", "\\"} /\ first = "+" /\ ReadLine(Line(first, header, name, 0))
  OBVIOUS
<1> HIDE DEF first
<1> QED BY <1>1, ReadInHunk

\* A line that is neither added nor removed.
LEMMA ReadOther ==
  ASSUME PInv, InBody, CountLine, section.open,
         NEW first \in {"\\", "other"}, NEW start, ReadLine(Line(first, "none", NoName, start))
  PROVE  /\ block' \in Blocks /\ block' = block
         /\ new_line' = (IF first = "\\" THEN new_line ELSE new_line + 1)
         /\ in_hunk' = TRUE /\ last' = last
<1> DEFINE header == "none"
<1>1. first # "@@" /\ first \notin {"+", "-"} /\ header # "diff"
      /\ (first \in {"-", "\\"} <=> first = "\\") /\ ReadLine(Line(first, header, NoName, start))
  OBVIOUS
<1> HIDE DEF header
<1> QED BY <1>1, ReadInHunk

\* What the invariant says of the parser inside a hunk.
LEMMA HunkFacts ==
  ASSUME PInv, InBody, section.open
  PROVE  /\ new_line = section.line + section.drift
         /\ section.strays = 0 =>
              /\ block.additions = section.adds /\ block.deletions = section.dels
              /\ block.touched = section.touched /\ section.drift = 0
  BY DEF PInv, ParserKeepsPosition, CountsSoFar, InBody

\* Git and the parser move by one line and both count it.
LEMMA AddedStep == PInv /\ WriteAdded => PInv'
<1> SUFFICES ASSUME PInv, WriteAdded PROVE PInv'
  OBVIOUS
<1>1. InBody /\ CountLine /\ section.open /\ InBodyFacts
  BY BodyFacts DEF WriteAdded
<1>2. PICK looks \in {"none", "+++"} : ReadLine(Line("+", looks, RightPart, 0))
  BY DEF WriteAdded
<1>3. /\ block' \in Blocks /\ block'.is_binary = block.is_binary
      /\ block'.additions = block.additions + 1 /\ block'.deletions = block.deletions
      /\ block'.touched = block.touched \cup {new_line}
      /\ new_line' = new_line + 1 /\ in_hunk' = TRUE /\ last' = last
      /\ new_line = section.line + section.drift
      /\ section.strays = 0 =>
           /\ block.additions = section.adds /\ block.deletions = section.dels
           /\ block.touched = section.touched /\ section.drift = 0
  <2>1. looks # "diff"
    OBVIOUS
  <2> QED BY <1>1, <1>2, <2>1, ReadAdded, HunkFacts
<1>4. /\ section' \in Sections /\ section'.open = TRUE /\ section'.body = section.body
      /\ section'.line = section.line + 1 /\ section'.drift = section.drift
      /\ section'.strays = section.strays
      /\ section'.adds = section.adds + 1 /\ section'.dels = section.dels
      /\ section'.touched = section.touched \cup {section.line}
  <2> DEFINE t == section.touched \cup {section.line}
             a == section.adds + 1
             n == section.line + 1
  <2>1. /\ section \in Sections /\ section.open = TRUE
        /\ n \in Nat /\ a \in Nat /\ t \in SUBSET Nat
    BY <1>1 DEF InBodyFacts, Sections
  <2>2. section' = [section EXCEPT !.adds = a, !.touched = t, !.line = n]
    BY <2>1 DEF WriteAdded, Sections
  <2> HIDE DEF t, a, n
  <2>3. /\ section' \in Sections /\ section'.open = section.open /\ section'.body = section.body
        /\ section'.line = n /\ section'.drift = section.drift
        /\ section'.strays = section.strays
        /\ section'.adds = a /\ section'.dels = section.dels /\ section'.touched = t
    BY <2>1, <2>2 DEF Sections
  <2> QED BY <2>1, <2>3 DEF t, a, n
<1>5. section.line \in Nat /\ section.drift \in Nat /\ new_line \in Nat
  BY <1>1 DEF InBodyFacts, Sections
<1>6. new_line' \in Nat /\ new_line' = section'.line + section'.drift
  BY <1>3, <1>4, <1>5
<1>7. section'.strays = 0 =>
        /\ block'.additions = section'.adds /\ block'.deletions = section'.dels
        /\ block'.touched = section'.touched /\ section'.drift = 0
  BY <1>3, <1>4, <1>5
<1> QED BY <1>1, <1>3, <1>4, <1>6, <1>7, HunkStep

\* Neither moves and both count it.
LEMMA RemovedStep == PInv /\ WriteRemoved => PInv'
<1> SUFFICES ASSUME PInv, WriteRemoved PROVE PInv'
  OBVIOUS
<1>1. InBody /\ CountLine /\ section.open /\ InBodyFacts
  BY BodyFacts DEF WriteRemoved
<1>2. PICK looks \in {"none", "---"} : ReadLine(Line("-", looks, LeftPart, 0))
  BY DEF WriteRemoved
<1>3. /\ block' \in Blocks /\ block'.is_binary = block.is_binary
      /\ block'.additions = block.additions /\ block'.deletions = block.deletions + 1
      /\ block'.touched = block.touched \cup {new_line}
      /\ new_line' = new_line /\ in_hunk' = TRUE /\ last' = last
      /\ new_line = section.line + section.drift
      /\ section.strays = 0 =>
           /\ block.additions = section.adds /\ block.deletions = section.dels
           /\ block.touched = section.touched /\ section.drift = 0
  BY <1>1, <1>2, ReadInHunk
<1>4. /\ section' \in Sections /\ section'.open = TRUE /\ section'.body = section.body
      /\ section'.line = section.line /\ section'.drift = section.drift
      /\ section'.strays = section.strays
      /\ section'.adds = section.adds /\ section'.dels = section.dels + 1
      /\ section'.touched = section.touched \cup {section.line}
  <2> DEFINE t == section.touched \cup {section.line}
             d == section.dels + 1
  <2>1. section \in Sections /\ section.open = TRUE /\ d \in Nat /\ t \in SUBSET Nat
    BY <1>1 DEF InBodyFacts, Sections
  <2>2. section' = [section EXCEPT !.dels = d, !.touched = t]
    BY <2>1 DEF WriteRemoved, Sections
  <2> HIDE DEF t, d
  <2>3. /\ section' \in Sections /\ section'.open = section.open /\ section'.body = section.body
        /\ section'.line = section.line /\ section'.drift = section.drift
        /\ section'.strays = section.strays
        /\ section'.adds = section.adds /\ section'.dels = d /\ section'.touched = t
    BY <2>1, <2>2 DEF Sections
  <2> QED BY <2>1, <2>3 DEF t, d
<1>5. section.line \in Nat /\ section.drift \in Nat /\ new_line \in Nat
  BY <1>1 DEF InBodyFacts, Sections
<1>6. new_line' \in Nat /\ new_line' = section'.line + section'.drift
  BY <1>3, <1>4, <1>5
<1>7. section'.strays = 0 =>
        /\ block'.additions = section'.adds /\ block'.deletions = section'.dels
        /\ block'.touched = section'.touched /\ section'.drift = 0
  BY <1>3, <1>4, <1>5
<1> QED BY <1>1, <1>3, <1>4, <1>6, <1>7, HunkStep

\* Both move by one line.
LEMMA ContextStep == PInv /\ WriteContext => PInv'
<1> SUFFICES ASSUME PInv, WriteContext PROVE PInv'
  OBVIOUS
<1>1. InBody /\ CountLine /\ section.open /\ InBodyFacts
  BY BodyFacts DEF WriteContext
<1>2. ReadLine(Line("other", "none", NoName, 0))
  BY DEF WriteContext
<1>3. /\ block' \in Blocks /\ block' = block
      /\ new_line' = new_line + 1 /\ in_hunk' = TRUE /\ last' = last
      /\ new_line = section.line + section.drift
      /\ section.strays = 0 =>
           /\ block.additions = section.adds /\ block.deletions = section.dels
           /\ block.touched = section.touched /\ section.drift = 0
  BY <1>1, <1>2, ReadOther, HunkFacts
<1>4. /\ section' \in Sections /\ section'.open = TRUE /\ section'.body = section.body
      /\ section'.line = section.line + 1 /\ section'.drift = section.drift
      /\ section'.strays = section.strays
      /\ section'.adds = section.adds /\ section'.dels = section.dels
      /\ section'.touched = section.touched
  BY <1>1 DEF InBodyFacts, Sections, WriteContext
<1>5. section.line \in Nat /\ section.drift \in Nat /\ new_line \in Nat
  BY <1>1 DEF InBodyFacts, Sections
<1>6. new_line' \in Nat /\ new_line' = section'.line + section'.drift
  BY <1>3, <1>4, <1>5
<1> QED BY <1>1, <1>3, <1>4, <1>6, HunkStep

\* Neither moves.
LEMMA MarkerStep == PInv /\ WriteMarker => PInv'
<1> SUFFICES ASSUME PInv, WriteMarker PROVE PInv'
  OBVIOUS
<1>1. InBody /\ CountLine /\ section.open /\ InBodyFacts /\ section' = section
  BY BodyFacts DEF WriteMarker
<1>2. ReadLine(Line("\\", "none", NoName, 0))
  BY DEF WriteMarker
<1>3. /\ block' \in Blocks /\ block' = block
      /\ new_line' = new_line /\ in_hunk' = TRUE /\ last' = last
      /\ new_line = section.line + section.drift
      /\ section.strays = 0 =>
           /\ block.additions = section.adds /\ block.deletions = section.dels
           /\ block.touched = section.touched /\ section.drift = 0
  BY <1>1, <1>2, ReadOther, HunkFacts
<1> QED BY <1>1, <1>3, HunkStep DEF InBodyFacts

\* A stray line moves the parser alone, and is the drift.
LEMMA StrayStep == PInv /\ WriteStray => PInv'
<1> SUFFICES ASSUME PInv, WriteStray PROVE PInv'
  OBVIOUS
<1>1. InBody /\ CountLine /\ section.open /\ InBodyFacts
  BY BodyFacts DEF WriteStray
<1>2. PICK first \in {"+", "-", "\\", "@@", "other"} :
        /\ section' = [section EXCEPT !.strays = @ + 1,
                                      !.drift = IF first \in {"+", "other"} THEN @ + 1 ELSE @]
        /\ ReadLine(Line(first, "none", NoName, new_line))
  BY DEF WriteStray
<1>3. section.line \in Nat /\ section.drift \in Nat /\ section.strays \in Nat /\ new_line \in Nat
  BY <1>1 DEF InBodyFacts, Sections
<1>4. new_line = section.line + section.drift
  BY <1>1 DEF PInv, ParserKeepsPosition, InBody
<1>5. /\ block' \in Blocks /\ block'.is_binary = block.is_binary
      /\ in_hunk' = TRUE /\ last' = last
      /\ new_line' = IF first \in {"+", "other"} THEN new_line + 1 ELSE new_line
  <2>1. CASE first = "@@"
    <3> DEFINE line == Line(first, "none", NoName, new_line)
    <3>1. line.first = "@@" /\ line.header = "none" /\ line.start = new_line
      BY <2>1, LineFields
    <3> HIDE DEF line
    <3>2. in_hunk' = TRUE /\ new_line' = new_line /\ block' = block /\ last' = last
      BY <1>2, <3>1, ReadCases DEF line
    <3> QED BY <1>1, <2>1, <3>2 DEF InBodyFacts
  <2>2. CASE first # "@@"
    <3>1. /\ block' \in Blocks /\ block'.is_binary = block.is_binary
          /\ in_hunk' = TRUE /\ last' = last
          /\ new_line' = (IF first \in {"-", "\\"} THEN new_line ELSE new_line + 1)
      BY <1>1, <1>2, <2>2, ReadInHunk
    <3> QED BY <1>2, <2>2, <3>1
  <2> QED BY <2>1, <2>2
<1>6. /\ section' \in Sections /\ section'.open = TRUE /\ section'.body = section.body
      /\ section'.line = section.line /\ section'.strays = section.strays + 1
      /\ section'.drift = IF first \in {"+", "other"} THEN section.drift + 1 ELSE section.drift
  <2> DEFINE n == section.strays + 1
             drift == IF first \in {"+", "other"} THEN section.drift + 1 ELSE section.drift
  <2>1. section \in Sections /\ section.open = TRUE /\ n \in Nat /\ drift \in Nat
    BY <1>1, <1>3 DEF InBodyFacts, Sections
  <2>2. section' = [section EXCEPT !.strays = n, !.drift = drift]
    BY <1>2, <2>1 DEF Sections
  <2> HIDE DEF drift, n
  <2>3. /\ section' \in Sections /\ section'.open = section.open /\ section'.body = section.body
        /\ section'.line = section.line /\ section'.drift = drift
        /\ section'.strays = n
    BY <2>1, <2>2 DEF Sections
  <2> QED BY <2>1, <2>3 DEF drift, n
<1>7. new_line' \in Nat /\ new_line' = section'.line + section'.drift /\ section'.strays # 0
  BY <1>3, <1>4, <1>5, <1>6
<1> QED BY <1>1, <1>5, <1>6, <1>7, HunkStep

\* Every step keeps the invariant.
LEMMA StepPInv == PInv /\ [Next]_vars => PInv'
<1> SUFFICES ASSUME PInv, [Next]_vars PROVE PInv'
  OBVIOUS
<1>1. CASE UNCHANGED vars
  BY <1>1 DEF vars, writerVars, parserVars, PInv, Types, ParserKeepsPosition, HeaderFirst,
              CountsSoFar, BinarySoFar, Binary, ChangesAreCounted, Told, Heard
<1>2. CASE Next
  BY <1>2, SectionStep, HeaderStep, HunkHeaderStep, AddedStep, RemovedStep, ContextStep,
     MarkerStep, StrayStep, EndStep
  DEF Next
<1> QED BY <1>1, <1>2

\* The invariant of the parser.
LEMMA InvariantHolds == Spec => []PInv
  BY InitPInv, StepPInv, PTL DEF Spec

\* Lines that look like headers, markers of a missing newline and earlier
\* hunks never shift the line numbers parse_unified_diff records.
THEOREM PositionKept == Spec => []ParserKeepsPosition
<1>1. PInv => ParserKeepsPosition
  BY DEF PInv
<1> QED BY InvariantHolds, <1>1, PTL

\* The additions, deletions, touched lines and binary mark of every ChangedFile
\* are what git meant, if splitlines broke none of its lines.
THEOREM ChangesCounted == Spec => []ChangesAreCounted
<1>1. PInv => ChangesAreCounted
  BY DEF PInv
<1> QED BY InvariantHolds, <1>1, PTL

-----------------------------------------------------------------------------
(* Names and status.  What a section is about is told by several lines, in *)
(* different fields of the block.  NInv says of each field that it has the *)
(* value the section asks for or that the line for it is still to come,    *)
(* and that no line to come says anything else; so a block is complete     *)
(* when the header is, and the lines of hunks leave these fields alone.    *)

Awaited(lines, headers) == \E i \in DOMAIN lines : lines[i].header \in headers

\* What a header line may say in a section.
Tells(s, l) ==
  /\ l.header = "new file mode" => s.status = "added"
  /\ l.header = "deleted file mode" => s.status = "deleted"
  /\ l.header = "rename from" => s.status = "renamed" /\ l.name = s.old
  /\ l.header = "rename to" => s.status = "renamed" /\ l.name = s.new
  /\ l.header = "copy from" => s.status = "copied" /\ l.name = s.old
  /\ l.header = "copy to" => s.status = "copied" /\ l.name = s.new
  /\ l.header = "---" => s.body = "hunks" /\ l.name = OldName(s)
  /\ l.header = "+++" => s.body = "hunks" /\ l.name = NewName(s)

From(s) == IF HasRename(s) THEN Cut[s.old] ELSE NoName
To(s) == IF HasRename(s) THEN Cut[s.new] ELSE NoName
Minus(s) == IF s.body = "hunks" THEN OldName(s) ELSE NoName
Plus(s) == IF s.body = "hunks" THEN NewName(s) ELSE NoName

Known(b, s, lines) ==
  /\ b.header_paths = HeaderPaths(s.old, s.new)
  /\ b.is_new = (s.status = "added") \/ Awaited(lines, {"new file mode"})
  /\ b.is_deleted = (s.status = "deleted") \/ Awaited(lines, {"deleted file mode"})
  /\ b.is_copy = (s.status = "copied") \/ Awaited(lines, {"copy from", "copy to"})
  /\ b.rename_from = From(s) \/ Awaited(lines, {"rename from", "copy from"})
  /\ b.rename_to = To(s) \/ Awaited(lines, {"rename to", "copy to"})
  /\ b.old_path = Minus(s) \/ Awaited(lines, {"---"})
  /\ b.new_path = Plus(s) \/ Awaited(lines, {"+++"})

\* A section of a real change.
Named(s) == s.old \in Names /\ s.new \in Names /\ (HasRename(s) \/ s.old = s.new)

NInv ==
  /\ block.exists => /\ Named(section) /\ Known(block, section, script)
                     /\ \A i \in DOMAIN script : Tells(section, script[i])
  /\ FileIsIdentified

\* The elements of a concatenation.
LEMMA ConcatElements ==
  ASSUME NEW p \in Seq(ScriptLines), NEW q \in Seq(ScriptLines)
  PROVE  /\ \A i \in DOMAIN (p \o q) : \/ \E j \in DOMAIN p : (p \o q)[i] = p[j]
                                       \/ \E j \in DOMAIN q : (p \o q)[i] = q[j]
         /\ \A j \in DOMAIN p : \E i \in DOMAIN (p \o q) : (p \o q)[i] = p[j]
         /\ \A j \in DOMAIN q : \E i \in DOMAIN (p \o q) : (p \o q)[i] = q[j]
<1>1. /\ p \o q \in Seq(ScriptLines) /\ Len(p \o q) = Len(p) + Len(q)
      /\ \A i \in 1..(Len(p) + Len(q)) : (p \o q)[i] = IF i <= Len(p) THEN p[i] ELSE q[i - Len(p)]
  BY ConcatProperties
<1>2. /\ Len(p) \in Nat /\ DOMAIN p = 1..Len(p) /\ Len(q) \in Nat /\ DOMAIN q = 1..Len(q)
      /\ DOMAIN (p \o q) = 1..(Len(p) + Len(q))
  BY <1>1
<1>3. ASSUME NEW i \in DOMAIN (p \o q)
      PROVE  \/ \E j \in DOMAIN p : (p \o q)[i] = p[j]
             \/ \E j \in DOMAIN q : (p \o q)[i] = q[j]
  <2>1. CASE i <= Len(p)
    <3>1. i \in DOMAIN p /\ (p \o q)[i] = p[i]
      BY <1>1, <1>2, <2>1
    <3> QED BY <3>1
  <2>2. CASE i > Len(p)
    <3>1. i - Len(p) \in DOMAIN q /\ (p \o q)[i] = q[i - Len(p)]
      BY <1>1, <1>2, <2>2
    <3> QED BY <3>1
  <2> QED BY <1>2, <2>1, <2>2
<1>4. ASSUME NEW j \in DOMAIN p PROVE j \in DOMAIN (p \o q) /\ (p \o q)[j] = p[j]
  BY <1>1, <1>2
<1>5. ASSUME NEW j \in DOMAIN q
      PROVE  j + Len(p) \in DOMAIN (p \o q) /\ (p \o q)[j + Len(p)] = q[j]
  BY <1>1, <1>2
<1> QED BY <1>3, <1>4, <1>5

\* Scripts of one and of two lines.
LEMMA ShortTells ==
  ASSUME NEW s, NEW a, NEW b, NEW headers
  PROVE  /\ (\A i \in DOMAIN <<a>> : Tells(s, <<a>>[i])) <=> Tells(s, a)
         /\ (\A i \in DOMAIN <<a, b>> : Tells(s, <<a, b>>[i])) <=> Tells(s, a) /\ Tells(s, b)
         /\ Awaited(<<a>>, headers) <=> a.header \in headers
         /\ Awaited(<<a, b>>, headers) <=> a.header \in headers \/ b.header \in headers
<1>1. DOMAIN <<a>> = {1} /\ DOMAIN <<a, b>> = {1, 2}
  OBVIOUS
<1>2. <<a>>[1] = a /\ <<a, b>>[1] = a /\ <<a, b>>[2] = b
  OBVIOUS
<1>3. /\ (\A i \in DOMAIN <<a>> : Tells(s, <<a>>[i])) <=> Tells(s, <<a>>[1])
      /\ (\A i \in DOMAIN <<a, b>> : Tells(s, <<a, b>>[i]))
           <=> Tells(s, <<a, b>>[1]) /\ Tells(s, <<a, b>>[2])
      /\ Awaited(<<a>>, headers) <=> <<a>>[1].header \in headers
      /\ Awaited(<<a, b>>, headers)
           <=> <<a, b>>[1].header \in headers \/ <<a, b>>[2].header \in headers
  BY <1>1, Zenon DEF Awaited
<1> QED BY <1>2, <1>3

\* The status lines tell the status, and with a rename the names.
LEMMA StatusTells ==
  ASSUME NEW s \in Changes
  PROVE  LET p == StatusLines(s)
         IN  /\ \A i \in DOMAIN p : Tells(s, p[i])
             /\ s.status = "added" => Awaited(p, {"new file mode"})
             /\ s.status = "deleted" => Awaited(p, {"deleted file mode"})
             /\ s.status = "copied" => Awaited(p, {"copy from", "copy to"})
             /\ HasRename(s) => /\ Awaited(p, {"rename from", "copy from"})
                                /\ Awaited(p, {"rename to", "copy to"})
<1>0. s.status \in {"added", "deleted", "modified", "renamed", "copied"}
  BY ChangesAssumption
<1>1. \A h, n : HeaderLine(h, n).header = h /\ HeaderLine(h, n).name = n
  BY DEF HeaderLine, Line
<1>2. CASE s.status \in {"added", "deleted", "modified"}
  <2>1. PICK h \in {"new file mode", "deleted file mode", "old mode"} :
          /\ StatusLines(s) = <<HeaderLine(h, NoName)>>
          /\ s.status = "added" <=> h = "new file mode"
          /\ s.status = "deleted" <=> h = "deleted file mode"
    BY <1>2 DEF StatusLines
  <2> DEFINE a == HeaderLine(h, NoName)
  <2>2. a.header = h
    BY <1>1
  <2>3. Tells(s, a)
    BY <2>1, <2>2 DEF Tells
  <2>4. ~HasRename(s) /\ s.status # "copied"
    BY <1>2 DEF HasRename
  <2>5. StatusLines(s) = <<a>>
    BY <2>1
  <2> HIDE DEF a
  <2> QED BY <2>1, <2>2, <2>3, <2>4, <2>5, ShortTells
<1>3. CASE s.status \in {"renamed", "copied"}
  <2>1. PICK f \in {"rename from", "copy from"}, t \in {"rename to", "copy to"} :
          /\ StatusLines(s) = <<HeaderLine(f, s.old), HeaderLine(t, s.new)>>
          /\ s.status = "renamed" <=> f = "rename from"
          /\ s.status = "renamed" <=> t = "rename to"
    BY <1>3 DEF StatusLines
  <2> DEFINE a == HeaderLine(f, s.old)
             b == HeaderLine(t, s.new)
  <2>2. a.header = f /\ a.name = s.old /\ b.header = t /\ b.name = s.new
    BY <1>1
  <2>3. Tells(s, a) /\ Tells(s, b)
    BY <1>3, <2>1, <2>2 DEF Tells
  <2>4. s.status # "added" /\ s.status # "deleted"
    BY <1>3
  <2>5. StatusLines(s) = <<a, b>>
    BY <2>1
  <2> HIDE DEF a, b
  <2>6. \A i \in DOMAIN StatusLines(s) : Tells(s, StatusLines(s)[i])
    BY <2>3, <2>5, ShortTells
  <2>7. /\ Awaited(StatusLines(s), {"rename from", "copy from"})
        /\ Awaited(StatusLines(s), {"rename to", "copy to"})
    BY <2>2, <2>5, ShortTells
  <2>8. s.status = "copied" => Awaited(StatusLines(s), {"copy from", "copy to"})
    <3>1. s.status = "copied" => f = "copy from"
      BY <2>1
    <3>2. f = "copy from" => a.header \in {"copy from", "copy to"}
      BY <2>2
    <3> QED BY <2>5, <3>1, <3>2, ShortTells
  <2> QED BY <2>4, <2>6, <2>7, <2>8
<1> QED BY <1>0, <1>2, <1>3

\* The body lines tell the names where there are hunks.
LEMMA BodyTells ==
  ASSUME NEW s \in Changes
  PROVE  LET q == BodyLines(s)
         IN  /\ \A i \in DOMAIN q : Tells(s, q[i])
             /\ s.body = "hunks" => Awaited(q, {"---"}) /\ Awaited(q, {"+++"})
<1>0. s.body \in {"hunks", "binary", "none"}
  BY ChangesAssumption
<1>1. CASE s.body = "none"
  <2>1. BodyLines(s) = <<>>
    BY <1>1 DEF BodyLines
  <2> QED BY <1>1, <2>1
<1>2. CASE s.body = "binary"
  <2> DEFINE a == HeaderLine("Binary files", NoName)
  <2>1. BodyLines(s) = <<a>>
    BY <1>2 DEF BodyLines
  <2>2. a.header = "Binary files"
    BY DEF HeaderLine, Line
  <2>3. Tells(s, a)
    BY <2>2 DEF Tells
  <2> HIDE DEF a
  <2> QED BY <1>2, <2>1, <2>3, ShortTells
<1>3. CASE s.body = "hunks"
  <2> DEFINE a == Line("-", "---", OldName(s), 0)
             b == Line("+", "+++", NewName(s), 0)
  <2>1. BodyLines(s) = <<a, b>>
    BY <1>3 DEF BodyLines
  <2>2. a.header = "---" /\ a.name = OldName(s) /\ b.header = "+++" /\ b.name = NewName(s)
    BY LineFields
  <2>3. Tells(s, a) /\ Tells(s, b)
    BY <1>3, <2>2 DEF Tells
  <2> HIDE DEF a, b
  <2> QED BY <2>1, <2>2, <2>3, ShortTells
<1> QED BY <1>0, <1>1, <1>2, <1>3

\* The header tells all that has to be known, and nothing else.
LEMMA HeaderTells ==
  ASSUME NEW s \in Changes, NEW b, b.header_paths = HeaderPaths(s.old, s.new),
         ~b.is_new, ~b.is_deleted, ~b.is_copy,
         b.is_new \in BOOLEAN, b.is_deleted \in BOOLEAN, b.is_copy \in BOOLEAN,
         b.rename_from = NoName, b.rename_to = NoName, b.old_path = NoName, b.new_path = NoName
  PROVE  LET lines == Tail(HeaderLines(s))
         IN  Known(b, s, lines) /\ \A i \in DOMAIN lines : Tells(s, lines[i])
<1> DEFINE p == StatusLines(s)
           q == BodyLines(s)
           lines == p \o q
<1>1. p \in Seq(ScriptLines) /\ q \in Seq(ScriptLines)
  BY StatusShape, BodyShape
<1>2. /\ \A i \in DOMAIN p : Tells(s, p[i])
      /\ s.status = "added" => Awaited(p, {"new file mode"})
      /\ s.status = "deleted" => Awaited(p, {"deleted file mode"})
      /\ s.status = "copied" => Awaited(p, {"copy from", "copy to"})
      /\ HasRename(s) => /\ Awaited(p, {"rename from", "copy from"})
                         /\ Awaited(p, {"rename to", "copy to"})
  BY StatusTells
<1>3. /\ \A i \in DOMAIN q : Tells(s, q[i])
      /\ s.body = "hunks" => Awaited(q, {"---"}) /\ Awaited(q, {"+++"})
  BY BodyTells
<1>4. Tail(HeaderLines(s)) = lines
  BY HeaderShape
<1> HIDE DEF p, q
<1>5. \A i \in DOMAIN lines : Tells(s, lines[i])
  BY <1>1, <1>2, <1>3, ConcatElements
<1>6. \A headers : Awaited(p, headers) \/ Awaited(q, headers) => Awaited(lines, headers)
  <2> SUFFICES ASSUME NEW headers, Awaited(p, headers) \/ Awaited(q, headers)
               PROVE  Awaited(lines, headers)
    OBVIOUS
  <2>1. ASSUME NEW j \in DOMAIN p, p[j].header \in headers PROVE Awaited(lines, headers)
    <3>1. PICK i \in DOMAIN lines : lines[i] = p[j]
      BY <1>1, ConcatElements
    <3> QED BY <2>1, <3>1 DEF Awaited
  <2>2. ASSUME NEW j \in DOMAIN q, q[j].header \in headers PROVE Awaited(lines, headers)
    <3>1. PICK i \in DOMAIN lines : lines[i] = q[j]
      BY <1>1, ConcatElements
    <3> QED BY <2>2, <3>1 DEF Awaited
  <2> QED BY <2>1, <2>2 DEF Awaited
<1> HIDE DEF lines
<1>7. Known(b, s, lines)
  BY <1>2, <1>3, <1>6 DEF Known, From, To, Minus, Plus
<1> QED BY <1>4, <1>5, <1>7

\* What is awaited comes with the next line or is still awaited.
LEMMA NextLine ==
  ASSUME NEW lines \in Seq(ScriptLines), lines # <<>>
  PROVE  /\ Head(lines) \in ScriptLines /\ \E i \in DOMAIN lines : Head(lines) = lines[i]
         /\ \A headers : Awaited(lines, headers) =>
              Head(lines).header \in headers \/ Awaited(Tail(lines), headers)
         /\ \A i \in DOMAIN Tail(lines) : \E j \in DOMAIN lines : Tail(lines)[i] = lines[j]
<1>1. /\ Len(lines) \in Nat \ {0} /\ DOMAIN lines = 1..Len(lines)
      /\ Head(lines) = lines[1] /\ Head(lines) \in ScriptLines
  OBVIOUS
<1>2. /\ DOMAIN Tail(lines) = 1..(Len(lines) - 1)
      /\ \A i \in 1..(Len(lines) - 1) : Tail(lines)[i] = lines[i + 1]
  BY HeadTailProperties
<1>3. ASSUME NEW i \in DOMAIN lines, i # 1
      PROVE  i - 1 \in DOMAIN Tail(lines) /\ Tail(lines)[i - 1] = lines[i]
  BY <1>1, <1>2, <1>3
<1>4. ASSUME NEW i \in DOMAIN Tail(lines)
      PROVE  i + 1 \in DOMAIN lines /\ Tail(lines)[i] = lines[i + 1]
  BY <1>1, <1>2
<1>5. ASSUME NEW headers, Awaited(lines, headers), Head(lines).header \notin headers
      PROVE  Awaited(Tail(lines), headers)
  <2>1. PICK i \in DOMAIN lines : lines[i].header \in headers
    BY <1>5 DEF Awaited
  <2>2. i # 1
    BY <1>1, <1>5, <2>1
  <2> QED BY <1>3, <2>1, <2>2 DEF Awaited
<1> QED BY <1>1, <1>4, <1>5

\* A header line sets the fields it is for, as the section asks.
LEMMA ReadHeaderSets ==
  ASSUME NEW s, NEW b \in Blocks, NEW l \in ScriptLines, Tells(s, l)
  PROVE  LET c == ReadHeader(b, l)
         IN  /\ c.header_paths = b.header_paths
             /\ c.is_new = IF l.header \in {"new file mode"} THEN s.status = "added" ELSE b.is_new
             /\ c.is_deleted = IF l.header \in {"deleted file mode"} THEN s.status = "deleted"
                               ELSE b.is_deleted
             /\ c.is_copy = IF l.header \in {"copy from", "copy to"} THEN s.status = "copied"
                            ELSE b.is_copy
             /\ c.rename_from = IF l.header \in {"rename from", "copy from"} THEN From(s)
                                ELSE b.rename_from
             /\ c.rename_to = IF l.header \in {"rename to", "copy to"} THEN To(s) ELSE b.rename_to
             /\ c.old_path = IF l.header \in {"---"} THEN Minus(s) ELSE b.old_path
             /\ c.new_path = IF l.header \in {"+++"} THEN Plus(s) ELSE b.new_path
<1> DEFINE c == ReadHeader(b, l)
<1>1. /\ c.header_paths = b.header_paths
      /\ c.old_path = IF l.header \in {"---"} THEN l.name ELSE b.old_path
      /\ c.new_path = IF l.header \in {"+++"} THEN l.name ELSE b.new_path
  BY DEF ReadHeader, Blocks
<1>2. /\ c.is_new = IF l.header \in {"new file mode"} THEN TRUE ELSE b.is_new
      /\ c.is_deleted = IF l.header \in {"deleted file mode"} THEN TRUE ELSE b.is_deleted
      /\ c.is_copy = IF l.header \in {"copy from", "copy to"} THEN TRUE ELSE b.is_copy
  BY DEF ReadHeader, Blocks
<1>3. /\ c.rename_from = IF l.header \in {"rename from", "copy from"} THEN Cut[l.name]
                         ELSE b.rename_from
      /\ c.rename_to = IF l.header \in {"rename to", "copy to"} THEN Cut[l.name]
                       ELSE b.rename_to
  BY DEF ReadHeader, Blocks
<1> HIDE DEF c
<1>4. /\ l.header \in {"new file mode"} => (s.status = "added") = TRUE
      /\ l.header \in {"deleted file mode"} => (s.status = "deleted") = TRUE
      /\ l.header \in {"copy from", "copy to"} => (s.status = "copied") = TRUE
      /\ l.header \in {"rename from", "copy from"} => Cut[l.name] = From(s)
      /\ l.header \in {"rename to", "copy to"} => Cut[l.name] = To(s)
      /\ l.header \in {"---"} => l.name = Minus(s)
      /\ l.header \in {"+++"} => l.name = Plus(s)
  BY DEF Tells, From, To, HasRename, Minus, Plus
<1> QED BY <1>1, <1>2, <1>3, <1>4 DEF c

\* A header line that is read is not awaited any more.
LEMMA ReadHeaderKnown ==
  ASSUME NEW s, NEW b \in Blocks, NEW lines \in Seq(ScriptLines), lines # <<>>,
         Known(b, s, lines), Tells(s, Head(lines))
  PROVE  Known(ReadHeader(b, Head(lines)), s, Tail(lines))
<1> DEFINE l == Head(lines)
           c == ReadHeader(b, l)
<1>1. l \in ScriptLines
  BY NextLine
<1>2. \A headers : Awaited(lines, headers) => l.header \in headers \/ Awaited(Tail(lines), headers)
  BY NextLine
<1>3. /\ c.header_paths = b.header_paths
      /\ c.is_new = IF l.header \in {"new file mode"} THEN s.status = "added" ELSE b.is_new
      /\ c.is_deleted = IF l.header \in {"deleted file mode"} THEN s.status = "deleted"
                        ELSE b.is_deleted
      /\ c.is_copy = IF l.header \in {"copy from", "copy to"} THEN s.status = "copied"
                     ELSE b.is_copy
      /\ c.rename_from = IF l.header \in {"rename from", "copy from"} THEN From(s)
                         ELSE b.rename_from
      /\ c.rename_to = IF l.header \in {"rename to", "copy to"} THEN To(s) ELSE b.rename_to
      /\ c.old_path = IF l.header \in {"---"} THEN Minus(s) ELSE b.old_path
      /\ c.new_path = IF l.header \in {"+++"} THEN Plus(s) ELSE b.new_path
  <2> HIDE DEF l
  <2> QED BY <1>1, ReadHeaderSets DEF l
<1> HIDE DEF l, c
<1>4. Known(c, s, Tail(lines))
  <2>1. /\ c.is_new = (s.status = "added") \/ Awaited(Tail(lines), {"new file mode"})
        /\ c.is_deleted = (s.status = "deleted") \/ Awaited(Tail(lines), {"deleted file mode"})
        /\ c.is_copy = (s.status = "copied") \/ Awaited(Tail(lines), {"copy from", "copy to"})
    BY <1>2, <1>3, Zenon DEF Known
  <2>2. /\ c.rename_from = From(s) \/ Awaited(Tail(lines), {"rename from", "copy from"})
        /\ c.rename_to = To(s) \/ Awaited(Tail(lines), {"rename to", "copy to"})
        /\ c.old_path = Minus(s) \/ Awaited(Tail(lines), {"---"})
        /\ c.new_path = Plus(s) \/ Awaited(Tail(lines), {"+++"})
    BY <1>2, <1>3, Zenon DEF Known
  <2> QED BY <1>3, <2>1, <2>2, Zenon DEF Known
<1> QED BY <1>4 DEF l, c

\* A complete block is finished as the section says.
LEMMA FinaliseNames ==
  ASSUME NEW b, NEW s, Named(s), Known(b, s, <<>>), NamesAreReadable(s),
         s.status \in {"added", "deleted", "modified", "renamed", "copied"},
         s.body \in {"hunks", "binary", "none"}
  PROVE  LET f == Finalise(b)
         IN  f.status = s.status /\ f.old = OldName(s) /\ f.new = NewName(s)
<1>0. /\ s.old \in Names /\ s.new \in Names /\ NoName \notin Names
      /\ HasRename(s) \/ s.old = s.new
  BY DiffParserAssumption DEF Named
<1>1. \A headers : ~Awaited(<<>>, headers)
  BY DEF Awaited
<1>2. /\ b.header_paths = HeaderPaths(s.old, s.new)
      /\ b.is_new = (s.status = "added") /\ b.is_deleted = (s.status = "deleted")
      /\ b.is_copy = (s.status = "copied")
      /\ b.rename_from = From(s) /\ b.rename_to = To(s)
      /\ b.old_path = Minus(s) /\ b.new_path = Plus(s)
  BY <1>1 DEF Known
<1>3. (~HasRename(s) /\ s.body # "hunks") =>
        /\ b.header_paths # <<>> /\ b.header_paths[1] = s.old /\ b.header_paths[2] = s.new
  <2> SUFFICES ASSUME ~HasRename(s), s.body # "hunks"
               PROVE  /\ b.header_paths # <<>> /\ b.header_paths[1] = s.old
                      /\ b.header_paths[2] = s.new
    OBVIOUS
  <2>1. s.old \notin Quoted \cup Ambiguous /\ s.new = s.old
    BY <1>0 DEF NamesAreReadable
  <2>2. HeaderPaths(s.old, s.new) = <<s.old, s.new>>
    BY <2>1 DEF HeaderPaths
  <2> QED BY <1>2, <2>2
<1>4. CASE HasRename(s)
  <2>1. /\ From(s) = s.old /\ To(s) = s.new /\ OldName(s) = s.old /\ NewName(s) = s.new
        /\ s.status \in {"renamed", "copied"}
    BY <1>4 DEF From, To, NamesAreReadable, HasRename, OldName, NewName
  <2>2. s.status # "added" /\ s.status # "deleted"
    BY <2>1
  <2>3. b.is_new = FALSE /\ b.is_deleted = FALSE
    BY <1>2, <2>2
  <2>4. s.old # NoName /\ s.new # NoName
    BY <1>0
  <2>5. b.rename_from = s.old /\ b.rename_to = s.new
    BY <1>2, <2>1
  <2>6. /\ b.is_new = FALSE /\ b.is_deleted = FALSE
        /\ Or(b.rename_from, b.old_path) = s.old /\ Or(b.rename_to, b.new_path) = s.new
        /\ s.old # NoName /\ s.new # NoName /\ b.rename_from # NoName
    BY <2>3, <2>4, <2>5 DEF Or
  <2>7. Finalise(b).old = s.old /\ Finalise(b).new = s.new
    BY <2>6 DEF Finalise
  <2>8. CASE s.status = "renamed"
    <3>1. b.is_copy = FALSE
      BY <1>2, <2>8
    <3>2. Finalise(b).status = "renamed"
      BY <2>6, <3>1 DEF Finalise
    <3> QED BY <2>1, <2>7, <2>8, <3>2
  <2>9. CASE s.status = "copied"
    <3>1. b.is_copy = TRUE
      BY <1>2, <2>9
    <3>2. Finalise(b).status = "copied"
      BY <2>6, <3>1 DEF Finalise
    <3> QED BY <2>1, <2>7, <2>9, <3>2
  <2> QED BY <2>1, <2>8, <2>9
<1>5. CASE ~HasRename(s) /\ s.body = "hunks"
  <2>1. /\ From(s) = NoName /\ To(s) = NoName /\ Minus(s) = OldName(s) /\ Plus(s) = NewName(s)
        /\ s.status \in {"added", "deleted", "modified"} /\ s.old = s.new
    BY <1>0, <1>5 DEF From, To, Minus, Plus, HasRename
  <2>2. /\ Or(b.rename_from, b.old_path) = OldName(s) /\ Or(b.rename_to, b.new_path) = NewName(s)
        /\ b.rename_from = NoName /\ b.is_copy = FALSE /\ s.old # NoName
    BY <1>0, <1>2, <2>1 DEF Or
  <2>3. CASE s.status = "added"
    <3>1. OldName(s) = NoName /\ NewName(s) = s.old /\ b.is_new = TRUE /\ b.is_deleted = FALSE
      BY <1>2, <2>1, <2>3 DEF OldName, NewName
    <3> QED BY <2>2, <2>3, <3>1 DEF Finalise, Or
  <2>4. CASE s.status = "deleted"
    <3>1. OldName(s) = s.old /\ NewName(s) = NoName /\ b.is_new = FALSE /\ b.is_deleted = TRUE
      BY <1>2, <2>1, <2>4 DEF OldName, NewName
    <3> QED BY <2>2, <2>4, <3>1 DEF Finalise, Or
  <2>5. CASE s.status = "modified"
    <3>1. OldName(s) = s.old /\ NewName(s) = s.old /\ b.is_new = FALSE /\ b.is_deleted = FALSE
      BY <1>2, <2>1, <2>5 DEF OldName, NewName
    <3> QED BY <2>2, <2>5, <3>1 DEF Finalise, Or
  <2> QED BY <2>1, <2>3, <2>4, <2>5
<1>6. CASE ~HasRename(s) /\ s.body # "hunks"
  <2>1. /\ From(s) = NoName /\ To(s) = NoName /\ Minus(s) = NoName /\ Plus(s) = NoName
        /\ s.status \in {"added", "deleted", "modified"} /\ s.old = s.new
    BY <1>0, <1>6 DEF From, To, Minus, Plus, HasRename
  <2> QED BY <1>0, <1>2, <1>3, <1>6, <2>1 DEF Finalise, Or, OldName, NewName
<1> QED BY <1>4, <1>5, <1>6

\* A file that is made is identified.
LEMMA CloseNames ==
  ASSUME PInv, NInv, script = <<>>, Close
  PROVE  FileIsIdentified'
<1>1. CASE ~block.exists
  BY <1>1 DEF Close, NInv, FileIsIdentified, Told, Heard
<1>2. CASE block.exists
  <2>1. last' = [file |-> Finalise(block), truth |-> section]
    BY <1>2 DEF Close
  <2>2. Told' = section /\ Heard' = Finalise(block)
    BY <2>1 DEF Told, Heard
  <2>3. Named(section) /\ Known(block, section, <<>>)
    BY <1>2 DEF NInv
  <2>4. /\ section.status \in {"added", "deleted", "modified", "renamed", "copied"}
        /\ section.body \in {"hunks", "binary", "none"}
    BY DEF PInv, Types, Sections
  <2>5. NamesAreReadable(section) =>
          /\ Finalise(block).status = section.status
          /\ Finalise(block).old = OldName(section) /\ Finalise(block).new = NewName(section)
    BY <2>3, <2>4, FinaliseNames
  <2> QED BY <2>2, <2>5 DEF FileIsIdentified
<1> QED BY <1>1, <1>2

\* A line of a hunk tells nothing about the file.
LEMMA HunkLineKnown ==
  ASSUME NEW s, NEW b \in Blocks, NEW l, NEW lines, new_line \in Nat, Known(b, s, lines)
  PROVE  Known(ReadHunkLine(b, l), s, lines)
<1> DEFINE c == ReadHunkLine(b, l)
<1>1. /\ c.header_paths = b.header_paths /\ c.is_new = b.is_new /\ c.is_deleted = b.is_deleted
      /\ c.is_copy = b.is_copy /\ c.rename_from = b.rename_from /\ c.rename_to = b.rename_to
      /\ c.old_path = b.old_path /\ c.new_path = b.new_path
  BY DEF ReadHunkLine, Blocks
<1> HIDE DEF c
<1>2. Known(c, s, lines)
  BY <1>1 DEF Known
<1> QED BY <1>2 DEF c

\* What a section is about does not change while its hunks are written.
SameFile(s, t) == t.status = s.status /\ t.body = s.body /\ t.old = s.old /\ t.new = s.new

\* A step inside the body keeps the invariant.
LEMMA BodyKeepsNames ==
  ASSUME PInv, NInv, InBody, CountLine, NEW line, ReadLine(line), line.header # "diff",
         line.first = "@@" \/ in_hunk, SameFile(section, section')
  PROVE  NInv'
<1>1. InBodyFacts /\ block.exists
  BY BodyFacts DEF InBody
<1>2. /\ block' = block \/ block' = ReadHunkLine(block, line)
      /\ last' = last
  BY ReadCases
<1>3. Named(section) /\ Known(block, section, <<>>)
  BY <1>1 DEF NInv, InBodyFacts
<1>4. Known(block', section, <<>>)
  BY <1>1, <1>2, <1>3, HunkLineKnown DEF InBodyFacts
<1>5. Named(section')
  BY <1>3 DEF Named, SameFile, HasRename
<1>6. Known(block', section', <<>>)
  BY <1>4 DEF Known, SameFile, From, To, Minus, Plus, HasRename, OldName, NewName
<1>7. script' = <<>>
  BY <1>1 DEF InBodyFacts
<1>8. FileIsIdentified'
  BY <1>2 DEF NInv, FileIsIdentified, Told, Heard
<1>9. DOMAIN script' = {}
  BY <1>7
<1> QED BY <1>5, <1>6, <1>7, <1>8, <1>9 DEF NInv

\* The line that a step inside the body writes.
LEMMA BodyReads ==
  ASSUME InBodyFacts,
         \/ WriteHunk \/ WriteAdded \/ WriteRemoved \/ WriteContext \/ WriteMarker \/ WriteStray
  PROVE  \E line : ReadLine(line) /\ line.header # "diff" /\ (line.first = "@@" \/ in_hunk)
<1>1. WriteHunk \/ in_hunk
  BY DEF InBodyFacts, WriteAdded, WriteRemoved, WriteContext, WriteMarker, WriteStray
<1>2. PICK first, header, name, start :
        /\ ReadLine(Line(first, header, name, start)) /\ header # "diff"
        /\ WriteHunk => first = "@@"
  <2>1. CASE WriteHunk
    <3>1. PICK start : ReadLine(Line("@@", "none", NoName, start))
      BY <2>1 DEF WriteHunk
    <3>2. "none" # "diff"
      OBVIOUS
    <3> QED BY <3>1, <3>2, Zenon
  <2>2. CASE ~WriteHunk
    <3>1. PICK first, header, name, start : ReadLine(Line(first, header, name, start)) /\ header # "diff"
      <4>1. CASE WriteAdded
        BY <4>1 DEF WriteAdded
      <4>2. CASE WriteRemoved
        BY <4>2 DEF WriteRemoved
      <4>3. CASE WriteContext
        BY <4>3 DEF WriteContext
      <4>4. CASE WriteMarker
        BY <4>4 DEF WriteMarker
      <4>5. CASE WriteStray
        BY <4>5 DEF WriteStray
      <4> QED BY <2>2, <4>1, <4>2, <4>3, <4>4, <4>5
    <3> QED BY <2>2, <3>1
  <2> QED BY <2>1, <2>2
<1> DEFINE line == Line(first, header, name, start)
<1>3. ReadLine(line) /\ line.header # "diff" /\ (line.first = "@@" \/ in_hunk)
  BY <1>1, <1>2, LineFields
<1> HIDE DEF line
<1> QED BY <1>3

\* The steps that write a line of a hunk.
LEMMA BodySteps ==
  ASSUME PInv, NInv,
         \/ WriteHunk \/ WriteAdded \/ WriteRemoved \/ WriteContext \/ WriteMarker \/ WriteStray
  PROVE  NInv'
<1>1. InBody /\ CountLine /\ InBodyFacts
  BY BodyFacts DEF WriteHunk, WriteAdded, WriteRemoved, WriteContext, WriteMarker, WriteStray
<1>2. SameFile(section, section')
  <2>1. section \in Sections
    BY <1>1 DEF InBodyFacts
  <2> QED BY <2>1 DEF SameFile, Sections, WriteHunk, WriteAdded, WriteRemoved, WriteContext,
             WriteMarker, WriteStray
<1>3. PICK line : ReadLine(line) /\ line.header # "diff" /\ (line.first = "@@" \/ in_hunk)
  BY <1>1, BodyReads
<1> QED BY <1>1, <1>2, <1>3, BodyKeepsNames

\* A diff line begins a block of which everything is awaited.
LEMMA SectionNames == PInv /\ NInv /\ WriteSection => NInv'
<1> SUFFICES ASSUME PInv, NInv, WriteSection PROVE NInv'
  OBVIOUS
<1>1. PICK s \in Changes :
        section' = Truth(s) /\ script' = Tail(HeaderLines(s)) /\ ReadLine(Head(HeaderLines(s)))
  BY DEF WriteSection
<1> DEFINE line == HeaderLine("diff", <<s.old, s.new>>)
<1>2. line.header = "diff" /\ line.name[1] = s.old /\ line.name[2] = s.new
  BY DEF HeaderLine, Line
<1>3. ReadLine(line)
  BY <1>1, HeaderShape
<1> HIDE DEF line
<1>4. Close /\ block' = NewBlock(line)
  BY <1>2, <1>3, ReadCases
<1>5. /\ block'.header_paths = HeaderPaths(s.old, s.new)
      /\ block'.is_new = FALSE /\ block'.is_deleted = FALSE /\ block'.is_copy = FALSE
      /\ block'.rename_from = NoName /\ block'.rename_to = NoName
      /\ block'.old_path = NoName /\ block'.new_path = NoName
  BY <1>2, <1>4 DEF NewBlock
<1>6. Known(block', s, script') /\ \A i \in DOMAIN script' : Tells(s, script'[i])
  BY <1>1, <1>5, HeaderTells
<1>7. SameFile(s, section')
  BY <1>1 DEF Truth, SameFile
<1>8. Named(section')
  BY <1>7, ChangesAssumption DEF Named, SameFile, HasRename
<1>9. Known(block', section', script')
  BY <1>6, <1>7 DEF Known, SameFile, From, To, Minus, Plus, HasRename, OldName, NewName
<1>10. \A i \in DOMAIN script' : Tells(section', script'[i])
  BY <1>6, <1>7 DEF Tells, SameFile, OldName, NewName
<1>11. FileIsIdentified'
  BY <1>4, CloseNames DEF WriteSection
<1> QED BY <1>8, <1>9, <1>10, <1>11 DEF NInv

\* A header line tells its part.
LEMMA HeaderNames == PInv /\ NInv /\ WriteHeaderLine => NInv'
<1> SUFFICES ASSUME PInv, NInv, WriteHeaderLine PROVE NInv'
  OBVIOUS
<1> DEFINE line == Head(script)
<1>1. script # <<>> /\ script' = Tail(script) /\ ReadLine(line) /\ section' = section
  BY DEF WriteHeaderLine
<1>2. block.exists /\ ~section.open /\ block \in Blocks /\ script \in Seq(ScriptLines)
  BY <1>1, BlockExists DEF PInv, HeaderFirst, Types
<1>3. ~in_hunk
  BY <1>2 DEF PInv, ParserKeepsPosition
<1>4. line \in ScriptLines /\ Tells(section, line)
  BY <1>1, <1>2, NextLine DEF NInv
<1>5. block' = ReadHeader(block, line) /\ last' = last
  <2> HIDE DEF line
  <2> QED BY <1>1, <1>3, <1>4, ReadCases DEF ScriptLines, RenameHeaders
<1>6. Known(block', section, Tail(script))
  BY <1>1, <1>2, <1>4, <1>5, ReadHeaderKnown DEF NInv
<1>7. \A i \in DOMAIN Tail(script) : Tells(section, Tail(script)[i])
  BY <1>1, <1>2, NextLine DEF NInv
<1>8. FileIsIdentified'
  BY <1>5 DEF NInv, FileIsIdentified, Told, Heard
<1>9. Named(section)
  BY <1>2 DEF NInv
<1> QED BY <1>1, <1>6, <1>7, <1>8, <1>9 DEF NInv

\* Every step keeps the invariant.
LEMMA StepNInv == PInv /\ NInv /\ [Next]_vars => NInv'
<1> SUFFICES ASSUME PInv, NInv, [Next]_vars PROVE NInv'
  OBVIOUS
<1>1. CASE UNCHANGED vars
  BY <1>1 DEF vars, writerVars, parserVars, NInv, FileIsIdentified, Told, Heard
<1>2. CASE EndOfText
  <2>1. script = <<>> /\ Close /\ block' = NoBlock
    BY <1>2 DEF EndOfText
  <2>2. block'.exists = FALSE
    BY <2>1 DEF NoBlock
  <2> QED BY <2>1, <2>2, CloseNames DEF NInv
<1> QED BY <1>1, <1>2, SectionNames, HeaderNames, BodySteps DEF Next

\* parse_unified_diff: whatever the kind of the change, and from whichever
\* header lines its section has, a file has the status and the names git
\* meant, if its names can be read at all.
THEOREM FilesAreIdentified == Spec => []FileIsIdentified
<1>1. Init => NInv
  BY DEF Init, NInv, NoBlock, FileIsIdentified
<1>2. NInv => FileIsIdentified
  BY DEF NInv
<1> QED BY <1>1, <1>2, InitPInv, StepPInv, StepNInv, PTL DEF Spec
=============================================================================
