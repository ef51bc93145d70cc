--------------------------- MODULE PrepareProofs ---------------------------
(***************************************************************************)
(* The properties of Selection, Context and Prepare, proved for every      *)
(* value of their constants.                                               *)
(*                                                                         *)
(*   SelInv   build_diff_result: its lists are a partition of what git     *)
(*            wrote, its books are right, and every dropped file has the   *)
(*            reason it was dropped for                                    *)
(*   MInv     the map of many pushes: where no push has still to tell the  *)
(*            map about a path, the map has it as the branch does          *)
(*   CtxInv   the requests: the files of the push are shown, left out or   *)
(*            still to come, and the budget is down by the shares at most  *)
(*                                                                         *)
(* Facts about all finite sets (sums, sorted sequences) are proved with a  *)
(* least counterexample in place of an induction.                          *)
(***************************************************************************)
EXTENDS Prepare, SortingProofs

-----------------------------------------------------------------------------
(* Sums over finite sets of files.                                         *)

Sizes(S) == MapThenSumSet(LAMBDA f : f.size, S)

Some(s) == CHOOSE x \in s : TRUE

\* g is the function MapThenSumSet defines by recursion over the subsets of U.
IsSum(g, U) ==
  g = [s \in SUBSET U |->
         IF s = {} THEN 0
         ELSE LET x == CHOOSE x \in s : TRUE IN x.size + g[s \ {x}]]

\* One step of its recursion.
LEMMA SumUnfolds ==
  ASSUME NEW g, NEW U, IsSum(g, U), NEW s \in SUBSET U
  PROVE  /\ s = {} => g[s] = 0
         /\ s # {} => Some(s) \in s /\ g[s] = Some(s).size + g[s \ {Some(s)}]
BY Zenon DEF IsSum, Some

\* There is one such function at most.
LEMMA SumUnique ==
  ASSUME NEW U, IsFiniteSet(U), NEW V, NEW g, NEW h, IsSum(g, U), IsSum(h, V),
         NEW s \in SUBSET U, s \in SUBSET V
  PROVE  g[s] = h[s]
<1> DEFINE B == {t \in SUBSET U : t \in SUBSET V /\ g[t] # h[t]}
<1> SUFFICES ASSUME B # {} PROVE FALSE
  OBVIOUS
<1>0. B \subseteq SUBSET U
  OBVIOUS
<1>1. PICK m \in B : \A t \in B : t \subseteq m => t = m
  <2> HIDE DEF B
  <2> QED BY <1>0, LeastSet
<1>2. m # {}
  BY <1>1, SumUnfolds, Zenon
<1> DEFINE n == m \ {Some(m)}
<1>3. Some(m) \in m /\ g[m] = Some(m).size + g[n] /\ h[m] = Some(m).size + h[n]
  BY <1>1, <1>2, SumUnfolds, Zenon
<1>4. n \in SUBSET U /\ n \in SUBSET V /\ n \subseteq m /\ n # m
  BY <1>1, <1>3
<1>5. g[n] = h[n]
  BY <1>1, <1>4
<1> QED BY <1>1, <1>3, <1>5

\* There is one for every finite set.
LEMMA SumExists ==
  ASSUME NEW U, IsFiniteSet(U)
  PROVE  \E g : IsSum(g, U)
<1> DEFINE B == {t \in SUBSET U : ~ \E g : IsSum(g, t)}
<1> SUFFICES ASSUME B # {} PROVE FALSE
  OBVIOUS
<1>0. B \subseteq SUBSET U
  OBVIOUS
<1>1. PICK m \in B : IsFiniteSet(m) /\ \A t \in B : t \subseteq m => t = m
  <2> HIDE DEF B
  <2> QED BY <1>0, LeastSet
<1> DEFINE Of(t) == CHOOSE g : IsSum(g, t)
           H(t) == Of(t)[t]
           k == [t \in SUBSET m |->
                  IF t = {} THEN 0
                  ELSE LET x == CHOOSE x \in t : TRUE IN x.size + H(t \ {x})]
<1>2. ASSUME NEW t \in SUBSET m, t # m
      PROVE  IsSum(Of(t), t) /\ IsFiniteSet(t)
  <2>1. t \notin B
    BY <1>1, <1>2
  <2>2. \E g : IsSum(g, t)
    BY <2>1, <1>1
  <2>3. IsSum(Of(t), t)
    BY <2>2, Zenon
  <2> QED BY <1>1, <1>2, <2>3, FS_Subset
<1>3. ASSUME NEW t \in SUBSET m, t # m
      PROVE  k[t] = H(t)
  <2>1. CASE t = {}
    <3>1. H(t) = 0
      BY <1>2, <1>3, <2>1, SumUnfolds
    <3> QED BY <2>1, <3>1
  <2>2. CASE t # {}
    <3> DEFINE u == t \ {Some(t)}
    <3>1. Some(t) \in t /\ H(t) = Some(t).size + Of(t)[u]
      BY <1>2, <1>3, <2>2, SumUnfolds
    <3>2. u \in SUBSET m /\ u # m /\ u \in SUBSET t /\ u \in SUBSET u
      BY <1>3, <3>1
    <3>3. IsSum(Of(u), u) /\ IsSum(Of(t), t) /\ IsFiniteSet(t)
      BY <1>2, <1>3, <3>2
    <3> HIDE DEF Of, u
    <3>4. Of(t)[u] = Of(u)[u]
      BY <3>2, <3>3, SumUnique
    <3>5. k[t] = Some(t).size + H(u)
      BY <2>2, Zenon DEF Some, u
    <3> QED BY <3>1, <3>4, <3>5
  <2> QED BY <2>1, <2>2
<1>4. ASSUME NEW t \in SUBSET m, t # {}
      PROVE  k[t] = (CHOOSE x \in t : TRUE).size + k[t \ {CHOOSE x \in t : TRUE}]
  <2> DEFINE x == CHOOSE x \in t : TRUE
  <2>0. x \in t
    BY <1>4
  <2>1. (t \ {x}) \in SUBSET m /\ t \ {x} # m
    BY <1>4, <2>0
  <2>2. k[t] = x.size + H(t \ {x})
    BY <1>4, Zenon
  <2>3. k[t \ {x}] = H(t \ {x})
    BY <1>3, <2>1
  <2> QED BY <2>2, <2>3
<1> DEFINE l == [s \in SUBSET m |->
                   IF s = {} THEN 0
                   ELSE LET x == CHOOSE x \in s : TRUE IN x.size + k[s \ {x}]]
<1>5. ASSUME NEW t \in SUBSET m PROVE k[t] = l[t]
  <2>1. CASE t = {}
    <3>1. k[t] = 0
      BY <2>1
    <3>2. l[t] = 0
      BY <2>1
    <3> QED BY <3>1, <3>2
  <2>2. CASE t # {}
    <3>1. k[t] = (CHOOSE x \in t : TRUE).size + k[t \ {CHOOSE x \in t : TRUE}]
      BY <1>4, <2>2
    <3> HIDE DEF k
    <3>2. l[t] = (CHOOSE x \in t : TRUE).size + k[t \ {CHOOSE x \in t : TRUE}]
      BY <2>2, Zenon
    <3> QED BY <3>1, <3>2
  <2> QED BY <2>1, <2>2
<1>6. k = l
  <2>1. k = [t \in DOMAIN k |-> k[t]] /\ l = [t \in DOMAIN l |-> l[t]] /\ DOMAIN k = SUBSET m /\ DOMAIN l = SUBSET m
    OBVIOUS
  <2> HIDE DEF k, l
  <2> QED BY <1>5, <2>1
<1>7. IsSum(k, m)
  BY <1>6, Zenon DEF IsSum
<1> QED BY <1>1, <1>7

\* What MapThenSumSet computes.
LEMMA SizesIs ==
  ASSUME NEW S, IsFiniteSet(S)
  PROVE  \E g : IsSum(g, S) /\ Sizes(S) = g[S]
<1>1. \E g : IsSum(g, S)
  BY SumExists
<1> QED BY <1>1, Zenon DEF Sizes, MapThenSumSet, MapThenFoldSet, IsSum

\* One step of the recursion.
LEMMA SizesUnfolds ==
  ASSUME NEW S, IsFiniteSet(S)
  PROVE  /\ S = {} => Sizes(S) = 0
         /\ S # {} => /\ Some(S) \in S
                      /\ Sizes(S) = Some(S).size + Sizes(S \ {Some(S)})
<1>1. PICK g : IsSum(g, S) /\ Sizes(S) = g[S]
  BY SizesIs
<1>2. CASE S = {}
  BY <1>1, <1>2, SumUnfolds
<1>3. CASE S # {}
  <2> DEFINE u == S \ {Some(S)}
  <2>1. Some(S) \in S /\ g[S] = Some(S).size + g[u]
    BY <1>1, <1>3, SumUnfolds
  <2>2. IsFiniteSet(u)
    BY FS_RemoveElement
  <2>3. PICK h : IsSum(h, u) /\ Sizes(u) = h[u]
    BY <2>2, SizesIs
  <2>4. g[u] = h[u]
    BY <1>1, <2>1, <2>3, SumUnique
  <2> QED BY <1>1, <1>3, <2>1, <2>3, <2>4
<1> QED BY <1>2, <1>3

\* Sums of natural numbers are natural numbers.
LEMMA SizesNat ==
  ASSUME NEW S, IsFiniteSet(S), \A f \in S : f.size \in Nat
  PROVE  Sizes(S) \in Nat
<1> DEFINE B == {t \in SUBSET S : Sizes(t) \notin Nat}
<1> SUFFICES ASSUME B # {} PROVE FALSE
  OBVIOUS
<1>0. B \subseteq SUBSET S
  OBVIOUS
<1>1. PICK m \in B : IsFiniteSet(m) /\ \A t \in B : t \subseteq m => t = m
  <2> HIDE DEF B
  <2> QED BY <1>0, LeastSet
<1>2. m # {} /\ m \in SUBSET S /\ Sizes(m) \notin Nat
  <2>1. m \in SUBSET S /\ Sizes(m) \notin Nat
    BY <1>1
  <2>2. m = {} => Sizes(m) = 0
    BY <1>1, SizesUnfolds
  <2> QED BY <2>1, <2>2
<1>3. Some(m) \in m /\ Sizes(m) = Some(m).size + Sizes(m \ {Some(m)})
  BY <1>1, <1>2, SizesUnfolds
<1>4. Sizes(m \ {Some(m)}) \in Nat
  BY <1>1, <1>2, <1>3
<1> QED BY <1>2, <1>3, <1>4

\* Any element may be taken out first.
LEMMA SizesWithout ==
  ASSUME NEW S, IsFiniteSet(S), \A f \in S : f.size \in Nat, NEW x \in S
  PROVE  Sizes(S) = x.size + Sizes(S \ {x})
<1> DEFINE B == {t \in SUBSET S : \E y \in t : Sizes(t) # y.size + Sizes(t \ {y})}
<1> SUFFICES ASSUME B # {} PROVE FALSE
  OBVIOUS
<1>0. B \subseteq SUBSET S
  OBVIOUS
<1>1. PICK m \in B : IsFiniteSet(m) /\ \A t \in B : t \subseteq m => t = m
  <2> HIDE DEF B
  <2> QED BY <1>0, LeastSet
<1>2. PICK y \in m : Sizes(m) # y.size + Sizes(m \ {y})
  BY <1>1
<1> DEFINE c == Some(m)
<1>3. c \in m /\ Sizes(m) = c.size + Sizes(m \ {c})
  BY <1>1, <1>2, SizesUnfolds
<1>4. y # c
  BY <1>2, <1>3
<1> DEFINE u == m \ {c}
           v == m \ {y}
           w == (m \ {c}) \ {y}
<1>5. Sizes(u) = y.size + Sizes(w)
  <2>1. u \in SUBSET S /\ u \subseteq m /\ u # m /\ y \in u
    BY <1>1, <1>3, <1>4
  <2> QED BY <1>1, <2>1
<1>6. Sizes(v) = c.size + Sizes(w)
  <2>1. v \in SUBSET S /\ v \subseteq m /\ v # m /\ c \in v /\ v \ {c} = w
    BY <1>1, <1>2, <1>3, <1>4
  <2> QED BY <1>1, <2>1
<1>7. c.size \in Nat /\ y.size \in Nat /\ Sizes(w) \in Nat
  <2>1. m \subseteq S /\ w \subseteq S /\ IsFiniteSet(w)
    BY <1>1, FS_Subset
  <2>2. c.size \in Nat /\ y.size \in Nat /\ \A f \in w : f.size \in Nat
    BY <1>2, <1>3, <2>1
  <2>3. Sizes(w) \in Nat
    BY <2>1, <2>2, SizesNat
  <2> QED BY <2>2, <2>3
<1> HIDE DEF c, u, v, w
<1>8. Sizes(m) = c.size + Sizes(u) /\ Sizes(m) # y.size + Sizes(v)
  BY <1>2, <1>3 DEF u, v
<1> QED BY <1>5, <1>6, <1>7, <1>8

\* One element more.
LEMMA SizesAdd ==
  ASSUME NEW S, IsFiniteSet(S), \A f \in S : f.size \in Nat,
         NEW x, x \notin S, x.size \in Nat
  PROVE  Sizes(S \cup {x}) = Sizes(S) + x.size /\ Sizes(S) \in Nat
<1>1. IsFiniteSet(S \cup {x})
  BY FS_AddElement
<1>2. Sizes(S \cup {x}) = x.size + Sizes((S \cup {x}) \ {x})
  BY <1>1, SizesWithout
<1>3. (S \cup {x}) \ {x} = S
  OBVIOUS
<1> QED BY <1>2, <1>3, SizesNat

-----------------------------------------------------------------------------
(* Entries and files.                                                      *)

PushRecord == [before : Trees, after : Trees, overtaken : SUBSET Paths, applied : BOOLEAN]

Entry == [code : {"A", "M", "D", "R", "T"}, path : Paths, new : Paths \cup {NoPath},
          from : Versions \cup {Absent}, to : Versions \cup {Absent}]

FileRecord == [old : Paths \cup {NoPath}, new : Paths \cup {NoPath}, path : Paths,
               status : {"added", "modified", "deleted", "renamed"}, binary : BOOLEAN,
               size : Nat, weight : Nat, upto : Seq(Nat)]

SameKey(f, g) == f.path = g.path /\ f.status = g.status

\* The paths that git pairs as renames.
Paired(push) == UNION {{r[1], r[2]} : r \in Renames(push)}

CodeOf(push, p) ==
  IF p \in Gone(push) THEN "D"
  ELSE IF p \in Come(push) THEN "A"
  ELSE IF (push.before[p] \in Links) # (push.after[p] \in Links) THEN "T"
  ELSE "M"

RenameEntry(push, r) ==
  [code |-> "R", path |-> r[1], new |-> r[2], from |-> push.before[r[1]], to |-> push.after[r[2]]]

PlainEntry(push, p) ==
  [code |-> CodeOf(push, p), path |-> p, new |-> NoPath, from |-> push.before[p], to |-> push.after[p]]

\* name_status, entry by entry.
LEMMA NameStatusIs ==
  ASSUME NEW push
  PROVE  NameStatus(push) = {RenameEntry(push, r) : r \in Renames(push)} \cup
                            {PlainEntry(push, p) : p \in Touched(push) \ Paired(push)}
BY Zenon DEF NameStatus, RenameEntry, PlainEntry, CodeOf, Paired

\* A rename pairs a path that went with one that came, and no other does.
LEMMA RenameFacts ==
  ASSUME NEW push \in PushRecord, NEW r \in Renames(push)
  PROVE  /\ r[1] \in Paths /\ r[2] \in Paths /\ r = <<r[1], r[2]>>
         /\ push.before[r[1]] # Absent /\ push.after[r[1]] = Absent
         /\ push.before[r[2]] = Absent /\ push.after[r[2]] # Absent
         /\ \A q \in Renames(push) : q # r => q[1] # r[1] /\ q[2] # r[2]
<1>1. \A q \in Renames(push) : q \in Gone(push) \X Come(push)
  BY DEF Renames
<1>2. \A q \in Renames(push) : q[1] \in Gone(push) /\ q[2] \in Come(push) /\ q = <<q[1], q[2]>>
  BY <1>1
<1>3. /\ r[1] \in Paths /\ r[2] \in Paths /\ r = <<r[1], r[2]>>
      /\ push.before[r[1]] # Absent /\ push.after[r[1]] = Absent
      /\ push.before[r[2]] = Absent /\ push.after[r[2]] # Absent
  BY <1>2 DEF Gone, Come
<1>4. ASSUME NEW q \in Renames(push), q # r
      PROVE  q[1] # r[1] /\ q[2] # r[2]
  <2>1. /\ r[1] < q[1] \/ (r[1] = q[1] /\ r[2] < q[2]) \/ (r[1] # q[1] /\ r[2] # q[2])
        /\ q[1] < r[1] \/ (q[1] = r[1] /\ q[2] < r[2]) \/ (q[1] # r[1] /\ q[2] # r[2])
    BY <1>4 DEF Renames
  <2>2. r[1] \in Nat /\ r[2] \in Nat /\ q[1] \in Nat /\ q[2] \in Nat
    BY <1>2, SelectionAssumption DEF Gone, Come
  <2> QED BY <2>1, <2>2
<1> QED BY <1>3, <1>4

\* Every entry is of a rename or of a path outside them.
LEMMA EntryFacts ==
  ASSUME NEW push \in PushRecord, NEW e \in NameStatus(push)
  PROVE  /\ e \in Entry
         /\ \/ \E r \in Renames(push) : e = RenameEntry(push, r)
            \/ \E p \in Touched(push) \ Paired(push) : e = PlainEntry(push, p)
<1>1. \/ \E r \in Renames(push) : e = RenameEntry(push, r)
      \/ \E p \in Touched(push) \ Paired(push) : e = PlainEntry(push, p)
  BY NameStatusIs
<1>2. \A p \in Paths : /\ push.before[p] \in Versions \cup {Absent}
                       /\ push.after[p] \in Versions \cup {Absent}
  BY DEF PushRecord, Trees
<1>3. ASSUME NEW r \in Renames(push), e = RenameEntry(push, r) PROVE e \in Entry
  BY <1>2, <1>3, RenameFacts DEF RenameEntry, Entry
<1>4. ASSUME NEW p \in Touched(push) \ Paired(push), e = PlainEntry(push, p) PROVE e \in Entry
  <2>1. p \in Paths
    BY DEF Touched
  <2>2. CodeOf(push, p) \in {"A", "M", "D", "R", "T"}
    BY DEF CodeOf
  <2> QED BY <1>2, <1>4, <2>1, <2>2 DEF PlainEntry, Entry
<1> QED BY <1>1, <1>3, <1>4

\* No two entries are about the same effective path.
LEMMA EntriesDistinct ==
  ASSUME NEW push \in PushRecord, NEW d \in NameStatus(push), NEW e \in NameStatus(push),
         Effective(d) = Effective(e)
  PROVE  d = e
<1>0. NoPath \notin Paths
  BY SelectionAssumption
<1>1. ASSUME NEW r \in Renames(push)
      PROVE  Effective(RenameEntry(push, r)) = r[2] /\ r[2] \in Paired(push)
  BY <1>0, RenameFacts DEF RenameEntry, Effective, Paired
<1>2. ASSUME NEW p \in Touched(push) \ Paired(push)
      PROVE  Effective(PlainEntry(push, p)) = p /\ p \notin Paired(push)
  BY DEF PlainEntry, Effective
<1>3. CASE \E r \in Renames(push) : d = RenameEntry(push, r)
  <2>1. PICK r \in Renames(push) : d = RenameEntry(push, r)
    BY <1>3
  <2>2. PICK q \in Renames(push) : e = RenameEntry(push, q)
    BY <1>1, <1>2, <2>1, EntryFacts
  <2>3. q[2] = r[2]
    BY <1>1, <2>1, <2>2
  <2> QED BY <2>1, <2>2, <2>3, RenameFacts
<1>4. CASE \E p \in Touched(push) \ Paired(push) : d = PlainEntry(push, p)
  <2>1. PICK p \in Touched(push) \ Paired(push) : d = PlainEntry(push, p)
    BY <1>4
  <2>2. PICK q \in Touched(push) \ Paired(push) : e = PlainEntry(push, q)
    BY <1>1, <1>2, <2>1, EntryFacts
  <2> QED BY <1>2, <2>1, <2>2
<1> QED BY <1>3, <1>4, EntryFacts

\* The entries of a push are finitely many.
LEMMA EntriesFinite ==
  ASSUME NEW push \in PushRecord
  PROVE  IsFiniteSet(NameStatus(push))
<1> DEFINE E == NameStatus(push)
           f == [e \in E |-> Effective(e)]
<1>1. f \in Injection(E, Paths)
  <2>1. \A e \in E : Effective(e) \in Paths
    BY EntryFacts DEF Entry, Effective
  <2>2. \A d, e \in E : f[d] = f[e] => d = e
    BY EntriesDistinct
  <2> QED BY <2>1, <2>2 DEF Injection, IsInjective
<1> QED BY <1>1, FS_Injection, SelectionAssumption

\* What a section of an entry looks like.
LEMMA SectionFacts ==
  ASSUME NEW e \in Entry, NEW f \in Sections(e)
  PROVE  /\ f \in FileRecord /\ f.path = Effective(e)
         /\ f.status = "deleted" => e.code \in {"D", "T"} /\ f.old = e.path /\ f.new = NoPath
         /\ f.status = "added" => e.code \in {"A", "T"} /\ f.old = NoPath /\ f.new = Effective(e)
         /\ f.status = "modified" => e.code = "M" /\ f.old = e.path /\ f.new = Effective(e)
         /\ f.status = "renamed" => e.code = "R" /\ f.old = e.path /\ f.new = Effective(e)
<1>1. /\ Patch[Absent][e.to] \in Patches /\ Patch[e.from][e.to] \in Patches
      /\ Patch[e.from][Absent] \in Patches
  BY SelectionAssumption DEF Entry
<1>2. e.path \in Paths /\ Effective(e) \in Paths
  BY DEF Entry, Effective
<1>3. ASSUME NEW status \in {"added", "modified", "deleted", "renamed"},
             NEW patch \in Patches, f = File(e, status, patch)
      PROVE  /\ f \in FileRecord /\ f.path = Effective(e) /\ f.status = status
             /\ f.old = IF status = "added" THEN NoPath ELSE e.path
             /\ f.new = IF status = "deleted" THEN NoPath ELSE Effective(e)
  BY <1>2, <1>3 DEF File, FileRecord, Patches
<1>4. CASE e.code = "A"
  <2>1. f = File(e, "added", Patch[Absent][e.to])
    BY <1>4 DEF Sections
  <2> QED BY <1>1, <1>3, <1>4, <2>1
<1>5. CASE e.code = "M"
  <2>1. f = File(e, "modified", Patch[e.from][e.to])
    BY <1>5 DEF Sections
  <2> QED BY <1>1, <1>3, <1>5, <2>1
<1>6. CASE e.code = "D"
  <2>1. f = File(e, "deleted", Patch[e.from][Absent])
    BY <1>6 DEF Sections
  <2> QED BY <1>1, <1>3, <1>6, <2>1
<1>7. CASE e.code = "R"
  <2>1. f = File(e, "renamed", Patch[e.from][e.to])
    BY <1>7 DEF Sections
  <2> QED BY <1>1, <1>3, <1>7, <2>1
<1>8. CASE e.code = "T"
  <2>1. f = File(e, "deleted", Patch[e.from][Absent]) \/ f = File(e, "added", Patch[Absent][e.to])
    BY <1>8 DEF Sections
  <2> QED BY <1>1, <1>3, <1>8, <2>1
<1> QED BY <1>4, <1>5, <1>6, <1>7, <1>8 DEF Entry

\* An entry has a section, finitely many, and at most one of each status.
LEMMA SectionsOf ==
  ASSUME NEW e \in Entry
  PROVE  /\ Sections(e) # {} /\ IsFiniteSet(Sections(e))
         /\ \A f, g \in Sections(e) : f.status = g.status => f = g
<1>0. \A status, patch : File(e, status, patch).status = status
  BY DEF File
<1>1. \/ \E f : Sections(e) = {f}
      \/ Sections(e) = {File(e, "deleted", Patch[e.from][Absent]),
                        File(e, "added", Patch[Absent][e.to])}
  BY DEF Entry, Sections
<1>2. CASE \E f : Sections(e) = {f}
  BY <1>2, FS_Singleton
<1>3. CASE Sections(e) = {File(e, "deleted", Patch[e.from][Absent]),
                          File(e, "added", Patch[Absent][e.to])}
  <2> DEFINE a == File(e, "deleted", Patch[e.from][Absent])
             b == File(e, "added", Patch[Absent][e.to])
  <2>1. a.status = "deleted" /\ b.status = "added"
    BY <1>0
  <2> HIDE DEF a, b
  <2>2. Sections(e) = {a} \cup {b}
    BY <1>3 DEF a, b
  <2>3. IsFiniteSet({a} \cup {b})
    BY FS_Singleton, FS_AddElement
  <2> QED BY <2>1, <2>2, <2>3
<1> QED BY <1>1, <1>2, <1>3

Distinct(es) == \A d, e \in es : Effective(d) = Effective(e) => d = e

\* The files of distinct entries.
LEMMA DiffFilesFacts ==
  ASSUME NEW es, es \subseteq Entry, IsFiniteSet(es), Distinct(es)
  PROVE  /\ DiffFiles(es) \subseteq FileRecord /\ IsFiniteSet(DiffFiles(es))
         /\ es # {} => DiffFiles(es) # {}
         /\ \A f, g \in DiffFiles(es) : SameKey(f, g) => f = g
<1>1. \A f \in DiffFiles(es) : \E e \in es : f \in Sections(e)
  BY DEF DiffFiles
<1>2. DiffFiles(es) \subseteq FileRecord
  BY <1>1, SectionFacts
<1>3. IsFiniteSet(DiffFiles(es))
  <2> DEFINE T == {Sections(e) : e \in es}
             h == [e \in es |-> Sections(e)]
  <2>1. h \in Surjection(es, T)
    BY DEF Surjection
  <2>2. IsFiniteSet(T)
    BY <2>1, FS_Surjection
  <2>3. \A t \in T : IsFiniteSet(t)
    BY SectionsOf
  <2> QED BY <2>2, <2>3, FS_UNION DEF DiffFiles
<1>4. es # {} => DiffFiles(es) # {}
  BY SectionsOf DEF DiffFiles
<1>5. ASSUME NEW f \in DiffFiles(es), NEW g \in DiffFiles(es), SameKey(f, g) PROVE f = g
  <2>1. PICK d \in es : f \in Sections(d)
    BY <1>1
  <2>2. PICK e \in es : g \in Sections(e)
    BY <1>1
  <2>3. Effective(d) = Effective(e)
    BY <1>5, <2>1, <2>2, SectionFacts DEF SameKey
  <2>4. d = e
    BY <2>3 DEF Distinct
  <2> QED BY <1>5, <2>1, <2>2, <2>4, SectionsOf DEF SameKey
<1> QED BY <1>2, <1>3, <1>4, <1>5

\* Truncating a diff changes its length only, and bounds it.
LEMMA ClipFacts ==
  ASSUME NEW f \in FileRecord
  PROVE  /\ Clip(f) \in FileRecord
         /\ Clip(f).path = f.path /\ Clip(f).status = f.status /\ Clip(f).weight = f.weight
         /\ Clip(f).old = f.old /\ Clip(f).new = f.new /\ Clip(f).upto = f.upto
         /\ Clip(f).binary = f.binary
         /\ Clip(f).size \in Nat
         /\ Clip(f).size <= MaxFileDiff + ClipMark \/ (f.binary /\ Clip(f).size = BinaryNote)
<1>0. MaxFileDiff \in Nat /\ ClipMark \in Nat /\ BinaryNote \in Nat
  BY SelectionAssumption
<1>1. CASE f.binary
  <2>1. Clip(f) = [f EXCEPT !.size = BinaryNote]
    BY <1>1 DEF Clip, Clipped
  <2> QED BY <1>0, <1>1, <2>1 DEF FileRecord
<1>2. CASE ~f.binary /\ f.size > MaxFileDiff
  <2>1. Clip(f) = [f EXCEPT !.size = MaxFileDiff + ClipMark]
    BY <1>2 DEF Clip, Clipped
  <2>2. MaxFileDiff + ClipMark \in Nat
    BY <1>0
  <2> QED BY <1>0, <2>1, <2>2 DEF FileRecord
<1>3. CASE ~f.binary /\ ~(f.size > MaxFileDiff)
  <2>1. Clip(f) = f
    BY <1>3 DEF Clip, Clipped
  <2>2. f.size \in Nat
    BY DEF FileRecord
  <2> QED BY <1>0, <1>3, <2>1, <2>2
<1> QED BY <1>1, <1>2, <1>3

\* The order looks at weight, path and status, and is asymmetric.
LEMMA BeforeFacts ==
  ASSUME NEW f \in FileRecord, NEW g \in FileRecord
  PROVE  /\ Before(f, g) => ~Before(g, f)
         /\ Before(Clip(f), g) <=> Before(f, g)
         /\ Before(g, Clip(f)) <=> Before(g, f)
<1>1. f.weight \in Nat /\ g.weight \in Nat /\ f.path \in Nat /\ g.path \in Nat
  BY SelectionAssumption DEF FileRecord
<1> QED BY <1>1, ClipFacts DEF Before

-----------------------------------------------------------------------------
(* Selection: the inductive invariant and the steps of build_diff_result.  *)

Phases == {"idle", "listed", "cap", "take", "selected", "plan", "request", "files", "done"}

\* The files git writes for the entries that are not ignored.
Diffed == DiffFiles({e \in entries : ~Skipped(e)})

SelTypes ==
  /\ phase \in Phases
  /\ entries \subseteq Entry /\ IsFiniteSet(entries) /\ Distinct(entries)
  /\ todo \subseteq FileRecord /\ IsFiniteSet(todo)
  /\ kept \subseteq FileRecord /\ IsFiniteSet(kept)
  /\ dropped \subseteq FileRecord /\ IsFiniteSet(dropped)

\* Nothing is decided before its step.
InPhase ==
  /\ Listed => todo = {} /\ ignored = {}
  /\ Listed \/ phase = "cap" => kept = {} /\ dropped = {} /\ total = 0
  /\ ~Listed => ignored = {e \in entries : Skipped(e)}
  /\ ~Listed /\ phase \notin {"cap", "take"} => todo = {}

\* Every file git wrote is in one of the lists, and in one only.
Partition ==
  /\ todo \cup dropped \subseteq Diffed
  /\ \A f \in kept : \E g \in Diffed : f = Clip(g)
  /\ ~Listed => \A g \in Diffed : g \in todo \/ g \in dropped \/ Clip(g) \in kept
  /\ todo \cap dropped = {}
  /\ \A f \in kept, g \in todo \cup dropped : ~SameKey(f, g)

\* The books of the loop.
Counted ==
  /\ total = Sizes(kept) /\ total \in Nat /\ total <= MaxTotalDiff
  /\ phase # "cap" => Cardinality(todo) + Cardinality(kept) <= MaxChangedFiles

\* Why a file was dropped: the files ahead of it fill the number of files ...
CapDrop(f) ==
  /\ \A h \in todo : Before(h, f)
  /\ Cardinality(todo) + Cardinality({g \in kept \cup dropped : Before(g, f)}) >= MaxChangedFiles

\* ... or the room.
RoomDrop(f) ==
  /\ \A h \in todo : Before(f, h)
  /\ Sizes({g \in kept : Before(g, f)}) + Clip(f).size > MaxTotalDiff

Ordered ==
  /\ \A f \in kept, h \in todo : Before(f, h)
  /\ \A f \in dropped : CapDrop(f) \/ RoomDrop(f)

NotEmptied ==
  (RoomForOne /\ ~Listed /\ phase # "cap" /\ kept = {}) =>
    (todo # {} \/ \A e \in entries : Skipped(e))

SelInv == SelTypes /\ InPhase /\ Partition /\ Counted /\ Ordered /\ NotEmptied

\* The variables SelInv is about.
selVars == <<entries, todo, kept, dropped, ignored, total>>

\* What was written for the entries in hand.
LEMMA DiffedFacts ==
  ASSUME SelTypes
  PROVE  /\ Diffed \subseteq FileRecord /\ IsFiniteSet(Diffed)
         /\ (Diffed = {} => \A e \in entries : Skipped(e))
         /\ \A f, g \in Diffed : SameKey(f, g) => f = g
<1> DEFINE es == {e \in entries : ~Skipped(e)}
<1>1. es \subseteq entries /\ es \subseteq Entry /\ Distinct(es)
  BY DEF SelTypes, Distinct
<1>2. IsFiniteSet(es)
  BY <1>1, FS_Subset DEF SelTypes
<1> HIDE DEF es
<1>3. /\ DiffFiles(es) \subseteq FileRecord /\ IsFiniteSet(DiffFiles(es))
      /\ es # {} => DiffFiles(es) # {}
      /\ \A f, g \in DiffFiles(es) : SameKey(f, g) => f = g
  BY <1>1, <1>2, DiffFilesFacts
<1>4. Diffed = DiffFiles(es)
  BY DEF Diffed, es
<1>5. es = {} => \A e \in entries : Skipped(e)
  BY DEF es
<1> QED BY <1>3, <1>4, <1>5

\* The split: nothing is decided on yet.
LEMMA SplitKeeps ==
  ASSUME SelInv, Split
  PROVE  SelInv'
<1>1. /\ phase = "listed" /\ phase' = "cap"
      /\ ignored' = {e \in entries : Skipped(e)}
      /\ todo' = DiffFiles(entries \ ignored')
      /\ UNCHANGED <<entries, kept, dropped, total>>
  BY DEF Split
<1>2. kept = {} /\ dropped = {} /\ total = 0
  BY <1>1 DEF SelInv, InPhase, Listed
<1>3. entries \ ignored' = {e \in entries : ~Skipped(e)}
  BY <1>1
<1>4. todo' = Diffed /\ Diffed' = Diffed
  BY <1>1, <1>3 DEF Diffed
<1>5. Diffed \subseteq FileRecord /\ IsFiniteSet(Diffed)
  BY DiffedFacts DEF SelInv
<1>6. SelTypes'
  BY <1>1, <1>4, <1>5 DEF SelInv, SelTypes, Phases
<1>7. InPhase'
  BY <1>1, <1>2 DEF InPhase, Listed
<1>8. Partition'
  BY <1>1, <1>2, <1>4 DEF Partition
<1>9. Counted'
  BY <1>1 DEF SelInv, Counted
<1>10. Ordered' /\ NotEmptied'
  BY <1>1, <1>2 DEF Ordered, NotEmptied
<1> QED BY <1>6, <1>7, <1>8, <1>9, <1>10 DEF SelInv

\* The cap keeps the first files, and drops the others behind a full number.
LEMMA CapKeeps ==
  ASSUME SelInv, Cap
  PROVE  SelInv'
<1>1. PICK first \in SUBSET todo :
        /\ phase = "cap" /\ phase' = "take"
        /\ IsHead(first, todo) /\ todo' = first /\ dropped' = todo \ first
        /\ UNCHANGED <<entries, kept, ignored, total>>
  BY DEF Cap
<1>2. kept = {} /\ dropped = {} /\ total = 0 /\ kept' = {}
  BY <1>1 DEF SelInv, InPhase
<1>3. Diffed' = Diffed
  BY <1>1 DEF Diffed
<1>4. todo \subseteq FileRecord /\ IsFiniteSet(todo) /\ Cardinality(todo) \in Nat
  BY FS_CardinalityType DEF SelInv, SelTypes
<1>5. IsFiniteSet(first) /\ Cardinality(first) \in Nat /\ IsFiniteSet(todo \ first)
  BY <1>4, FS_Subset, FS_CardinalityType, FS_Difference
<1>6. SelTypes'
  BY <1>1, <1>4, <1>5 DEF SelInv, SelTypes, Phases
<1>7. InPhase'
  BY <1>1, <1>2 DEF SelInv, InPhase, Listed
<1>8. Partition'
  BY <1>1, <1>2, <1>3 DEF SelInv, Partition, Listed
<1>m. MaxChangedFiles \in Nat
  BY SelectionAssumption
<1>9. Cardinality(first) <= MaxChangedFiles
  BY <1>1, <1>4, <1>5, <1>m DEF IsHead
<1>10. Counted'
  <2>1. Cardinality(kept') = 0
    BY <1>2, FS_EmptySet
  <2> QED BY <1>1, <1>5, <1>9, <1>m, <2>1 DEF SelInv, Counted
<1>11. Ordered'
  <2> SUFFICES ASSUME NEW f \in todo \ first PROVE CapDrop(f)'
    BY <1>1, <1>2 DEF Ordered
  <2>1. Cardinality(first) = MaxChangedFiles /\ \A h \in first : Before(h, f)
    BY <1>1 DEF IsHead
  <2> DEFINE D == {g \in kept' \cup dropped' : Before(g, f)}
  <2>2. IsFiniteSet(D)
    BY <1>1, <1>2, <1>5, FS_Subset
  <2>3. Cardinality(D) \in Nat
    BY <2>2, FS_CardinalityType
  <2> HIDE DEF D
  <2>4. Cardinality(todo') + Cardinality(D) >= MaxChangedFiles
    BY <1>1, <1>m, <2>1, <2>3
  <2> QED BY <1>1, <2>1, <2>4 DEF CapDrop, D
<1>12. NotEmptied'
  <2> SUFFICES ASSUME RoomForOne, todo' = {}
               PROVE  \A e \in entries : Skipped(e)
    BY <1>1 DEF NotEmptied, RoomForOne
  <2>1. Cardinality(first) = 0
    BY <1>1, FS_EmptySet
  <2>2. first = todo
    BY <1>1, <1>m, <2>1 DEF IsHead, RoomForOne
  <2>3. Diffed = {}
    BY <1>1, <1>2, <2>2 DEF SelInv, Partition, Listed
  <2> QED BY <2>3, DiffedFacts DEF SelInv
<1> QED BY <1>6, <1>7, <1>8, <1>10, <1>11, <1>12 DEF SelInv

\* The next file of the loop, before anything is decided.
LEMMA NextFacts ==
  ASSUME SelInv, phase = "take", NEW f \in todo, IsNext(f)
  PROVE  /\ f \in FileRecord /\ f \in Diffed /\ Clip(f) \in FileRecord
         /\ f \notin kept /\ f \notin dropped
         /\ Clip(f) \notin kept /\ Clip(f) \notin dropped
         /\ \A g \in kept : ~SameKey(Clip(f), g) /\ ~SameKey(g, f)
         /\ \A g \in (todo \ {f}) \cup dropped : ~SameKey(Clip(f), g)
         /\ \A h \in todo \ {f} : Before(f, h) /\ Before(Clip(f), h)
         /\ \A g \in kept : Before(g, f)
         /\ IsFiniteSet(todo \ {f}) /\ Cardinality(todo \ {f}) = Cardinality(todo) - 1
         /\ Cardinality(todo) \in Nat
<1>1. f \in FileRecord /\ f \in Diffed /\ todo \subseteq FileRecord
      /\ todo \cup dropped \subseteq Diffed
  BY DEF SelInv, SelTypes, Partition
<1>2. Clip(f) \in FileRecord /\ Clip(f).path = f.path /\ Clip(f).status = f.status
  BY <1>1, ClipFacts
<1>3. \A g \in kept : ~SameKey(g, f)
  BY DEF SelInv, Partition
<1>4. \A g \in kept : ~SameKey(Clip(f), g)
  BY <1>2, <1>3 DEF SameKey
<1>5. f \notin dropped
  BY DEF SelInv, Partition
<1>6. \A g \in (todo \ {f}) \cup dropped : ~SameKey(Clip(f), g)
  <2> SUFFICES ASSUME NEW g \in (todo \ {f}) \cup dropped, SameKey(Clip(f), g)
               PROVE  FALSE
    OBVIOUS
  <2>1. SameKey(f, g)
    BY <1>2 DEF SameKey
  <2>2. f = g
    BY <1>1, <2>1, DiffedFacts DEF SelInv
  <2> QED BY <1>5, <2>2
<1>7. \A h \in todo \ {f} : Before(f, h) /\ Before(Clip(f), h)
  BY <1>1, BeforeFacts DEF IsNext
<1>8. \A g \in kept : Before(g, f)
  BY DEF SelInv, Ordered
<1>9. /\ IsFiniteSet(todo \ {f}) /\ Cardinality(todo \ {f}) = Cardinality(todo) - 1
      /\ Cardinality(todo) \in Nat
  BY FS_RemoveElement, FS_CardinalityType DEF SelInv, SelTypes
<1>10. f \notin kept /\ Clip(f) \notin kept /\ Clip(f) \notin dropped
  BY <1>3, <1>4, <1>6 DEF SameKey
<1> QED BY <1>1, <1>2, <1>3, <1>4, <1>5, <1>6, <1>7, <1>8, <1>9, <1>10

\* A file ahead of f moves on from todo: f stays dropped behind a full number.
LEMMA CapDropMoves ==
  ASSUME SelTypes, SelTypes', NEW f \in dropped, CapDrop(f), NEW h \in todo, NEW x,
         x \notin kept \cup dropped, Before(x, f),
         todo' = todo \ {h}, kept' \cup dropped' = (kept \cup dropped) \cup {x}
  PROVE  CapDrop(f)'
<1> DEFINE D == {g \in kept \cup dropped : Before(g, f)}
           E == {g \in kept' \cup dropped' : Before(g, f)}
<1>1. IsFiniteSet(kept \cup dropped) /\ D \subseteq kept \cup dropped
  BY FS_Union DEF SelTypes
<1>2. IsFiniteSet(D)
  BY <1>1, FS_Subset
<1>3. E = D \cup {x} /\ x \notin D
  OBVIOUS
<1> HIDE DEF D, E
<1>4. Cardinality(E) = Cardinality(D) + 1 /\ Cardinality(D) \in Nat
  BY <1>2, <1>3, FS_AddElement, FS_CardinalityType
<1>5. Cardinality(todo') = Cardinality(todo) - 1 /\ Cardinality(todo) \in Nat
  BY FS_RemoveElement, FS_CardinalityType DEF SelTypes
<1>6. Cardinality(todo) + Cardinality(D) >= MaxChangedFiles /\ \A g \in todo : Before(g, f)
  BY DEF CapDrop, D
<1>7. MaxChangedFiles \in Nat
  BY SelectionAssumption
<1>8. Cardinality(todo') + Cardinality(E) >= MaxChangedFiles
  BY <1>4, <1>5, <1>6, <1>7
<1> QED BY <1>6, <1>8 DEF CapDrop, E

\* The loop passes a file over.
LEMMA PassOverKeeps ==
  ASSUME SelInv, phase = "take", NEW f \in todo, IsNext(f),
         todo' = todo \ {f}, total + Clip(f).size > MaxTotalDiff,
         dropped' = dropped \cup {f},
         UNCHANGED <<kept, total, entries, ignored, phase>>
  PROVE  SelInv'
<1>0. /\ f \in FileRecord /\ f \in Diffed /\ f \notin kept /\ f \notin dropped
      /\ \A g \in kept : ~SameKey(g, f)
      /\ \A h \in todo \ {f} : Before(f, h)
      /\ \A g \in kept : Before(g, f)
      /\ IsFiniteSet(todo \ {f}) /\ Cardinality(todo \ {f}) = Cardinality(todo) - 1
      /\ Cardinality(todo) \in Nat
  BY NextFacts
<1>1. Diffed' = Diffed
  BY DEF Diffed
<1>2. SelTypes'
  <2>1. IsFiniteSet(dropped \cup {f})
    BY FS_AddElement DEF SelInv, SelTypes
  <2> QED BY <1>0, <2>1 DEF SelInv, SelTypes
<1>3. InPhase'
  BY DEF SelInv, InPhase, Listed
<1>4. Partition'
  BY <1>0, <1>1 DEF SelInv, Partition, Listed
<1>5. Counted'
  <2>1. Cardinality(kept) \in Nat /\ MaxChangedFiles \in Nat
    BY FS_CardinalityType, SelectionAssumption DEF SelInv, SelTypes
  <2>2. Cardinality(todo) + Cardinality(kept) <= MaxChangedFiles
    BY DEF SelInv, Counted
  <2>3. Cardinality(todo') + Cardinality(kept') <= MaxChangedFiles
    BY <1>0, <2>1, <2>2
  <2> QED BY <2>3 DEF SelInv, Counted
<1>6. Ordered'
  <2>1. \A g \in kept', h \in todo' : Before(g, h)
    BY DEF SelInv, Ordered
  <2>2. RoomDrop(f)'
    <3>1. {g \in kept' : Before(g, f)} = kept
      BY <1>0
    <3>2. total = Sizes(kept)
      BY DEF SelInv, Counted
    <3> QED BY <1>0, <3>1, <3>2 DEF RoomDrop
  <2>3. ASSUME NEW g \in dropped PROVE CapDrop(g)' \/ RoomDrop(g)'
    <3>1. CASE CapDrop(g)
      <4>1. Before(f, g)
        BY <3>1 DEF CapDrop
      <4>2. kept' \cup dropped' = (kept \cup dropped) \cup {f}
        OBVIOUS
      <4> QED BY <1>0, <1>2, <3>1, <4>1, <4>2, CapDropMoves DEF SelInv
    <3>2. CASE RoomDrop(g)
      BY <3>2 DEF RoomDrop
    <3> QED BY <3>1, <3>2 DEF SelInv, Ordered
  <2> QED BY <2>1, <2>2, <2>3 DEF Ordered
<1>7. NotEmptied'
  <2> SUFFICES ASSUME RoomForOne, kept = {} PROVE FALSE
    BY DEF NotEmptied, RoomForOne
  <2>1. total = 0
    BY SizesUnfolds DEF SelInv, SelTypes, Counted
  <2>2. Clip(f).size <= MaxTotalDiff
    BY <1>0, ClipFacts, SelectionAssumption DEF RoomForOne
  <2>3. Clip(f).size \in Nat /\ MaxTotalDiff \in Nat
    BY <1>0, ClipFacts, SelectionAssumption
  <2> QED BY <2>1, <2>2, <2>3
<1> QED BY <1>2, <1>3, <1>4, <1>5, <1>6, <1>7 DEF SelInv

\* The loop takes a file.
LEMMA TakeOneKeeps ==
  ASSUME SelInv, phase = "take", NEW f \in todo, IsNext(f),
         todo' = todo \ {f}, ~(total + Clip(f).size > MaxTotalDiff),
         kept' = kept \cup {Clip(f)}, total' = total + Clip(f).size,
         UNCHANGED <<dropped, entries, ignored, phase>>
  PROVE  SelInv'
<1>0. /\ f \in FileRecord /\ f \in Diffed /\ Clip(f) \in FileRecord
      /\ Clip(f) \notin kept /\ Clip(f) \notin dropped
      /\ \A g \in (todo \ {f}) \cup dropped : ~SameKey(Clip(f), g)
      /\ \A h \in todo \ {f} : Before(f, h) /\ Before(Clip(f), h)
      /\ IsFiniteSet(todo \ {f}) /\ Cardinality(todo \ {f}) = Cardinality(todo) - 1
      /\ Cardinality(todo) \in Nat
  BY NextFacts
<1>1. Diffed' = Diffed
  BY DEF Diffed
<1>k. IsFiniteSet(kept) /\ kept \subseteq FileRecord /\ dropped \subseteq FileRecord
  BY DEF SelInv, SelTypes
<1>2. SelTypes'
  <2>1. IsFiniteSet(kept \cup {Clip(f)})
    BY <1>k, FS_AddElement
  <2> QED BY <1>0, <2>1 DEF SelInv, SelTypes
<1>3. InPhase'
  BY DEF SelInv, InPhase, Listed
<1>4. Partition'
  <2>1. \A g \in kept' : \E h \in Diffed : g = Clip(h)
    BY <1>0 DEF SelInv, Partition
  <2>2. \A g \in Diffed : g \in todo' \/ g \in dropped \/ Clip(g) \in kept'
    BY DEF SelInv, Partition, Listed
  <2>3. \A g \in kept', h \in todo' \cup dropped : ~SameKey(g, h)
    BY <1>0 DEF SelInv, Partition
  <2> QED BY <1>1, <2>1, <2>2, <2>3 DEF SelInv, Partition
<1>5. Counted'
  <2>1. /\ Cardinality(kept) \in Nat /\ MaxChangedFiles \in Nat /\ MaxTotalDiff \in Nat
        /\ Cardinality(kept') = Cardinality(kept) + 1
    BY <1>0, <1>k, FS_CardinalityType, FS_AddElement, SelectionAssumption
  <2>2. Cardinality(todo) + Cardinality(kept) <= MaxChangedFiles
    BY DEF SelInv, Counted
  <2>3. Cardinality(todo') + Cardinality(kept') <= MaxChangedFiles
    BY <1>0, <2>1, <2>2
  <2>4. Clip(f).size \in Nat /\ \A g \in kept : g.size \in Nat
    BY <1>0, <1>k DEF FileRecord
  <2>5. Sizes(kept') = Sizes(kept) + Clip(f).size
    BY <1>0, <1>k, <2>4, SizesAdd
  <2>6. total = Sizes(kept) /\ total \in Nat
    BY DEF SelInv, Counted
  <2>7. total' = Sizes(kept') /\ total' \in Nat /\ total' <= MaxTotalDiff
    BY <2>1, <2>4, <2>5, <2>6
  <2> QED BY <2>3, <2>7 DEF Counted
<1>6. Ordered'
  <2>1. \A g \in kept', h \in todo' : Before(g, h)
    BY <1>0 DEF SelInv, Ordered
  <2>3. ASSUME NEW g \in dropped PROVE CapDrop(g)' \/ RoomDrop(g)'
    <3>0. g \in FileRecord
      BY <1>k
    <3>1. CASE CapDrop(g)
      <4>1. Before(Clip(f), g)
        BY <1>0, <3>0, <3>1, BeforeFacts DEF CapDrop
      <4>2. kept' \cup dropped' = (kept \cup dropped) \cup {Clip(f)}
        OBVIOUS
      <4> QED BY <1>0, <1>2, <3>1, <4>1, <4>2, CapDropMoves DEF SelInv
    <3>2. CASE RoomDrop(g)
      <4>1. Before(g, f)
        BY <3>2 DEF RoomDrop
      <4>2. ~Before(Clip(f), g)
        BY <1>0, <3>0, <4>1, BeforeFacts
      <4>3. {h \in kept' : Before(h, g)} = {h \in kept : Before(h, g)}
        BY <4>2
      <4> QED BY <3>2, <4>3 DEF RoomDrop
    <3> QED BY <3>1, <3>2 DEF SelInv, Ordered
  <2> QED BY <2>1, <2>3 DEF Ordered
<1>7. NotEmptied'
  BY DEF NotEmptied
<1> QED BY <1>2, <1>3, <1>4, <1>5, <1>6, <1>7 DEF SelInv

\* A step of build_diff_result keeps SelInv.
LEMMA SelectionKeeps ==
  ASSUME SelInv, SelectionStep
  PROVE  SelInv'
<1>1. CASE Split
  BY <1>1, SplitKeeps
<1>2. CASE Cap
  BY <1>2, CapKeeps
<1>3. CASE Take
  <2>1. PICK f \in todo :
          /\ phase = "take" /\ IsNext(f) /\ todo' = todo \ {f}
          /\ IF total + Clip(f).size > MaxTotalDiff
               THEN dropped' = dropped \cup {f} /\ UNCHANGED <<kept, total>>
               ELSE /\ kept' = kept \cup {Clip(f)}
                    /\ total' = total + Clip(f).size
                    /\ UNCHANGED dropped
          /\ UNCHANGED <<entries, ignored, phase>>
    BY <1>3 DEF Take
  <2> QED BY <2>1, PassOverKeeps, TakeOneKeeps
<1>4. CASE Selected
  <2>1. /\ phase = "take" /\ todo = {} /\ phase' = "selected"
        /\ UNCHANGED <<entries, todo, kept, dropped, ignored, total>>
    BY <1>4 DEF Selected
  <2> QED BY <2>1 DEF SelInv, SelTypes, Phases, InPhase, Partition, Counted, Ordered,
          NotEmptied, Listed, Diffed, CapDrop, RoomDrop, RoomForOne
<1> QED BY <1>1, <1>2, <1>3, <1>4 DEF SelectionStep

\* Once selected, the lists stay what they are to the end of the attempt.
LEMMA SelectedKeeps ==
  ASSUME SelInv, UNCHANGED selVars,
         phase \in {"selected", "plan", "request", "files", "done"},
         phase' \in {"selected", "plan", "request", "files", "done"}
  PROVE  SelInv'
<1>1. UNCHANGED <<entries, todo, kept, dropped, ignored, total>>
  BY DEF selVars
<1>2. SelTypes' /\ InPhase'
  BY <1>1 DEF SelInv, SelTypes, Phases, InPhase, Listed
<1>3. Diffed' = Diffed /\ Listed' = Listed
  BY <1>1 DEF Diffed, Listed
<1>4. Partition' /\ Counted' /\ Ordered'
  BY <1>1, <1>3 DEF SelInv, Partition, Counted, Ordered, CapDrop, RoomDrop
<1>5. NotEmptied'
  BY <1>1, <1>3 DEF SelInv, NotEmptied, RoomForOne
<1> QED BY <1>2, <1>4, <1>5 DEF SelInv

\* Nothing is selected of a push that waits or has just been listed.
LEMMA FreshSelection ==
  ASSUME phase \in {"idle", "listed"}, todo = {}, kept = {}, dropped = {}, ignored = {}, total = 0,
         entries \subseteq Entry, IsFiniteSet(entries), Distinct(entries)
  PROVE  SelInv
<1>1. IsFiniteSet({}) /\ Cardinality({}) = 0 /\ Sizes({}) = 0
  BY FS_EmptySet, SizesUnfolds
<1>2. MaxChangedFiles \in Nat /\ MaxTotalDiff \in Nat
  BY SelectionAssumption
<1>3. SelTypes /\ InPhase
  BY <1>1 DEF SelTypes, InPhase, Phases, Listed
<1>4. Partition /\ Ordered /\ NotEmptied
  BY DEF Partition, Ordered, NotEmptied, Listed
<1>5. Counted
  BY <1>1, <1>2 DEF Counted
<1> QED BY <1>3, <1>4, <1>5 DEF SelInv

\* What SelInv says of the lists.
LEMMA SelInvImplies ==
  ASSUME SelInv
  PROVE  /\ EveryChangeIsAccountedFor /\ DiffIsBounded
         /\ DroppedForWantOfRoom /\ LimitsNeverEmptyAPush
<1>d. Diffed \subseteq FileRecord
  BY DiffedFacts DEF SelInv
<1>1. EveryChangeIsAccountedFor
  <2> SUFFICES ASSUME ~Listed
               PROVE  /\ \A e \in entries : e \in ignored \/ \A f \in Sections(e) :
                           \E g \in todo \cup kept \cup dropped : g.path = f.path /\ g.status = f.status
                      /\ \A e \in ignored : {e.path, Effective(e)} \subseteq Ignored
                      /\ \A f \in kept, g \in dropped : ~(f.path = g.path /\ f.status = g.status)
    BY DEF EveryChangeIsAccountedFor
  <2>1. ignored = {e \in entries : Skipped(e)}
    BY DEF SelInv, InPhase
  <2>2. ASSUME NEW e \in entries, e \notin ignored, NEW f \in Sections(e)
        PROVE  \E g \in todo \cup kept \cup dropped : g.path = f.path /\ g.status = f.status
    <3>1. f \in Diffed
      BY <2>1, <2>2 DEF Diffed, DiffFiles
    <3>2. f \in todo \/ f \in dropped \/ Clip(f) \in kept
      BY <3>1 DEF SelInv, Partition
    <3>3. Clip(f).path = f.path /\ Clip(f).status = f.status
      BY <1>d, <3>1, ClipFacts
    <3> QED BY <3>2, <3>3
  <2>3. \A e \in ignored : {e.path, Effective(e)} \subseteq Ignored
    BY <2>1 DEF Skipped, Effective
  <2>4. \A f \in kept, g \in dropped : ~(f.path = g.path /\ f.status = g.status)
    BY DEF SelInv, Partition, SameKey
  <2> QED BY <2>2, <2>3, <2>4
<1>2. DiffIsBounded
  <2>1. Cardinality(kept) <= MaxChangedFiles
    <3>1. CASE phase = "cap"
      BY <3>1, FS_EmptySet, SelectionAssumption DEF SelInv, InPhase
    <3>2. CASE phase # "cap"
      <4>1. Cardinality(kept) \in Nat /\ Cardinality(todo) \in Nat
        BY FS_CardinalityType DEF SelInv, SelTypes
      <4>2. Cardinality(todo) + Cardinality(kept) <= MaxChangedFiles
        BY <3>2 DEF SelInv, Counted
      <4> QED BY <4>1, <4>2, SelectionAssumption
    <3> QED BY <3>1, <3>2
  <2>2. \A f \in kept : f.size <= MaxFileDiff + ClipMark \/ f.binary
    BY <1>d, ClipFacts DEF SelInv, Partition
  <2>3. Sizes(kept) <= MaxTotalDiff
    BY DEF SelInv, Counted
  <2> QED BY <2>1, <2>2, <2>3 DEF DiffIsBounded, Sizes
<1>3. DroppedForWantOfRoom
  <2> SUFFICES ASSUME phase = "selected", NEW f \in dropped
               PROVE  LET larger == {g \in kept : Before(g, f)}
                      IN  \/ Cardinality(larger \cup {g \in dropped : Before(g, f)}) >= MaxChangedFiles
                          \/ Sizes(larger) + Clip(f).size > MaxTotalDiff
    BY DEF DroppedForWantOfRoom, Sizes
  <2>1. todo = {}
    BY DEF SelInv, InPhase, Listed
  <2>2. CASE CapDrop(f)
    <3> DEFINE D == {g \in kept \cup dropped : Before(g, f)}
    <3>1. IsFiniteSet(kept \cup dropped)
      BY FS_Union DEF SelInv, SelTypes
    <3>2. IsFiniteSet(D)
      BY <3>1, FS_Subset
    <3>3. Cardinality(D) \in Nat /\ Cardinality(todo) = 0
      BY <2>1, <3>2, FS_CardinalityType, FS_EmptySet
    <3>4. D = {g \in kept : Before(g, f)} \cup {g \in dropped : Before(g, f)}
      OBVIOUS
    <3>5. Cardinality(todo) + Cardinality(D) >= MaxChangedFiles
      BY <2>2 DEF CapDrop
    <3> HIDE DEF D
    <3>6. Cardinality(D) >= MaxChangedFiles
      BY <3>3, <3>5
    <3> QED BY <3>4, <3>6
  <2>3. CASE RoomDrop(f)
    BY <2>3 DEF RoomDrop
  <2> QED BY <2>2, <2>3 DEF SelInv, Ordered
<1>4. LimitsNeverEmptyAPush
  <2> SUFFICES ASSUME RoomForOne, phase = "selected", kept = {} PROVE \A e \in entries : Skipped(e)
    BY DEF LimitsNeverEmptyAPush
  <2>1. todo = {} /\ ~Listed
    BY DEF SelInv, InPhase, Listed
  <2> QED BY <2>1 DEF SelInv, NotEmptied
<1> QED BY <1>1, <1>2, <1>3, <1>4

-----------------------------------------------------------------------------
(* The map after a push.                                                   *)

\* An entry is about paths the push touches.
LEMMA EntryTouches ==
  ASSUME NEW push \in PushRecord, NEW e \in NameStatus(push)
  PROVE  e.path \in Touched(push) /\ Effective(e) \in Touched(push)
<1>0. NoPath \notin Paths
  BY SelectionAssumption
<1>1. ASSUME NEW r \in Renames(push), e = RenameEntry(push, r)
      PROVE  e.path \in Touched(push) /\ Effective(e) \in Touched(push)
  BY <1>0, <1>1, RenameFacts DEF RenameEntry, Effective, Touched
<1>2. ASSUME NEW p \in Touched(push), e = PlainEntry(push, p)
      PROVE  e.path \in Touched(push) /\ Effective(e) \in Touched(push)
  BY <1>2 DEF PlainEntry, Effective
<1> QED BY <1>1, <1>2, EntryFacts

\* Every path a push touches has its entry.
LEMMA TouchedHasEntry ==
  ASSUME NEW push \in PushRecord, NEW p \in Touched(push)
  PROVE  \E e \in NameStatus(push) :
           \/ e.code = "R" /\ e.path = p /\ push.after[p] = Absent
           \/ e.code = "R" /\ Effective(e) = p
           \/ e.code = "D" /\ e.path = p /\ push.after[p] = Absent
           \/ e.code \in {"A", "M", "T"} /\ Effective(e) = p
<1>0. NoPath \notin Paths
  BY SelectionAssumption
<1>1. CASE p \in Paired(push)
  <2>1. PICK r \in Renames(push) : p = r[1] \/ p = r[2]
    BY <1>1 DEF Paired
  <2> DEFINE e == RenameEntry(push, r)
  <2>2. e \in NameStatus(push)
    BY NameStatusIs
  <2>3. e.code = "R" /\ e.path = r[1] /\ Effective(e) = r[2] /\ push.after[r[1]] = Absent
    BY <1>0, RenameFacts DEF RenameEntry, Effective
  <2> HIDE DEF e
  <2> QED BY <2>1, <2>2, <2>3
<1>2. CASE p \notin Paired(push)
  <2> DEFINE e == PlainEntry(push, p)
  <2>1. e \in NameStatus(push)
    BY <1>2, NameStatusIs
  <2>2. e.code = CodeOf(push, p) /\ e.path = p /\ Effective(e) = p
    BY DEF PlainEntry, Effective
  <2>3. \/ CodeOf(push, p) = "D" /\ p \in Gone(push)
        \/ CodeOf(push, p) \in {"A", "M", "T"}
    BY DEF CodeOf
  <2> HIDE DEF e
  <2> QED BY <2>1, <2>2, <2>3 DEF Gone
<1> QED BY <1>1, <1>2

\* The section that tells of the path after the push, or of its end.
LEMMA TellingSection ==
  ASSUME NEW e \in Entry
  PROVE  /\ e.code = "D" => \E f \in Sections(e) : f.status = "deleted" /\ f.old = e.path
         /\ e.code # "D" => \E f \in Sections(e) :
              /\ f.status # "deleted" /\ f.new = Effective(e)
              /\ e.code = "R" => f.status = "renamed" /\ f.old = e.path
<1>1. CASE e.code # "T"
  <2>1. PICK f \in Sections(e) : TRUE
    BY SectionsOf
  <2>2. f.status \in {"added", "modified", "deleted", "renamed"}
    BY SectionFacts DEF FileRecord
  <2> QED BY <1>1, <2>2, SectionFacts
<1>2. CASE e.code = "T"
  <2> DEFINE f == File(e, "added", Patch[Absent][e.to])
  <2>1. f \in Sections(e)
    BY <1>2 DEF Sections
  <2>2. f.status = "added" /\ f.new = Effective(e)
    BY DEF File
  <2> HIDE DEF f
  <2> QED BY <1>2, <2>1, <2>2
<1> QED BY <1>1, <1>2

\* apply_changes, path by path.
LEMMA UpdatedIs ==
  ASSUME NEW map, NEW tree, NEW files, NEW p \in Paths
  PROVE  Updated(map, tree, files)[p] =
           IF p \in Sources /\ \E f \in files : ExistsAfter(f) /\ f.new = p THEN Read(tree, p)
           ELSE IF \E f \in files : f.status = "deleted" /\ f.old = p THEN Absent
           ELSE IF /\ p \in Sources /\ Read(tree, p) # Absent
                   /\ \E f \in files : f.status = "renamed" /\ f.new = p THEN Read(tree, p)
           ELSE IF \E f \in files : f.status = "renamed" /\ f.old = p THEN Absent
           ELSE map[p]
<1> DEFINE M == {f.new : f \in {g \in files : ExistsAfter(g)}}
           D == {f.old : f \in {g \in files : g.status = "deleted"}}
           R == {f \in files : f.status = "renamed"}
<1>1. p \in M <=> \E f \in files : ExistsAfter(f) /\ f.new = p
  OBVIOUS
<1>2. p \in D <=> \E f \in files : f.status = "deleted" /\ f.old = p
  OBVIOUS
<1>3. /\ (\E r \in R : r.new = p) <=> \E f \in files : f.status = "renamed" /\ f.new = p
      /\ (\E r \in R : r.old = p) <=> \E f \in files : f.status = "renamed" /\ f.old = p
  OBVIOUS
<1>4. Updated(map, tree, files) = ApplyChanges(map, tree, M, D, R)
  BY DEF Updated
<1> HIDE DEF M, D, R
<1>5. ApplyRenamed(map, tree, R)[p] =
        IF p \in Sources /\ Read(tree, p) # Absent /\ \E r \in R : r.new = p THEN Read(tree, p)
        ELSE IF \E r \in R : r.old = p THEN Absent ELSE map[p]
  BY DEF ApplyRenamed
<1>6. ApplyChanges(map, tree, M, D, R)[p] =
        IF p \in M \cap Sources THEN Read(tree, p)
        ELSE IF p \in D THEN Absent ELSE ApplyRenamed(map, tree, R)[p]
  BY DEF ApplyChanges, ApplyModified, ApplyDeleted
<1> QED BY <1>1, <1>2, <1>3, <1>4, <1>5, <1>6

\* A kept file is a section of an entry of the push.
LEMMA KeptFacts ==
  ASSUME SelInv, NEW f \in kept
  PROVE  \E e \in entries : \E g \in Sections(e) :
           /\ ~Skipped(e) /\ f = Clip(g) /\ f.old = g.old /\ f.new = g.new /\ f.status = g.status
<1>1. PICK g \in Diffed : f = Clip(g)
  BY DEF SelInv, Partition
<1>2. PICK e \in entries : ~Skipped(e) /\ g \in Sections(e)
  BY <1>1 DEF Diffed, DiffFiles
<1>3. g \in FileRecord
  BY DiffedFacts DEF SelInv
<1> QED BY <1>1, <1>2, <1>3, ClipFacts

\* A push leaves alone what it does not touch.
LEMMA UpdatedElsewhere ==
  ASSUME SelInv, NEW push \in PushRecord, entries = NameStatus(push),
         NEW map, NEW p \in Paths, p \notin Touched(push)
  PROVE  Updated(map, push.after, kept)[p] = map[p]
<1>0. NoPath \notin Paths
  BY SelectionAssumption
<1>1. ASSUME NEW f \in kept PROVE f.old # p /\ f.new # p
  <2>0. PICK e \in entries : \E g \in Sections(e) : f.old = g.old /\ f.new = g.new
    BY KeptFacts
  <2>1. PICK g \in Sections(e) : f.old = g.old /\ f.new = g.new
    BY <2>0
  <2>2. e \in Entry /\ e.path # p /\ Effective(e) # p
    BY EntryFacts, EntryTouches
  <2>3. g.status \in {"added", "modified", "deleted", "renamed"}
    BY <2>2, SectionFacts DEF FileRecord
  <2> QED BY <1>0, <2>1, <2>2, <2>3, SectionFacts
<1> QED BY <1>1, UpdatedIs

\* What it touches is afterwards what a full index has, unless it was ignored
\* or dropped.
LEMMA UpdatedHere ==
  ASSUME SelInv, phase = "selected", NEW push \in PushRecord, entries = NameStatus(push),
         NEW map, NEW p \in Touched(push), p \notin Ignored, p \notin Missed,
         p \notin Sources => map[p] = Absent
  PROVE  Updated(map, push.after, kept)[p] = BuildFull(push.after)[p]
<1>0. NoPath \notin Paths /\ p \in Paths /\ p # NoPath
  BY SelectionAssumption DEF Touched
<1>1. PICK e \in NameStatus(push) :
        \/ e.code = "R" /\ e.path = p /\ push.after[p] = Absent
        \/ e.code = "R" /\ Effective(e) = p
        \/ e.code = "D" /\ e.path = p /\ push.after[p] = Absent
        \/ e.code \in {"A", "M", "T"} /\ Effective(e) = p
  BY TouchedHasEntry
<1>2. e \in Entry /\ e \in entries
  BY EntryFacts
<1>3. e.path = p \/ Effective(e) = p
  BY <1>1
<1>4. ~Skipped(e)
  BY <1>0, <1>1, <1>2 DEF Skipped, Effective, Entry
<1>5. ASSUME NEW g \in Sections(e), g.old = p \/ g.new = p
      PROVE  /\ Clip(g) \in kept /\ Clip(g).old = g.old /\ Clip(g).new = g.new
             /\ Clip(g).status = g.status
  <2>1. g \in Diffed /\ g \in FileRecord
    BY <1>2, <1>4, SectionFacts DEF Diffed, DiffFiles
  <2>2. g \notin dropped
    <3> SUFFICES ASSUME g \in dropped PROVE FALSE
      OBVIOUS
    <3>1. {g.old, g.new} \in {{f.old, f.new} : f \in dropped}
      OBVIOUS
    <3>2. p \in UNION {{f.old, f.new} : f \in dropped}
      BY <1>5, <3>1
    <3> QED BY <1>0, <3>2 DEF Missed
  <2>3. Clip(g) \in kept
    BY <2>1, <2>2 DEF SelInv, Partition, InPhase, Listed
  <2> QED BY <2>1, <2>3, ClipFacts
<1>6. /\ Read(push.after, p) = Absent \/ p \notin Sources => BuildFull(push.after)[p] = Absent
      /\ p \in Sources => BuildFull(push.after)[p] = Read(push.after, p)
      /\ push.after[p] = Absent => Read(push.after, p) = Absent
  BY <1>0 DEF BuildFull, Read
<1>7. CASE e.code = "D" \/ (e.code = "R" /\ e.path = p)
  <2>1. PICK g \in Sections(e) : g.old = p /\ g.status \in {"deleted", "renamed"}
    BY <1>0, <1>1, <1>2, <1>7, TellingSection
  <2>2. Clip(g) \in kept /\ Clip(g).old = p /\ Clip(g).status \in {"deleted", "renamed"}
    BY <1>5, <2>1
  <2>3. CASE push.after[p] = Absent
    BY <1>0, <1>6, <2>2, <2>3, UpdatedIs
  <2>4. CASE push.after[p] # Absent
    <3>1. e.code = "R" /\ Effective(e) = p
      BY <1>1, <1>7, <2>4
    <3>2. PICK h \in Sections(e) : h.new = p /\ h.status # "deleted"
      BY <1>2, <3>1, TellingSection
    <3>3. Clip(h) \in kept /\ Clip(h).new = p /\ ExistsAfter(Clip(h))
      BY <1>0, <1>5, <3>2 DEF ExistsAfter
    <3> QED BY <1>0, <1>6, <3>3, UpdatedIs
  <2> QED BY <2>3, <2>4
<1>8. CASE e.code # "D" /\ Effective(e) = p
  <2>1. PICK h \in Sections(e) : h.new = p /\ h.status # "deleted"
    BY <1>2, <1>8, TellingSection
  <2>2. Clip(h) \in kept /\ Clip(h).new = p /\ ExistsAfter(Clip(h))
    BY <1>0, <1>5, <2>1 DEF ExistsAfter
  <2> QED BY <1>0, <1>6, <2>2, UpdatedIs
<1> QED BY <1>1, <1>7, <1>8

\* A path that is no source file is never indexed.
LEMMA UpdatedSources ==
  ASSUME NEW map, NEW tree, NEW files, NEW p \in Paths \ Sources, map[p] = Absent
  PROVE  Updated(map, tree, files)[p] = Absent
BY UpdatedIs

-----------------------------------------------------------------------------
(* Many pushes, retried and out of order.  A path waits while a push has   *)
(* still to tell the map about it: a push that touches it, is not applied, *)
(* and is not overtaken there by a newer one.                              *)

Waiting(s, p) ==
  \E i \in DOMAIN s : p \in Touched(s[i]) \ s[i].overtaken /\ ~s[i].applied

\* What has overtaken a push has overtaken the older ones, and so has a push
\* that is applied.
Down(s) ==
  \A i, j \in DOMAIN s : i < j =>
    /\ s[j].overtaken \subseteq s[i].overtaken
    /\ s[j].applied => Touched(s[j]) \subseteq s[i].overtaken

\* The last push to touch a path brought it to where the branch has it.
Latest(s, tree) ==
  \A i \in DOMAIN s : \A p \in Touched(s[i]) \ s[i].overtaken :
    (\A j \in DOMAIN s : j > i => p \notin Touched(s[j])) => s[i].after[p] = tree[p]

Fresh ==
  \A p \in Paths \ (Ignored \cup stale) :
    ~Waiting(pushes, p) => repoMap[p] = BuildFull(head)[p]

MapTypes ==
  /\ head \in Trees /\ pushes \in Seq(PushRecord)
  /\ phase # "idle" => current \in DOMAIN pushes
  /\ phase \in {"listed", "cap", "take", "selected"} => entries = NameStatus(pushes[current])
  /\ phase \in {"plan", "request", "files", "done"} => pushes[current].applied
  /\ \A p \in Paths \ Sources : repoMap[p] = Absent

MInv == SelInv /\ MapTypes /\ Down(pushes) /\ Latest(pushes, head) /\ Fresh

\* A push c is settled for the map and marked applied or not.
Behind(s, c, t) ==
  /\ DOMAIN t = DOMAIN s /\ c \in DOMAIN s
  /\ \A i \in DOMAIN s :
       /\ Touched(t[i]) = Touched(s[i]) /\ t[i].after = s[i].after
       /\ t[i].overtaken = IF i < c THEN s[i].overtaken \cup Touched(s[c]) ELSE s[i].overtaken
       /\ i # c => t[i].applied = s[i].applied
       /\ s[i].applied => t[i].applied

\* Removing one element.
LEMMA RemoveAtFacts ==
  ASSUME NEW T, NEW s \in Seq(T), NEW c \in DOMAIN s
  PROVE  /\ RemoveAt(s, c) \in Seq(T) /\ DOMAIN RemoveAt(s, c) = 1..(Len(s) - 1)
         /\ DOMAIN s = 1..Len(s) /\ Len(s) \in Nat
         /\ \A k \in 1..(Len(s) - 1) :
              RemoveAt(s, c)[k] = IF k < c THEN s[k] ELSE s[k + 1]
<1>1. Len(s) \in Nat /\ DOMAIN s = 1..Len(s) /\ c \in 1..Len(s) /\ \A i \in 1..Len(s) : s[i] \in T
  OBVIOUS
<1> DEFINE a == SubSeq(s, 1, c - 1)
           b == SubSeq(s, c + 1, Len(s))
<1>2. a \in Seq(T) /\ Len(a) = c - 1 /\ \A i \in 1..(c - 1) : a[i] = s[i]
  <2>1. 1 \in Int /\ c - 1 \in Int /\ \A i \in 1..(c - 1) : s[i] \in T
    BY <1>1
  <2>2. /\ a \in Seq(T) /\ Len(a) = IF 1 <= c - 1 THEN (c - 1) - 1 + 1 ELSE 0
        /\ \A i \in 1..((c - 1) - 1 + 1) : a[i] = s[1 + i - 1]
    BY <2>1, SubSeqProperties
  <2> HIDE DEF a
  <2> QED BY <1>1, <2>2
<1>3. b \in Seq(T) /\ Len(b) = Len(s) - c /\ \A i \in 1..(Len(s) - c) : b[i] = s[c + i]
  <2>1. c + 1 \in Int /\ Len(s) \in Int /\ \A i \in (c + 1)..Len(s) : s[i] \in T
    BY <1>1
  <2>2. /\ b \in Seq(T) /\ Len(b) = IF c + 1 <= Len(s) THEN Len(s) - (c + 1) + 1 ELSE 0
        /\ \A i \in 1..(Len(s) - (c + 1) + 1) : b[i] = s[(c + 1) + i - 1]
    BY <2>1, SubSeqProperties
  <2> HIDE DEF b
  <2>3. Len(b) = Len(s) - c
    BY <1>1, <2>2
  <2>4. ASSUME NEW i \in 1..(Len(s) - c) PROVE b[i] = s[c + i]
    <3>1. i \in 1..(Len(s) - (c + 1) + 1) /\ (c + 1) + i - 1 = c + i
      BY <1>1
    <3>2. b[i] = s[(c + 1) + i - 1]
      BY <2>2, <3>1
    <3> QED BY <3>1, <3>2
  <2> QED BY <2>2, <2>3, <2>4
<1>4. RemoveAt(s, c) = a \o b
  BY DEF RemoveAt
<1> HIDE DEF a, b
<1>5. /\ a \o b \in Seq(T) /\ Len(a \o b) = Len(s) - 1
      /\ \A k \in 1..(Len(s) - 1) :
           (a \o b)[k] = IF k <= Len(a) THEN a[k] ELSE b[k - Len(a)]
  <2>1. Len(a) + Len(b) = Len(s) - 1
    BY <1>1, <1>2, <1>3
  <2>2. /\ a \o b \in Seq(T) /\ Len(a \o b) = Len(a) + Len(b)
        /\ \A k \in 1..(Len(a) + Len(b)) :
             (a \o b)[k] = IF k <= Len(a) THEN a[k] ELSE b[k - Len(a)]
    BY <1>2, <1>3, ConcatProperties
  <2> QED BY <2>1, <2>2
<1>6. ASSUME NEW k \in 1..(Len(s) - 1)
      PROVE  (a \o b)[k] = IF k < c THEN s[k] ELSE s[k + 1]
  <2>1. CASE k < c
    BY <1>1, <1>2, <1>5, <2>1
  <2>2. CASE ~(k < c)
    <3>1. k - (c - 1) \in 1..(Len(s) - c) /\ c + (k - (c - 1)) = k + 1
      BY <1>1, <2>2
    <3>2. (a \o b)[k] = b[k - (c - 1)]
      BY <1>1, <1>2, <1>5, <2>2
    <3>3. b[k - (c - 1)] = s[c + (k - (c - 1))]
      BY <1>3, <3>1
    <3> QED BY <2>2, <3>1, <3>2, <3>3
  <2> QED BY <2>1, <2>2
<1>7. DOMAIN (a \o b) = 1..(Len(s) - 1)
  BY <1>5
<1> QED BY <1>1, <1>4, <1>5, <1>6, <1>7

\* A push that is behind no one and leaves takes only its own waiting along.
LEMMA Removed ==
  ASSUME NEW s \in Seq(PushRecord), NEW c \in DOMAIN s, NEW tree, Down(s), Latest(s, tree),
         \A i \in DOMAIN s : i < c => Touched(s[c]) \subseteq s[i].overtaken
  PROVE  LET t == RemoveAt(s, c)
         IN  /\ t \in Seq(PushRecord) /\ Down(t) /\ Latest(t, tree)
             /\ \A p : Waiting(s, p) =>
                  Waiting(t, p) \/ (p \in Touched(s[c]) \ s[c].overtaken /\ ~s[c].applied)
<1> DEFINE t == RemoveAt(s, c)
           From(k) == IF k < c THEN k ELSE k + 1
           Into(i) == IF i < c THEN i ELSE i - 1
<1>1. /\ t \in Seq(PushRecord) /\ DOMAIN t = 1..(Len(s) - 1)
      /\ DOMAIN s = 1..Len(s) /\ Len(s) \in Nat
      /\ \A k \in 1..(Len(s) - 1) : t[k] = IF k < c THEN s[k] ELSE s[k + 1]
  BY RemoveAtFacts
<1> HIDE DEF t
<1>2. \A k \in DOMAIN t : From(k) \in DOMAIN s /\ From(k) # c /\ t[k] = s[From(k)]
  BY <1>1
<1>3. \A k, l \in DOMAIN t : k < l => From(k) < From(l)
  BY <1>1
<1>4. \A i \in DOMAIN s : i # c => Into(i) \in DOMAIN t /\ From(Into(i)) = i
  BY <1>1
<1>5. \A k \in DOMAIN t, i \in DOMAIN s : i # c /\ i > From(k) => Into(i) > k
  BY <1>1
<1> HIDE DEF From, Into
<1>6. Down(t)
  BY <1>2, <1>3 DEF Down
<1>7. Latest(t, tree)
  <2> SUFFICES ASSUME NEW k \in DOMAIN t, NEW p \in Touched(t[k]) \ t[k].overtaken,
                      \A l \in DOMAIN t : l > k => p \notin Touched(t[l])
               PROVE  t[k].after[p] = tree[p]
    BY DEF Latest
  <2>1. From(k) \in DOMAIN s /\ From(k) # c /\ t[k] = s[From(k)]
    BY <1>2
  <2>2. ASSUME NEW i \in DOMAIN s, i > From(k) PROVE p \notin Touched(s[i])
    <3>1. CASE i = c
      BY <2>1, <2>2, <3>1
    <3>2. CASE i # c
      <4>1. Into(i) \in DOMAIN t /\ Into(i) > k /\ t[Into(i)] = s[i]
        BY <1>2, <1>4, <1>5, <2>2, <3>2
      <4> QED BY <4>1
    <3> QED BY <3>1, <3>2
  <2> QED BY <2>1, <2>2 DEF Latest
<1>8. ASSUME NEW p, Waiting(s, p)
      PROVE  Waiting(t, p) \/ (p \in Touched(s[c]) \ s[c].overtaken /\ ~s[c].applied)
  <2>1. PICK i \in DOMAIN s : p \in Touched(s[i]) \ s[i].overtaken /\ ~s[i].applied
    BY <1>8 DEF Waiting
  <2>2. CASE i # c
    <3>1. Into(i) \in DOMAIN t /\ t[Into(i)] = s[i]
      BY <1>2, <1>4, <2>2
    <3> QED BY <2>1, <3>1 DEF Waiting
  <2> QED BY <2>1, <2>2
<1> QED BY <1>1, <1>6, <1>7, <1>8 DEF t

\* A push that gets ahead of the older ones ends only its own waiting.
LEMMA Overtaken ==
  ASSUME NEW s, NEW c, NEW t, NEW tree, DOMAIN s \subseteq Nat, Behind(s, c, t), Down(s), Latest(s, tree)
  PROVE  /\ Down(t) /\ Latest(t, tree)
         /\ \A i \in DOMAIN t : i < c => Touched(t[c]) \subseteq t[i].overtaken
         /\ \A p : Waiting(s, p) =>
              Waiting(t, p) \/ (p \in Touched(s[c]) \ s[c].overtaken /\ ~s[c].applied)
<1>0. c \in DOMAIN s /\ DOMAIN t = DOMAIN s
  BY DEF Behind
<1>1. Down(t)
  <2> SUFFICES ASSUME NEW i \in DOMAIN s, NEW j \in DOMAIN s, i < j
               PROVE  /\ t[j].overtaken \subseteq t[i].overtaken
                      /\ t[j].applied => Touched(t[j]) \subseteq t[i].overtaken
    BY <1>0 DEF Down
  <2>1. /\ s[j].overtaken \subseteq s[i].overtaken
        /\ s[j].applied => Touched(s[j]) \subseteq s[i].overtaken
    BY DEF Down
  <2>2. j < c => i < c
    BY <1>0
  <2>3. t[j].overtaken \subseteq t[i].overtaken
    BY <2>1, <2>2 DEF Behind
  <2>4. CASE j = c
    BY <2>3, <2>4 DEF Behind
  <2>5. CASE j # c
    BY <2>1, <2>3, <2>5 DEF Behind
  <2> QED BY <2>3, <2>4, <2>5
<1>2. Latest(t, tree)
  <2> SUFFICES ASSUME NEW i \in DOMAIN s, NEW p \in Touched(t[i]) \ t[i].overtaken,
                      \A j \in DOMAIN s : j > i => p \notin Touched(t[j])
               PROVE  t[i].after[p] = tree[p]
    BY <1>0 DEF Latest
  <2>1. /\ p \in Touched(s[i]) \ s[i].overtaken /\ t[i].after = s[i].after
        /\ \A j \in DOMAIN s : j > i => p \notin Touched(s[j])
    BY DEF Behind
  <2> QED BY <2>1 DEF Latest
<1>3. \A i \in DOMAIN t : i < c => Touched(t[c]) \subseteq t[i].overtaken
  BY <1>0 DEF Behind
<1>4. ASSUME NEW p, Waiting(s, p), ~Waiting(t, p)
      PROVE  p \in Touched(s[c]) \ s[c].overtaken /\ ~s[c].applied
  <2>1. PICK i \in DOMAIN s : p \in Touched(s[i]) \ s[i].overtaken /\ ~s[i].applied
    BY <1>4 DEF Waiting
  <2>n. i \in Nat /\ c \in Nat
    BY <1>0
  <2>2. CASE i = c
    BY <2>1, <2>2
  <2>3. CASE i < c
    <3>1. p \in Touched(s[c])
      <4> SUFFICES ASSUME p \notin Touched(s[c]) PROVE FALSE
        OBVIOUS
      <4>1. p \in Touched(t[i]) \ t[i].overtaken /\ ~t[i].applied
        BY <1>0, <2>1, <2>3 DEF Behind
      <4> QED BY <1>0, <1>4, <4>1 DEF Waiting
    <3>2. p \notin s[c].overtaken /\ ~s[c].applied
      BY <1>0, <2>1, <2>3, <3>1 DEF Down
    <3> QED BY <3>1, <3>2
  <2>4. CASE i > c
    <3>0. ~(i < c) /\ i # c
      BY <2>n, <2>4
    <3>1. p \in Touched(t[i]) \ t[i].overtaken /\ ~t[i].applied
      BY <2>1, <3>0 DEF Behind
    <3> QED BY <1>0, <1>4, <3>1 DEF Waiting
  <2> QED BY <2>n, <2>2, <2>3, <2>4
<1> QED BY <1>1, <1>2, <1>3, <1>4

\* Overtake is such a step, and marks the push in hand as applied.
LEMMA OvertakeIs ==
  ASSUME pushes \in Seq(PushRecord), current \in DOMAIN pushes, Overtake
  PROVE  /\ Behind(pushes, current, pushes') /\ pushes' \in Seq(PushRecord)
         /\ pushes'[current].applied /\ DOMAIN pushes \subseteq Nat
<1>1. DOMAIN pushes = 1..Len(pushes) /\ Len(pushes) \in Nat /\ \A i \in DOMAIN pushes : pushes[i] \in PushRecord
  OBVIOUS
<1>2. DOMAIN pushes' = DOMAIN pushes
  BY DEF Overtake
<1>3. ASSUME NEW i \in DOMAIN pushes
      PROVE  /\ pushes'[i] \in PushRecord
             /\ pushes'[i].before = pushes[i].before /\ pushes'[i].after = pushes[i].after
             /\ pushes'[i].overtaken = IF i < current THEN pushes[i].overtaken \cup Touched(pushes[current])
                                                      ELSE pushes[i].overtaken
             /\ i # current => pushes'[i].applied = pushes[i].applied
             /\ i = current => pushes'[i].applied
  <2>1. pushes[i] \in PushRecord /\ Touched(pushes[current]) \subseteq Paths
    BY <1>1 DEF Touched
  <2>2. CASE i = current
    <3>1. pushes'[i] = [pushes[i] EXCEPT !.applied = TRUE] /\ ~(i < current)
      BY <1>1, <2>2 DEF Overtake
    <3> QED BY <2>1, <2>2, <3>1 DEF PushRecord
  <2>3. CASE i # current /\ i < current
    <3>1. pushes'[i] = [pushes[i] EXCEPT !.overtaken = pushes[i].overtaken \cup Touched(pushes[current])]
      BY <2>3 DEF Overtake
    <3> QED BY <2>1, <2>3, <3>1 DEF PushRecord
  <2>4. CASE i # current /\ ~(i < current)
    BY <2>1, <2>4 DEF Overtake
  <2> QED BY <2>2, <2>3, <2>4
<1>4. pushes' \in Seq(PushRecord)
  <2>1. pushes' = [i \in 1..Len(pushes) |-> pushes'[i]]
    BY <1>1 DEF Overtake
  <2>2. \A i \in 1..Len(pushes) : pushes'[i] \in PushRecord
    BY <1>1, <1>3
  <2> QED BY <1>1, <1>2, <2>1, <2>2, IsSequence
<1>5. \A i \in DOMAIN pushes : Touched(pushes'[i]) = Touched(pushes[i])
  BY <1>3 DEF Touched
<1>6. \A i \in DOMAIN pushes : pushes[i].applied => pushes'[i].applied
  BY <1>3
<1>7. Behind(pushes, current, pushes')
  BY <1>2, <1>3, <1>5, <1>6 DEF Behind
<1>8. pushes'[current].applied
  BY <1>3
<1>9. DOMAIN pushes \subseteq Nat
  BY <1>1
<1> QED BY <1>4, <1>7, <1>8, <1>9

\* A step that leaves the queue, the branch and the map alone.
LEMMA QuietMap ==
  ASSUME MInv, SelInv', UNCHANGED <<head, pushes, repoMap, stale>>,
         phase' # "idle" => current' \in DOMAIN pushes,
         phase' \in {"listed", "cap", "take", "selected"} => entries' = NameStatus(pushes[current']),
         phase' \in {"plan", "request", "files", "done"} => pushes[current'].applied
  PROVE  MInv'
<1>1. MapTypes'
  BY DEF MInv, MapTypes
<1>2. Down(pushes)' /\ Latest(pushes, head)' /\ Fresh'
  BY DEF MInv, Down, Latest, Fresh, Waiting
<1> QED BY <1>1, <1>2 DEF MInv

\* The push in hand is settled for the map, whatever becomes of the map.
LEMMA SettledForMap ==
  ASSUME MInv, phase = "selected", Overtake, SelInv', UNCHANGED <<head, current>>,
         phase' \in {"plan", "done"},
         \A p \in Paths \ Sources : repoMap'[p] = Absent,
         \A p \in Paths \ (Ignored \cup stale') : ~Waiting(pushes', p) =>
           \/ p \notin stale /\ p \notin OwnPaths /\ repoMap'[p] = repoMap[p]
           \/ repoMap'[p] = BuildFull(head)[p]
  PROVE  MInv'
<1>1. pushes \in Seq(PushRecord) /\ current \in DOMAIN pushes
  BY DEF MInv, MapTypes
<1>2. /\ Behind(pushes, current, pushes') /\ pushes' \in Seq(PushRecord)
      /\ pushes'[current].applied /\ DOMAIN pushes \subseteq Nat
  BY <1>1, OvertakeIs
<1>3. /\ Down(pushes') /\ Latest(pushes', head)
      /\ \A p : Waiting(pushes, p) =>
           Waiting(pushes', p) \/ (p \in Touched(pushes[current]) \ pushes[current].overtaken)
  BY <1>2, Overtaken DEF MInv
<1>4. MapTypes'
  BY <1>1, <1>2 DEF MInv, MapTypes, Behind
<1>5. Fresh'
  <2> SUFFICES ASSUME NEW p \in Paths \ (Ignored \cup stale'), ~Waiting(pushes', p)
               PROVE  repoMap'[p] = BuildFull(head)[p]
    BY DEF Fresh
  <2>1. CASE p \notin stale /\ p \notin OwnPaths /\ repoMap'[p] = repoMap[p]
    <3>1. ~Waiting(pushes, p)
      BY <1>3, <2>1 DEF OwnPaths
    <3> QED BY <2>1, <3>1 DEF MInv, Fresh
  <2> QED BY <2>1
<1> QED BY <1>3, <1>4, <1>5 DEF MInv

\* The push in hand has the last word on the paths it settles.
LEMMA OwnIsHead ==
  ASSUME MInv, phase = "selected", Overtake, NEW p \in OwnPaths, ~Waiting(pushes', p)
  PROVE  pushes[current].after[p] = head[p]
<1>1. pushes \in Seq(PushRecord) /\ current \in DOMAIN pushes
  BY DEF MInv, MapTypes
<1>2. Behind(pushes, current, pushes') /\ DOMAIN pushes \subseteq Nat
  BY <1>1, OvertakeIs
<1>3. p \in Touched(pushes[current]) /\ p \notin pushes[current].overtaken
  BY DEF OwnPaths
<1>4. ASSUME NEW j \in DOMAIN pushes, j > current PROVE p \notin Touched(pushes[j])
  <2> SUFFICES ASSUME p \in Touched(pushes[j]) PROVE FALSE
    OBVIOUS
  <2>1. current < j /\ ~(j < current) /\ j # current
    BY <1>1, <1>2, <1>4
  <2>2. p \notin pushes[j].overtaken /\ ~pushes[j].applied
    BY <1>1, <1>3, <2>1 DEF MInv, Down
  <2>3. p \in Touched(pushes'[j]) \ pushes'[j].overtaken /\ ~pushes'[j].applied
    BY <1>2, <2>1, <2>2 DEF Behind
  <2> QED BY <1>2, <2>3 DEF Waiting, Behind
<1> QED BY <1>1, <1>3, <1>4 DEF MInv, Latest

\* _nothing_to_analyze.
LEMMA NothingKeeps ==
  ASSUME MInv, NothingToAnalyze
  PROVE  MInv'
<1>1. /\ phase = "selected" /\ phase' = "done" /\ Overtake /\ stale' = stale \cup OwnPaths
      /\ UNCHANGED selVars /\ UNCHANGED <<head, current, repoMap>>
  BY DEF NothingToAnalyze, selVars
<1>2. SelInv'
  BY <1>1, SelectedKeeps DEF MInv
<1>3. \A p \in Paths \ Sources : repoMap'[p] = Absent
  BY <1>1 DEF MInv, MapTypes
<1> QED BY <1>1, <1>2, <1>3, SettledForMap

\* _update_repo_map, saved or not.
LEMMA UpdateKeeps ==
  ASSUME MInv, UpdateRepoMap
  PROVE  MInv'
<1>1. /\ phase = "selected" /\ phase' = "plan" /\ Overtake
      /\ UNCHANGED selVars /\ UNCHANGED <<head, current>>
  BY DEF UpdateRepoMap, selVars
<1>2. SelInv'
  BY <1>1, SelectedKeeps DEF MInv
<1>3. /\ \A p \in Paths \ Sources : repoMap[p] = Absent
      /\ pushes \in Seq(PushRecord) /\ current \in DOMAIN pushes
      /\ entries = NameStatus(pushes[current])
  BY <1>1 DEF MInv, MapTypes
<1> DEFINE push == pushes[current]
<1>4. push \in PushRecord
  BY <1>3
<1>5. PICK readable \in BOOLEAN, saved \in BOOLEAN :
        LET loaded == IF readable THEN repoMap ELSE EmptyMap
            old == IF readable THEN stale ELSE Paths
        IN  IF saved
              THEN /\ repoMap' = Updated(loaded, push.after, kept)
                   /\ stale' = (old \ (OwnPaths \ Missed)) \cup Missed
                                 \cup (Touched(push) \cap push.overtaken)
              ELSE repoMap' = repoMap /\ stale' = stale \cup OwnPaths
  BY DEF UpdateRepoMap
<1>6. CASE ~saved
  <2>1. repoMap' = repoMap /\ stale' = stale \cup OwnPaths
    BY <1>5, <1>6
  <2> QED BY <1>1, <1>2, <1>3, <2>1, SettledForMap
<1>7. CASE saved
  <2> DEFINE loaded == IF readable THEN repoMap ELSE EmptyMap
             old == IF readable THEN stale ELSE Paths
  <2>1. /\ repoMap' = Updated(loaded, push.after, kept)
        /\ stale' = (old \ (OwnPaths \ Missed)) \cup Missed \cup (Touched(push) \cap push.overtaken)
    BY <1>5, <1>7
  <2>2. \A p \in Paths \ Sources : loaded[p] = Absent
    BY <1>3 DEF EmptyMap
  <2>3. /\ \A p \in Paths : p \notin old => p \notin stale /\ loaded[p] = repoMap[p]
    OBVIOUS
  <2> HIDE DEF loaded, old
  <2>4. \A p \in Paths \ Sources : repoMap'[p] = Absent
    BY <2>1, <2>2, UpdatedSources
  <2>5. ASSUME NEW p \in Paths \ (Ignored \cup stale'), ~Waiting(pushes', p)
        PROVE  \/ p \notin stale /\ p \notin OwnPaths /\ repoMap'[p] = repoMap[p]
               \/ repoMap'[p] = BuildFull(head)[p]
    <3>1. CASE p \in OwnPaths
      <4>1. p \in Touched(push) /\ p \notin Ignored /\ p \notin Missed
        BY <2>1, <2>5, <3>1 DEF OwnPaths
      <4>2. repoMap'[p] = BuildFull(push.after)[p]
        <5>1. p \notin Sources => loaded[p] = Absent
          BY <2>2
        <5>2. Updated(loaded, push.after, kept)[p] = BuildFull(push.after)[p]
          BY <1>1, <1>3, <1>4, <4>1, <5>1, UpdatedHere DEF MInv
        <5> QED BY <2>1, <5>2
      <4>3. push.after[p] = head[p]
        BY <1>1, <2>5, <3>1, OwnIsHead
      <4>4. BuildFull(push.after)[p] = BuildFull(head)[p]
        BY <4>3 DEF BuildFull, Read
      <4> QED BY <4>2, <4>4
    <3>2. CASE p \notin OwnPaths
      <4>1. p \notin Touched(push) /\ p \notin old
        BY <2>1, <2>5, <3>2 DEF OwnPaths
      <4>2. repoMap'[p] = loaded[p]
        BY <1>3, <1>4, <2>1, <4>1, UpdatedElsewhere DEF MInv
      <4> QED BY <2>3, <3>2, <4>1, <4>2
    <3> QED BY <3>1, <3>2
  <2> QED BY <1>1, <1>2, <2>4, <2>5, SettledForMap
<1> QED BY <1>6, <1>7

\* The same for what a step leaves behind.
LEMMA FreshSelectionNext ==
  ASSUME phase' \in {"idle", "listed"}, todo' = {}, kept' = {}, dropped' = {}, ignored' = {},
         total' = 0, entries' \subseteq Entry, IsFiniteSet(entries'), Distinct(entries')
  PROVE  SelInv'
<1>1. IsFiniteSet({}) /\ Cardinality({}) = 0 /\ Sizes({}) = 0
  BY FS_EmptySet, SizesUnfolds
<1>2. MaxChangedFiles \in Nat /\ MaxTotalDiff \in Nat
  BY SelectionAssumption
<1>3. SelTypes' /\ InPhase'
  BY <1>1 DEF SelTypes, InPhase, Phases, Listed
<1>4. Partition' /\ Ordered' /\ NotEmptied'
  BY DEF Partition, Ordered, NotEmptied, Listed
<1>5. Counted'
  BY <1>1, <1>2 DEF Counted
<1> QED BY <1>3, <1>4, <1>5 DEF SelInv

\* The queue starts empty, and the map is that of a full index or is stale.
LEMMA PrepareInit ==
  ASSUME Init
  PROVE  MInv
<1>1. SelInv
  <2>1. Distinct({}) /\ IsFiniteSet({})
    BY FS_EmptySet DEF Distinct
  <2> QED BY <2>1, FreshSelection DEF Init, SelectionInit
<1>2. pushes = <<>> /\ DOMAIN pushes = {} /\ phase = "idle"
  BY DEF Init, SelectionInit
<1>3. MapTypes
  <2>1. head \in Trees
    BY PrepareAssumption DEF Init
  <2>2. \A p \in Paths \ Sources : repoMap[p] = Absent
    BY DEF Init, BuildFull, EmptyMap
  <2> QED BY <1>2, <2>1, <2>2 DEF MapTypes
<1>4. Down(pushes) /\ Latest(pushes, head)
  BY <1>2 DEF Down, Latest
<1>5. Fresh
  BY DEF Init, Fresh
<1> QED BY <1>1, <1>3, <1>4, <1>5 DEF MInv

\* A new push: what it touches waits for it, the rest is where it was.
LEMMA PushKeeps ==
  ASSUME MInv, Push
  PROVE  MInv'
<1> DEFINE r == [before |-> head, after |-> head', overtaken |-> {}, applied |-> FALSE]
           n == Len(pushes) + 1
<1>1. /\ phase = "idle" /\ head' \in Trees /\ pushes' = Append(pushes, r)
      /\ UNCHANGED selectionVars /\ UNCHANGED <<current, repoMap, stale>>
  BY PrepareAssumption DEF Push
<1>2. SelInv'
  <2>1. /\ entries' \subseteq Entry /\ IsFiniteSet(entries') /\ Distinct(entries')
        /\ phase' = "idle" /\ todo' = {} /\ kept' = {} /\ dropped' = {} /\ ignored' = {} /\ total' = 0
    BY <1>1 DEF MInv, SelInv, SelTypes, InPhase, Listed, selectionVars
  <2> QED BY <2>1, FreshSelectionNext
<1>3. head \in Trees /\ pushes \in Seq(PushRecord) /\ Len(pushes) \in Nat /\ DOMAIN pushes = 1..Len(pushes)
  BY DEF MInv, MapTypes
<1>4. r \in PushRecord
  BY <1>1, <1>3 DEF PushRecord
<1>5. /\ pushes' \in Seq(PushRecord) /\ DOMAIN pushes' = 1..n
      /\ pushes'[n] = r /\ \A i \in DOMAIN pushes : pushes'[i] = pushes[i]
  BY <1>1, <1>3, <1>4
<1>6. /\ r.before = head /\ r.after = head' /\ r.overtaken = {} /\ ~r.applied
  OBVIOUS
<1>7. \A p \in Paths : p \notin Touched(r) => head'[p] = head[p]
  BY <1>6 DEF Touched
<1> HIDE DEF r
<1>8. /\ n \notin DOMAIN pushes /\ DOMAIN pushes' = DOMAIN pushes \cup {n}
      /\ \A i \in DOMAIN pushes : i < n /\ ~(n < i)
      /\ ~(n < n)
  BY <1>3, <1>5
<1> HIDE DEF n
<1>9. Down(pushes')
  <2> SUFFICES ASSUME NEW i \in DOMAIN pushes', NEW j \in DOMAIN pushes', i < j
               PROVE  /\ pushes'[j].overtaken \subseteq pushes'[i].overtaken
                      /\ pushes'[j].applied => Touched(pushes'[j]) \subseteq pushes'[i].overtaken
    BY DEF Down
  <2>1. CASE j = n
    BY <1>5, <1>6, <2>1
  <2>2. CASE j \in DOMAIN pushes
    <3>1. i \in DOMAIN pushes
      BY <1>8, <2>2
    <3> QED BY <1>5, <2>2, <3>1 DEF MInv, Down
  <2> QED BY <1>8, <2>1, <2>2
<1>10. Latest(pushes', head')
  <2> SUFFICES ASSUME NEW i \in DOMAIN pushes', NEW p \in Touched(pushes'[i]) \ pushes'[i].overtaken,
                      \A j \in DOMAIN pushes' : j > i => p \notin Touched(pushes'[j])
               PROVE  pushes'[i].after[p] = head'[p]
    BY DEF Latest
  <2>1. CASE i = n
    BY <1>5, <1>6, <2>1
  <2>2. CASE i \in DOMAIN pushes
    <3>1. p \in Touched(pushes[i]) \ pushes[i].overtaken /\ p \in Paths
      BY <1>5, <2>2 DEF Touched
    <3>2. \A j \in DOMAIN pushes : j > i => p \notin Touched(pushes[j])
      BY <1>5, <1>8
    <3>3. pushes[i].after[p] = head[p]
      BY <2>2, <3>1, <3>2 DEF MInv, Latest
    <3>4. p \notin Touched(r)
      BY <1>5, <1>8, <2>2
    <3> QED BY <1>5, <1>7, <2>2, <3>1, <3>3, <3>4
  <2> QED BY <1>8, <2>1, <2>2
<1>11. Fresh'
  <2> SUFFICES ASSUME NEW p \in Paths \ (Ignored \cup stale), ~Waiting(pushes', p)
               PROVE  repoMap[p] = BuildFull(head')[p]
    BY <1>1 DEF Fresh
  <2>1. p \notin Touched(r)
    BY <1>5, <1>6, <1>8 DEF Waiting
  <2>2. ~Waiting(pushes, p)
    BY <1>5, <1>8 DEF Waiting
  <2>3. BuildFull(head')[p] = BuildFull(head)[p]
    BY <1>7, <2>1 DEF BuildFull, Read
  <2> QED BY <2>2, <2>3 DEF MInv, Fresh
<1>12. MapTypes'
  BY <1>1, <1>5 DEF MInv, MapTypes, selectionVars
<1> QED BY <1>2, <1>9, <1>10, <1>11, <1>12 DEF MInv

\* An attempt starts.
LEMMA BeginKeeps ==
  ASSUME MInv, Begin
  PROVE  MInv'
<1>1. /\ phase = "idle" /\ phase' = "listed" /\ current' \in DOMAIN pushes
      /\ entries' = NameStatus(pushes[current'])
      /\ UNCHANGED <<todo, kept, dropped, ignored, total>>
      /\ UNCHANGED <<head, pushes, repoMap, stale>>
  BY DEF Begin
<1>2. pushes[current'] \in PushRecord
  BY <1>1 DEF MInv, MapTypes
<1>3. entries' \subseteq Entry /\ IsFiniteSet(entries')
  BY <1>1, <1>2, EntryFacts, EntriesFinite
<1>4. Distinct(entries')
  BY <1>1, <1>2, EntriesDistinct DEF Distinct
<1>5. todo' = {} /\ kept' = {} /\ dropped' = {} /\ ignored' = {} /\ total' = 0
  BY <1>1 DEF MInv, SelInv, InPhase, Listed
<1>6. SelInv'
  BY <1>1, <1>3, <1>4, <1>5, FreshSelectionNext
<1> QED BY <1>1, <1>6, QuietMap

\* build_diff_result leaves the map to the later steps.
LEMMA SelectKeeps ==
  ASSUME MInv, Select
  PROVE  MInv'
<1>1. SelInv'
  BY SelectionKeeps DEF MInv, Select
<1>2. UNCHANGED <<head, pushes, repoMap, stale, current>> /\ entries' = entries
  BY DEF Select, prepareVars, SelectionStep, Split, Cap, Take, Selected
<1>3. phase \in {"listed", "cap", "take"} /\ phase' \in {"cap", "take", "selected"}
  BY DEF Select, SelectionStep, Split, Cap, Take, Selected
<1>4. current \in DOMAIN pushes /\ entries = NameStatus(pushes[current])
  BY <1>3 DEF MInv, MapTypes
<1> QED BY <1>1, <1>2, <1>3, <1>4, QuietMap

\* The requests are built from lists that do not change.
LEMMA ContextKeeps ==
  ASSUME MInv, BuildContext \/ Prepared
  PROVE  MInv'
<1>1. /\ phase \in {"plan", "request", "files"} /\ phase' \in {"request", "files", "done"}
      /\ UNCHANGED selVars /\ UNCHANGED <<head, pushes, repoMap, stale, current>>
  BY DEF BuildContext, Prepared, ContextStep, PlanSingle, PlanGroups, OpenRequest, AddFile,
     CloseRequest, selVars, prepareVars
<1>2. SelInv'
  BY <1>1, SelectedKeeps DEF MInv
<1>3. current \in DOMAIN pushes /\ pushes[current].applied
  BY <1>1 DEF MInv, MapTypes
<1> QED BY <1>1, <1>2, <1>3, QuietMap

\* What is left of an attempt.
LEMMA ForgetSelection ==
  ASSUME Forget
  PROVE  SelInv' /\ phase' = "idle" /\ UNCHANGED <<head, repoMap>>
<1>1. Distinct({}) /\ IsFiniteSet({}) /\ {} \subseteq Entry
  BY FS_EmptySet DEF Distinct
<1>2. /\ phase' = "idle" /\ entries' = {} /\ todo' = {} /\ kept' = {} /\ dropped' = {}
      /\ ignored' = {} /\ total' = 0 /\ UNCHANGED <<head, repoMap>>
  BY DEF Forget
<1> QED BY <1>1, <1>2, FreshSelectionNext

\* A push leaves the queue: what only it could have told the map is stale.
LEMMA LeaveKeeps ==
  ASSUME MInv, current \in DOMAIN pushes, Forget,
         NEW s \in Seq(PushRecord), Behind(pushes, current, s),
         s[current].applied = pushes[current].applied, pushes' = RemoveAt(s, current),
         stale \subseteq stale', ~pushes[current].applied => OwnPaths \subseteq stale'
  PROVE  MInv'
<1>1. SelInv' /\ phase' = "idle" /\ UNCHANGED <<head, repoMap>>
  BY ForgetSelection
<1>2. pushes \in Seq(PushRecord) /\ DOMAIN pushes \subseteq Nat
  BY DEF MInv, MapTypes
<1>3. /\ Down(s) /\ Latest(s, head)
      /\ \A i \in DOMAIN s : i < current => Touched(s[current]) \subseteq s[i].overtaken
      /\ \A p : Waiting(pushes, p) => Waiting(s, p) \/ (p \in OwnPaths /\ ~pushes[current].applied)
  BY <1>2, Overtaken DEF MInv, OwnPaths
<1>4. /\ current \in DOMAIN s /\ Touched(s[current]) = Touched(pushes[current])
      /\ s[current].overtaken = pushes[current].overtaken
  <2>1. ~(current < current)
    BY <1>2
  <2> QED BY <2>1 DEF Behind
<1>5. /\ pushes' \in Seq(PushRecord) /\ Down(pushes') /\ Latest(pushes', head)
      /\ \A p : Waiting(s, p) =>
           Waiting(pushes', p) \/ (p \in Touched(s[current]) \ s[current].overtaken /\ ~s[current].applied)
  BY <1>3, <1>4, Removed
<1>6. \A p : Waiting(pushes, p) => Waiting(pushes', p) \/ p \in stale'
  BY <1>3, <1>4, <1>5 DEF OwnPaths
<1>7. MapTypes'
  BY <1>1, <1>5 DEF MInv, MapTypes
<1>8. Fresh'
  BY <1>1, <1>6 DEF MInv, Fresh
<1> QED BY <1>1, <1>5, <1>7, <1>8 DEF MInv

\* The attempt succeeds.
LEMMA SettleKeeps ==
  ASSUME MInv, Settle
  PROVE  MInv'
<1>1. /\ phase = "done" /\ pushes' = RemoveAt(pushes, current) /\ Forget /\ stale' = stale
  BY DEF Settle
<1>2. pushes \in Seq(PushRecord) /\ current \in DOMAIN pushes /\ pushes[current].applied
  BY <1>1 DEF MInv, MapTypes
<1>3. \A i \in DOMAIN pushes : i < current => Touched(pushes[current]) \subseteq pushes[i].overtaken
  BY <1>2 DEF MInv, Down
<1>4. Behind(pushes, current, pushes)
  BY <1>2, <1>3 DEF Behind
<1> QED BY <1>1, <1>2, <1>4, LeaveKeeps

\* The attempt fails and the push keeps its place.
LEMMA RetryKeeps ==
  ASSUME MInv, FailAndRetry
  PROVE  MInv'
<1>1. SelInv' /\ phase' = "idle" /\ UNCHANGED <<head, repoMap, pushes, stale>>
  BY ForgetSelection DEF FailAndRetry
<1> QED BY <1>1, QuietMap

\* The push is given up.
LEMMA GiveUpKeeps ==
  ASSUME MInv, FailForGood
  PROVE  MInv'
<1> DEFINE push == pushes[current]
           s == [i \in DOMAIN pushes |->
                   IF i < current THEN [pushes[i] EXCEPT !.overtaken = @ \cup Touched(push)]
                   ELSE pushes[i]]
<1>1. /\ phase # "idle" /\ pushes' = RemoveAt(s, current) /\ Forget
      /\ stale' = IF push.applied THEN stale ELSE stale \cup OwnPaths
  BY DEF FailForGood
<1>2. /\ pushes \in Seq(PushRecord) /\ current \in DOMAIN pushes
      /\ DOMAIN pushes = 1..Len(pushes) /\ Len(pushes) \in Nat
  BY <1>1 DEF MInv, MapTypes
<1>3. ASSUME NEW i \in DOMAIN pushes
      PROVE  /\ s[i] \in PushRecord
             /\ s[i].before = pushes[i].before /\ s[i].after = pushes[i].after
             /\ s[i].applied = pushes[i].applied
             /\ s[i].overtaken = IF i < current THEN pushes[i].overtaken \cup Touched(push)
                                                ELSE pushes[i].overtaken
  <2>1. pushes[i] \in PushRecord /\ Touched(push) \subseteq Paths
    BY <1>2 DEF Touched
  <2>2. CASE i < current
    <3>1. s[i] = [pushes[i] EXCEPT !.overtaken = pushes[i].overtaken \cup Touched(push)]
      BY <2>2
    <3> QED BY <2>1, <2>2, <3>1 DEF PushRecord
  <2>3. CASE ~(i < current)
    BY <2>1, <2>3
  <2> QED BY <2>2, <2>3
<1>4. DOMAIN s = DOMAIN pushes /\ s = [i \in 1..Len(pushes) |-> s[i]]
  BY <1>2
<1> HIDE DEF s
<1>5. s \in Seq(PushRecord)
  <2>1. \A i \in 1..Len(pushes) : s[i] \in PushRecord
    BY <1>2, <1>3
  <2> QED BY <1>2, <1>4, <2>1, IsSequence
<1>6. Behind(pushes, current, s)
  <2>1. \A i \in DOMAIN pushes : Touched(s[i]) = Touched(pushes[i])
    BY <1>3 DEF Touched
  <2> QED BY <1>2, <1>3, <1>4, <2>1 DEF Behind
<1>7. s[current].applied = pushes[current].applied
  BY <1>2, <1>3
<1>8. stale \subseteq stale' /\ (~push.applied => OwnPaths \subseteq stale')
  BY <1>1
<1> QED BY <1>1, <1>2, <1>5, <1>6, <1>7, <1>8, LeaveKeeps

\* One step per action.
LEMMA PrepareStep ==
  ASSUME MInv, [Next]_vars
  PROVE  MInv'
<1>1. CASE UNCHANGED vars
  <2>1. UNCHANGED <<entries, todo, kept, dropped, ignored, total, phase>>
    BY <1>1 DEF vars, selectionVars
  <2>2. UNCHANGED <<head, pushes, current, repoMap, stale>>
    BY <1>1 DEF vars, prepareVars
  <2>3. SelInv'
    BY <2>1 DEF MInv, SelInv, SelTypes, InPhase, Partition, Counted, Ordered, NotEmptied, Listed,
       Diffed, CapDrop, RoomDrop
  <2> QED BY <2>1, <2>2, <2>3, QuietMap DEF MInv, MapTypes
<1>2. CASE Finished
  BY <1>1, <1>2 DEF Finished
<1>3. CASE Push
  BY <1>3, PushKeeps
<1>4. CASE Begin
  BY <1>4, BeginKeeps
<1>5. CASE Select
  BY <1>5, SelectKeeps
<1>6. CASE NothingToAnalyze
  BY <1>6, NothingKeeps
<1>7. CASE UpdateRepoMap
  BY <1>7, UpdateKeeps
<1>8. CASE BuildContext \/ Prepared
  BY <1>8, ContextKeeps
<1>9. CASE Settle
  BY <1>9, SettleKeeps
<1>10. CASE FailAndRetry
  BY <1>10, RetryKeeps
<1>11. CASE FailForGood
  BY <1>11, GiveUpKeeps
<1> QED BY <1>1, <1>2, <1>3, <1>4, <1>5, <1>6, <1>7, <1>8, <1>9, <1>10, <1>11 DEF Next

\* MInv is inductive.
LEMMA PrepareInvariance == Spec => []MInv
<1>1. Init => MInv
  BY PrepareInit
<1>2. MInv /\ [Next]_vars => MInv'
  BY PrepareStep
<1> QED BY <1>1, <1>2, PTL DEF Spec

-----------------------------------------------------------------------------
(* The order of the files.                                                 *)

\* Two files of one path are the two sides of a change of type.
OneOfEach(S) ==
  /\ S \subseteq FileRecord
  /\ \A f, g \in S : f.path = g.path => f = g \/ ((f.status = "deleted") # (g.status = "deleted"))

\* The order by path, in general.
LEMMA AheadFacts ==
  ASSUME NEW S, OneOfEach(S)
  PROVE  /\ \A f \in S : ~Ahead(f, f)
         /\ \A f, g, h \in S : Ahead(f, g) /\ Ahead(g, h) => Ahead(f, h)
         /\ \A f, g \in S : f # g => Ahead(f, g) \/ Ahead(g, f)
<1>1. \A f \in S : f.weight \in Nat /\ f.path \in Nat
  BY SelectionAssumption DEF OneOfEach, FileRecord
<1>2. \A f \in S : ~Ahead(f, f)
  BY <1>1 DEF Ahead, Before
<1>3. ASSUME NEW f \in S, NEW g \in S, NEW h \in S, Ahead(f, g), Ahead(g, h) PROVE Ahead(f, h)
  BY <1>1, <1>3 DEF Ahead, Before
<1>4. ASSUME NEW f \in S, NEW g \in S, f # g PROVE Ahead(f, g) \/ Ahead(g, f)
  BY <1>1, <1>4 DEF Ahead, Before, OneOfEach
<1> QED BY <1>2, <1>3, <1>4

\* Files sorted by path.
LEMMA ByPathSorts ==
  ASSUME NEW S, OneOfEach(S), IsFiniteSet(S)
  PROVE  LET s == Sorted(S, ByPath(S))
         IN  /\ s \in Seq(S) /\ Len(s) = Cardinality(S) /\ DOMAIN s = 1..Cardinality(S)
             /\ Range(s) = S /\ IsInjective(s)
<1>1. \A f, g \in S : <<f, g>> \in ByPath(S) <=> Ahead(f, g)
  BY DEF ByPath
<1>2. IsOrder(S, ByPath(S))
  BY <1>1, AheadFacts DEF IsOrder
<1> QED BY <1>2, SortedFacts

\* The files that are kept.
LEMMA KeptOneOfEach ==
  ASSUME SelInv
  PROVE  OneOfEach(kept) /\ IsFiniteSet(kept)
<1>1. kept \subseteq FileRecord /\ IsFiniteSet(kept)
  BY DEF SelInv, SelTypes
<1>2. ASSUME NEW f \in kept, NEW g \in kept, f.path = g.path, f # g
      PROVE  (f.status = "deleted") # (g.status = "deleted")
  <2>1. PICK a \in Diffed : f = Clip(a)
    BY DEF SelInv, Partition
  <2>2. PICK b \in Diffed : g = Clip(b)
    BY DEF SelInv, Partition
  <2>3. a \in FileRecord /\ b \in FileRecord /\ a # b
    BY <1>2, <2>1, <2>2, DiffedFacts DEF SelInv
  <2>4. a.path = b.path /\ f.status = a.status /\ g.status = b.status
    BY <1>2, <2>1, <2>2, <2>3, ClipFacts
  <2>5. PICK d \in entries : a \in Sections(d)
    BY <2>1 DEF Diffed, DiffFiles
  <2>6. PICK e \in entries : b \in Sections(e)
    BY <2>2 DEF Diffed, DiffFiles
  <2>7. d \in Entry /\ e \in Entry /\ a.path = Effective(d) /\ b.path = Effective(e)
    BY <2>5, <2>6, SectionFacts DEF SelInv, SelTypes
  <2>8. d = e
    BY <2>4, <2>7 DEF SelInv, SelTypes, Distinct
  <2>9. Sections(e) = {File(e, "deleted", Patch[e.from][Absent]),
                       File(e, "added", Patch[Absent][e.to])}
    BY <2>3, <2>5, <2>6, <2>7, <2>8 DEF Entry, Sections
  <2>10. \A status, patch : File(e, status, patch).status = status
    BY DEF File
  <2> QED BY <2>3, <2>4, <2>5, <2>6, <2>8, <2>9, <2>10
<1> QED BY <1>1, <1>2 DEF OneOfEach

-----------------------------------------------------------------------------
(* Groups.                                                                 *)

\* gs shares the files out, and leaves no group empty.
Shares(gs, files) ==
  /\ IsFiniteSet(gs)
  /\ \A g \in gs : g.files \in Seq(files) /\ IsInjective(g.files) /\ g.files # <<>>
  /\ \A g, h \in gs : g # h => Range(g.files) \cap Range(h.files) = {}
  /\ UNION {Range(g.files) : g \in gs} = files

\* The first file of a group is one of its own.
LEMMA FirstFile ==
  ASSUME NEW files, NEW s \in Seq(files), s # <<>>
  PROVE  s[1] \in Range(s) /\ Range(s) \subseteq files /\ Len(s) \in Nat /\ Len(s) >= 1
<1>1. 1 \in DOMAIN s /\ DOMAIN s = 1..Len(s) /\ Len(s) \in Nat
  OBVIOUS
<1> QED BY <1>1 DEF Range

\* Grouping by directory.
LEMMA GroupsShare ==
  ASSUME NEW files, OneOfEach(files), IsFiniteSet(files), NEW depth
  PROVE  Shares(GroupsAt(files, depth), files)
<1> DEFINE Keys == {KeyFor(f, depth) : f \in files}
           Part(key) == {f \in files : KeyFor(f, depth) = key}
           Group(key) == [name |-> key, files |-> Sorted(Part(key), ByPath(Part(key)))]
           gs == GroupsAt(files, depth)
<1>1. gs = {Group(key) : key \in Keys}
  BY DEF GroupsAt
<1>2. \A key : Part(key) \subseteq files
  OBVIOUS
<1>3. \A key : OneOfEach(Part(key)) /\ IsFiniteSet(Part(key))
  BY <1>2, FS_Subset DEF OneOfEach
<1>4. \A key : /\ Group(key).files \in Seq(Part(key)) /\ Range(Group(key).files) = Part(key)
               /\ IsInjective(Group(key).files) /\ Len(Group(key).files) = Cardinality(Part(key))
  BY <1>3, ByPathSorts
<1>5. IsFiniteSet(Keys)
  <2>1. [f \in files |-> KeyFor(f, depth)] \in Surjection(files, Keys)
    BY DEF Surjection
  <2> QED BY <2>1, FS_Surjection
<1>6. IsFiniteSet(gs)
  <2> HIDE DEF Keys, Group
  <2>1. [key \in Keys |-> Group(key)] \in Surjection(Keys, gs)
    BY <1>1 DEF Surjection
  <2> QED BY <1>5, <2>1, FS_Surjection
<1>7. \A key \in Keys : Part(key) # {}
  OBVIOUS
<1>8. \A key, k : key # k => Part(key) \cap Part(k) = {}
  OBVIOUS
<1>9. \A f \in files : KeyFor(f, depth) \in Keys /\ f \in Part(KeyFor(f, depth))
  OBVIOUS
<1> HIDE DEF Part, Keys, Group, gs
<1>10. ASSUME NEW g \in gs PROVE g.files \in Seq(files) /\ IsInjective(g.files) /\ g.files # <<>>
  <2>1. PICK key \in Keys : g = Group(key)
    BY <1>1
  <2>2. g.files \in Seq(Part(key)) /\ Part(key) \subseteq files
    BY <1>2, <1>4, <2>1
  <2>3. g.files \in Seq(files)
    BY <2>2, SeqMonotonic
  <2>4. g.files # <<>>
    <3>1. Range(g.files) # {}
      BY <1>4, <1>7, <2>1
    <3> QED BY <3>1 DEF Range
  <2> QED BY <1>4, <2>1, <2>3, <2>4
<1>11. ASSUME NEW g \in gs, NEW h \in gs, g # h PROVE Range(g.files) \cap Range(h.files) = {}
  <2>1. PICK key \in Keys : g = Group(key)
    BY <1>1
  <2>2. PICK k \in Keys : h = Group(k)
    BY <1>1
  <2> QED BY <1>4, <1>8, <1>11, <2>1, <2>2
<1>12. UNION {Range(g.files) : g \in gs} = files
  <2>1. \A g \in gs : Range(g.files) \subseteq files
    BY <1>1, <1>2, <1>4
  <2>2. ASSUME NEW f \in files PROVE \E g \in gs : f \in Range(g.files)
    BY <1>1, <1>4, <1>9
  <2> QED BY <2>1, <2>2
<1> QED BY <1>6, <1>10, <1>11, <1>12 DEF Shares, gs

\* Groups by size.
LEMMA BySizeOrders ==
  ASSUME NEW gs, NEW files, OneOfEach(files), Shares(gs, files)
  PROVE  IsOrder(gs, BySize(gs))
<1> DEFINE n(g) == Len(g.files)
           a(g) == g.files[1]
<1>1. \A g \in gs : n(g) \in Nat /\ a(g) \in files /\ a(g) \in Range(g.files)
  BY FirstFile DEF Shares
<1>2. \A g, h \in gs : <<g, h>> \in BySize(gs) <=> (n(g) > n(h) \/ (n(g) = n(h) /\ Ahead(a(g), a(h))))
  BY DEF BySize
<1>3. ASSUME NEW g \in gs, NEW h \in gs, g # h PROVE a(g) # a(h)
  <2>1. Range(g.files) \cap Range(h.files) = {}
    BY <1>3 DEF Shares
  <2>2. a(g) \in Range(g.files) /\ a(h) \in Range(h.files)
    BY <1>1
  <2> HIDE DEF a
  <2> QED BY <2>1, <2>2
<1> HIDE DEF n, a
<1>4. \A g \in gs : <<g, g>> \notin BySize(gs)
  BY <1>1, <1>2, AheadFacts
<1>5. ASSUME NEW g \in gs, NEW h \in gs, NEW k \in gs, <<g, h>> \in BySize(gs), <<h, k>> \in BySize(gs)
      PROVE  <<g, k>> \in BySize(gs)
  <2>1. Ahead(a(g), a(h)) /\ Ahead(a(h), a(k)) => Ahead(a(g), a(k))
    BY <1>1, AheadFacts
  <2>2. n(g) \in Nat /\ n(h) \in Nat /\ n(k) \in Nat
    BY <1>1
  <2>3. n(g) > n(h) \/ (n(g) = n(h) /\ Ahead(a(g), a(h)))
    BY <1>2, <1>5
  <2>4. n(h) > n(k) \/ (n(h) = n(k) /\ Ahead(a(h), a(k)))
    BY <1>2, <1>5
  <2>5. n(g) > n(k) \/ (n(g) = n(k) /\ Ahead(a(g), a(k)))
    BY <2>1, <2>2, <2>3, <2>4
  <2> QED BY <1>2, <2>5
<1>6. ASSUME NEW g \in gs, NEW h \in gs, g # h PROVE <<g, h>> \in BySize(gs) \/ <<h, g>> \in BySize(gs)
  <2>1. Ahead(a(g), a(h)) \/ Ahead(a(h), a(g))
    BY <1>1, <1>3, <1>6, AheadFacts
  <2>2. n(g) > n(h) \/ n(h) > n(g) \/ n(g) = n(h)
    BY <1>1
  <2> QED BY <1>2, <2>1, <2>2
<1> QED BY <1>4, <1>5, <1>6 DEF IsOrder

\* Group by group.
LEMMA ChainedSorts ==
  ASSUME NEW gs, NEW files, OneOfEach(files), IsFiniteSet(files), Shares(gs, files)
  PROVE  LET s == Chained(gs)
         IN  /\ s \in Seq(files) /\ Len(s) = Cardinality(files)
             /\ Range(s) = files /\ IsInjective(s)
<1> DEFINE Comes(f, k) == \E g, h \in gs :
             /\ f \in Range(g.files) /\ k \in Range(h.files)
             /\ <<g, h>> \in BySize(gs) \/ (g = h /\ Ahead(f, k))
           R == {r \in files \X files : Comes(r[1], r[2])}
<1>1. UNION {Range(g.files) : g \in gs} = files
  BY DEF Shares
<1>2. Chained(gs) = Sorted(files, R)
  BY <1>1 DEF Chained
<1>3. \A f, k \in files : <<f, k>> \in R <=> Comes(f, k)
  OBVIOUS
<1>4. \A f \in files : \E g \in gs : f \in Range(g.files)
  BY <1>1
<1>5. \A f : \A g, h \in gs : f \in Range(g.files) /\ f \in Range(h.files) => g = h
  BY DEF Shares
<1>6. IsOrder(gs, BySize(gs))
  BY BySizeOrders
<1>7. \A f \in files : ~Comes(f, f)
  BY <1>5, <1>6, AheadFacts DEF IsOrder
<1>8. ASSUME NEW f \in files, NEW k \in files, NEW l \in files, Comes(f, k), Comes(k, l)
      PROVE  Comes(f, l)
  <2>1. PICK g \in gs, h \in gs : /\ f \in Range(g.files) /\ k \in Range(h.files)
                                  /\ <<g, h>> \in BySize(gs) \/ (g = h /\ Ahead(f, k))
    BY <1>8
  <2>2. PICK x \in gs, y \in gs : /\ k \in Range(x.files) /\ l \in Range(y.files)
                                  /\ <<x, y>> \in BySize(gs) \/ (x = y /\ Ahead(k, l))
    BY <1>8
  <2>3. x = h
    BY <1>5, <2>1, <2>2
  <2>4. Ahead(f, k) /\ Ahead(k, l) => Ahead(f, l)
    BY AheadFacts
  <2>5. <<g, h>> \in BySize(gs) /\ <<h, y>> \in BySize(gs) => <<g, y>> \in BySize(gs)
    BY <1>6 DEF IsOrder
  <2>6. <<g, y>> \in BySize(gs) \/ (g = y /\ Ahead(f, l))
    BY <2>1, <2>2, <2>3, <2>4, <2>5
  <2> QED BY <2>1, <2>2, <2>6
<1>9. ASSUME NEW f \in files, NEW k \in files, f # k PROVE Comes(f, k) \/ Comes(k, f)
  <2>1. PICK g \in gs : f \in Range(g.files)
    BY <1>4
  <2>2. PICK h \in gs : k \in Range(h.files)
    BY <1>4
  <2>3. g # h => <<g, h>> \in BySize(gs) \/ <<h, g>> \in BySize(gs)
    BY <1>6 DEF IsOrder
  <2>4. Ahead(f, k) \/ Ahead(k, f)
    BY <1>9, AheadFacts
  <2> QED BY <2>1, <2>2, <2>3, <2>4
<1> HIDE DEF Comes, R
<1>10. IsOrder(files, R)
  BY <1>3, <1>7, <1>8, <1>9 DEF IsOrder
<1> QED BY <1>2, <1>10, SortedFacts

\* Fewer than n elements have n others after them.
LEMMA FirstPlaces ==
  ASSUME NEW S, IsFiniteSet(S), NEW R, IsOrder(S, R), NEW n \in Nat
  PROVE  LET first == {x \in S : ~(Place(S, R, x) >= n)}
         IN  IsFiniteSet(first) /\ Cardinality(first) \in Nat /\ Cardinality(first) <= n
<1> DEFINE first == {x \in S : ~(Place(S, R, x) >= n)}
           r == [x \in first |-> Place(S, R, x) + 1]
<1>1. \A x \in first : Place(S, R, x) \in Nat /\ Place(S, R, x) + 1 \in 1..n
  BY PlaceFacts
<1>2. \A x, y \in first : Place(S, R, x) + 1 = Place(S, R, y) + 1 => x = y
  BY <1>1, PlaceFacts
<1>3. r \in Injection(first, 1..n)
  BY <1>1, <1>2 DEF Injection, IsInjective
<1>4. IsFiniteSet(1..n) /\ Cardinality(1..n) = n
  BY FS_Interval
<1> HIDE DEF first, r
<1>5. IsFiniteSet(first) /\ Cardinality(first) <= n
  BY <1>3, <1>4, FS_Injection
<1>6. Cardinality(first) \in Nat
  BY <1>5, FS_CardinalityType
<1> QED BY <1>5, <1>6 DEF first

\* Merging keeps the shares, and leaves n groups and one at most.
LEMMA MergedShares ==
  ASSUME NEW gs, NEW files, OneOfEach(files), IsFiniteSet(files), Shares(gs, files), NEW n \in Nat
  PROVE  Shares(Merged(gs, n), files) /\ Cardinality(Merged(gs, n)) <= n + 1
<1> DEFINE tail == {g \in gs : Place(gs, BySize(gs), g) >= n}
           first == {g \in gs : ~(Place(gs, BySize(gs), g) >= n)}
           part == UNION {Range(g.files) : g \in tail}
           other == [name |-> Other, files |-> Chained(tail)]
<1>1. first = gs \ tail /\ tail \subseteq gs /\ first \subseteq gs
  OBVIOUS
<1>2. Merged(gs, n) = first \cup (IF tail = {} THEN {} ELSE {other})
  BY <1>1 DEF Merged, Place
<1>3. IsFiniteSet(gs) /\ IsOrder(gs, BySize(gs))
  BY BySizeOrders DEF Shares
<1>4. IsFiniteSet(first) /\ Cardinality(first) \in Nat /\ Cardinality(first) <= n
  BY <1>3, FirstPlaces
<1>5. \A g \in gs : Range(g.files) \subseteq files
  BY DEF Shares
<1>6. part \subseteq files
  BY <1>5
<1>7. OneOfEach(part) /\ IsFiniteSet(part)
  BY <1>6, FS_Subset DEF OneOfEach
<1>8. Shares(tail, part)
  <2>1. IsFiniteSet(tail)
    BY <1>3, FS_Subset
  <2>2. ASSUME NEW g \in tail
        PROVE  g.files \in Seq(part) /\ IsInjective(g.files) /\ g.files # <<>>
    <3>1. g.files \in Seq(files) /\ IsInjective(g.files) /\ g.files # <<>> /\ Range(g.files) \subseteq part
      BY DEF Shares
    <3>2. g.files \in Seq(Range(g.files))
      BY <3>1 DEF Range
    <3> QED BY <3>1, <3>2, SeqMonotonic
  <2>3. \A g, h \in tail : g # h => Range(g.files) \cap Range(h.files) = {}
    BY DEF Shares
  <2> HIDE DEF tail
  <2> QED BY <2>1, <2>2, <2>3 DEF Shares
<1> HIDE DEF tail, first
<1>9. CASE tail = {}
  <2>1. Merged(gs, n) = gs /\ Merged(gs, n) = first
    BY <1>1, <1>2, <1>9
  <2> QED BY <1>4, <2>1
<1>10. CASE tail # {}
  <2>1. Merged(gs, n) = first \cup {other} /\ other.files = Chained(tail)
    BY <1>2, <1>10
  <2>2. /\ other.files \in Seq(part) /\ Len(other.files) = Cardinality(part)
        /\ Range(other.files) = part /\ IsInjective(other.files)
    BY <1>7, <1>8, <2>1, ChainedSorts
  <2> HIDE DEF other
  <2>3. IsFiniteSet(Merged(gs, n)) /\ Cardinality(Merged(gs, n)) <= n + 1
    <3>1. IsFiniteSet(first \cup {other})
          /\ Cardinality(first \cup {other}) = IF other \in first THEN Cardinality(first)
                                               ELSE Cardinality(first) + 1
      BY <1>4, FS_AddElement
    <3> QED BY <1>4, <2>1, <3>1
  <2>4. part # {}
    <3>1. PICK g \in tail : TRUE
      BY <1>10
    <3>2. g.files \in Seq(files) /\ g.files # <<>>
      BY <1>1, <3>1 DEF Shares
    <3>3. g.files[1] \in Range(g.files)
      BY <3>2, FirstFile
    <3> QED BY <3>1, <3>3
  <2>5. other.files # <<>> /\ other.files \in Seq(files)
    <3>1. other.files \in Seq(files)
      BY <1>6, <2>2, SeqMonotonic
    <3>2. other.files # <<>>
      <4>1. PICK f : f \in Range(other.files)
        BY <2>2, <2>4
      <4>2. DOMAIN other.files # {}
        BY <4>1 DEF Range
      <4> QED BY <4>2
    <3> QED BY <3>1, <3>2
  <2>6. \A g \in first : Range(g.files) \cap part = {}
    <3> SUFFICES ASSUME NEW g \in first, NEW h \in tail
                 PROVE  Range(g.files) \cap Range(h.files) = {}
      OBVIOUS
    <3>1. g \in gs /\ h \in gs /\ g # h
      BY <1>1
    <3> QED BY <3>1 DEF Shares
  <2>7. \A g, h \in first : g # h => Range(g.files) \cap Range(h.files) = {}
    BY <1>1 DEF Shares
  <2>8. \A g \in first : g.files \in Seq(files) /\ IsInjective(g.files) /\ g.files # <<>>
    BY <1>1 DEF Shares
  <2>9. UNION {Range(g.files) : g \in first \cup {other}} = files
    <3>1. \A f \in files : \E g \in gs : f \in Range(g.files)
      BY DEF Shares
    <3>2. \A f \in files : \E g \in first \cup {other} : f \in Range(g.files)
      BY <1>1, <2>2, <3>1
    <3>3. \A g \in first \cup {other} : Range(g.files) \subseteq files
      BY <1>1, <1>5, <1>6, <2>2
    <3> QED BY <3>2, <3>3
  <2>10. \A g \in first \cup {other} : g.files \in Seq(files) /\ IsInjective(g.files) /\ g.files # <<>>
    BY <2>2, <2>5, <2>8
  <2>11. \A g, h \in first \cup {other} : g # h => Range(g.files) \cap Range(h.files) = {}
    BY <2>2, <2>6, <2>7
  <2> QED BY <2>1, <2>3, <2>9, <2>10, <2>11 DEF Shares
<1> QED BY <1>9, <1>10

\* group_files_by_subsystem.
LEMMA GroupingShares ==
  ASSUME NEW files, OneOfEach(files), IsFiniteSet(files)
  PROVE  /\ Shares(GroupFilesBySubsystem(files), files)
         /\ Cardinality(GroupFilesBySubsystem(files)) <= MaxGroups
<1>1. MaxGroups \in Nat /\ MaxGroups - 1 \in Nat /\ (MaxGroups - 1) + 1 = MaxGroups
  BY ContextAssumption
<1>2. \A depth : Shares(GroupsAt(files, depth), files)
  BY GroupsShare
<1>3. CASE files = {}
  <2>1. GroupFilesBySubsystem(files) = {}
    BY <1>3 DEF GroupFilesBySubsystem
  <2> QED BY <1>1, <1>3, <2>1, FS_EmptySet DEF Shares
<1>4. CASE files # {} /\ Cardinality(GroupsAt(files, 2)) <= MaxGroups
  <2>1. GroupFilesBySubsystem(files) = GroupsAt(files, 2)
    BY <1>4 DEF GroupFilesBySubsystem
  <2> QED BY <1>2, <1>4, <2>1
<1>5. CASE files # {} /\ ~(Cardinality(GroupsAt(files, 2)) <= MaxGroups)
             /\ Cardinality(GroupsAt(files, 1)) <= MaxGroups
  <2>1. GroupFilesBySubsystem(files) = GroupsAt(files, 1)
    BY <1>5 DEF GroupFilesBySubsystem
  <2> QED BY <1>2, <1>5, <2>1
<1>6. CASE files # {} /\ ~(Cardinality(GroupsAt(files, 2)) <= MaxGroups)
             /\ ~(Cardinality(GroupsAt(files, 1)) <= MaxGroups)
  <2>1. GroupFilesBySubsystem(files) = Merged(GroupsAt(files, 1), MaxGroups - 1)
    BY <1>6 DEF GroupFilesBySubsystem, MergeSmallest
  <2>2. /\ Shares(Merged(GroupsAt(files, 1), MaxGroups - 1), files)
        /\ Cardinality(Merged(GroupsAt(files, 1), MaxGroups - 1)) <= (MaxGroups - 1) + 1
    BY <1>1, <1>2, MergedShares
  <2> QED BY <1>1, <2>1, <2>2
<1> QED BY <1>3, <1>4, <1>5, <1>6

-----------------------------------------------------------------------------
(* The length of a file's context.                                         *)

\* Products, one more at a time.
LEMMA TimesFacts ==
  ASSUME NEW a \in Nat, NEW e \in Nat
  PROVE  0 * e = 0 /\ a * e \in Nat /\ (a + 1) * e = a * e + e
OBVIOUS

\* Max and Min of two numbers.
LEMMA MaxMin ==
  ASSUME NEW a \in Int, NEW b \in Int
  PROVE  /\ Max({a, b}) = (IF a >= b THEN a ELSE b)
         /\ Min({a, b}) = (IF a <= b THEN a ELSE b)
<1>1. Max({a, b}) = (IF a >= b THEN a ELSE b)
  BY DEF Max
<1>2. Min({a, b}) = (IF a <= b THEN a ELSE b)
  BY DEF Min
<1> QED BY <1>1, <1>2

\* What a request may exceed its limit by.
Most == Max({MaxFileDiff + ClipMark, BinaryNote, Overhead})

\* Each part of it is within it.
LEMMA MostFacts ==
  /\ Overhead \in Nat /\ Most \in Nat
  /\ MaxFileDiff + ClipMark <= Most /\ BinaryNote <= Most /\ Overhead <= Most
<1>1. Overhead \in Nat
  <2>1. CutMark \in Nat /\ Join \in Nat /\ MaxSpans \in Nat
    BY ContextAssumption
  <2>2. Join * MaxSpans \in Nat
    BY <2>1
  <2> QED BY <2>1, <2>2 DEF Overhead
<1> DEFINE a == MaxFileDiff + ClipMark
<1>2. a \in Nat /\ BinaryNote \in Nat
  BY SelectionAssumption
<1> HIDE DEF a
<1>3. \E x \in {a, BinaryNote, Overhead} : \A y \in {a, BinaryNote, Overhead} : x >= y
  BY <1>1, <1>2
<1>4. Max({a, BinaryNote, Overhead}) \in {a, BinaryNote, Overhead}
      /\ \A y \in {a, BinaryNote, Overhead} : Max({a, BinaryNote, Overhead}) >= y
  BY <1>3 DEF Max
<1> QED BY <1>1, <1>2, <1>4 DEF Most, a

\* The blocks of code around the changes of a file.
IsBlocks(upto) ==
  /\ upto \in Seq(Nat) /\ Len(upto) <= MaxSpans
  /\ \A i, j \in DOMAIN upto : i <= j => upto[i] <= upto[j]

\* render_spans keeps to its limit, but for the marks.
LEMMA RenderedBound ==
  ASSUME NEW upto, IsBlocks(upto), NEW max \in Nat
  PROVE  Rendered(upto, max) \in Int /\ Rendered(upto, max) <= max + Overhead
<1> DEFINE n == Len(upto)
           W == {i \in DOMAIN upto : upto[i] <= max}
           whole == Cardinality(W)
           used == IF whole = 0 THEN 0 ELSE upto[whole]
<1>1. /\ n \in Nat /\ DOMAIN upto = 1..n /\ n <= MaxSpans
      /\ \A i \in 1..n : upto[i] \in Nat
  BY DEF IsBlocks
<1>c. CutMark \in Nat /\ Join \in Nat /\ MaxSpans \in Nat /\ MinUseful \in Nat
  BY ContextAssumption
<1>2. IsFiniteSet(1..n) /\ Cardinality(1..n) = n
  BY <1>1, FS_Interval
<1>3. whole \in Nat /\ whole <= n
  <2>1. W \in SUBSET (1..n)
    BY <1>1
  <2> HIDE DEF W
  <2>2. IsFiniteSet(W) /\ Cardinality(W) <= n
    BY <1>2, <2>1, FS_Subset
  <2> QED BY <2>2, FS_CardinalityType
<1>4. used \in Nat /\ used <= max
  <2>1. CASE whole = 0
    BY <2>1
  <2>2. CASE whole # 0
    <3> SUFFICES ASSUME upto[whole] > max PROVE FALSE
      BY <1>1, <1>3, <2>2
    <3> DEFINE w == whole
    <3>0. w \in 1..n /\ upto[w] > max /\ w - 1 \in Nat
      BY <1>3, <2>2
    <3> HIDE DEF w
    <3>1. \A i \in W : i \in 1..n /\ upto[i] <= max
      BY <1>1
    <3>2. ASSUME NEW i \in W PROVE i \in 1..(w - 1)
      <4>1. i \in 1..n /\ upto[i] <= max /\ upto[i] \in Nat /\ upto[w] \in Nat
        BY <1>1, <3>0, <3>1, <3>2
      <4>2. w <= i => upto[w] <= upto[i]
        BY <1>1, <3>0, <4>1 DEF IsBlocks
      <4> QED BY <3>0, <4>1, <4>2
    <3>3. W \in SUBSET (1..(w - 1))
      BY <3>2
    <3>4. IsFiniteSet(1..(w - 1)) /\ Cardinality(1..(w - 1)) = w - 1
      <4> DEFINE v == w - 1
      <4>1. v \in Nat
        BY <3>0
      <4> HIDE DEF v
      <4>2. IsFiniteSet(1..v) /\ Cardinality(1..v) = v
        BY <4>1, FS_Interval
      <4> QED BY <4>2 DEF v
    <3> HIDE DEF W
    <3>5. Cardinality(W) <= w - 1
      BY <3>3, <3>4, FS_Subset
    <3> QED BY <1>3, <3>0, <3>5 DEF w
  <2> QED BY <2>1, <2>2
<1> HIDE DEF whole, used, n
<1>5. Rendered(upto, max) = IF whole < n /\ max - used > MinUseful
                              THEN max + CutMark + Join * whole
                              ELSE used + Join * Max({whole - 1, 0})
  BY DEF Rendered, whole, used, n
<1>6. ASSUME NEW k \in Nat, k <= MaxSpans PROVE Join * k \in Nat /\ Join * k <= Join * MaxSpans
  <2>1. MaxSpans - k \in Nat /\ Join * MaxSpans = Join * k + Join * (MaxSpans - k)
    BY <1>c, <1>6
  <2>2. Join * k \in Nat /\ Join * (MaxSpans - k) \in Nat
    BY <1>c, <2>1
  <2> QED BY <2>1, <2>2
<1>7. Join * whole \in Nat /\ Join * whole <= Join * MaxSpans
  BY <1>1, <1>3, <1>6, <1>c
<1>8. Max({whole - 1, 0}) \in Nat /\ Max({whole - 1, 0}) <= MaxSpans
  <2>1. Max({whole - 1, 0}) = IF whole - 1 >= 0 THEN whole - 1 ELSE 0
    BY <1>3, MaxMin
  <2> QED BY <1>1, <1>3, <1>c, <2>1
<1>9. /\ Join * Max({whole - 1, 0}) \in Nat
      /\ Join * Max({whole - 1, 0}) <= Join * MaxSpans
  BY <1>6, <1>8
<1> QED BY <1>4, <1>5, <1>7, <1>9, <1>c DEF Overhead

\* A file takes its diff, or what it was given and the marks.
LEMMA FileSizeBound ==
  ASSUME NEW f, f.size \in Nat, IsBlocks(f.upto), limits.file \in Nat, NEW b \in Nat
  PROVE  /\ FileSize(f, b) \in Int
         /\ FileSize(f, b) <= f.size \/ FileSize(f, b) <= b + Overhead
<1> DEFINE m == Min({b, limits.file})
           room == m - f.size
<1>1. m \in Nat /\ m <= b
  <2>1. b \in Int /\ limits.file \in Int
    OBVIOUS
  <2>2. m = IF b <= limits.file THEN b ELSE limits.file
    BY <2>1, MaxMin
  <2> QED BY <2>2
<1>2. MinUseful \in Nat
  BY ContextAssumption
<1>3. CASE f.status \in {"deleted", "added"} \/ f.binary \/ room < MinUseful
  BY <1>3 DEF FileSize
<1>4. CASE ~(f.status \in {"deleted", "added"} \/ f.binary \/ room < MinUseful)
  <2>1. FileSize(f, b) = f.size + Rendered(f.upto, room)
    BY <1>4 DEF FileSize
  <2> HIDE DEF m
  <2>2. room \in Nat
    BY <1>1, <1>2, <1>4
  <2>3. Rendered(f.upto, room) \in Int /\ Rendered(f.upto, room) <= room + Overhead
    BY <2>2, RenderedBound
  <2> QED BY <1>1, <2>1, <2>2, <2>3, MostFacts
<1> QED BY <1>3, <1>4

\* What is known of a file that is kept.
LEMMA KeptSize ==
  ASSUME SelInv, NEW f \in kept
  PROVE  f.size \in Nat /\ f.size <= Most /\ IsBlocks(f.upto)
<1>1. PICK a \in Diffed : f = Clip(a)
  BY DEF SelInv, Partition
<1>2. a \in FileRecord
  BY DiffedFacts DEF SelInv
<1>3. f.size \in Nat /\ (f.size <= MaxFileDiff + ClipMark \/ f.size = BinaryNote) /\ f.upto = a.upto
  BY <1>1, <1>2, ClipFacts
<1>4. f.size <= Most
  BY <1>3, MostFacts, SelectionAssumption
<1>5. PICK e \in entries : a \in Sections(e)
  BY <1>1 DEF Diffed, DiffFiles
<1>6. e \in Entry
  BY DEF SelInv, SelTypes
<1>7. \E v, w \in Versions \cup {Absent} : a.upto = Patch[v][w].upto
  <2>1. \A status, patch : File(e, status, patch).upto = patch.upto
    BY DEF File
  <2>2. e.from \in Versions \cup {Absent} /\ e.to \in Versions \cup {Absent}
        /\ e.code \in {"A", "M", "D", "R", "T"}
    BY <1>6 DEF Entry
  <2>3. \/ a = File(e, "added", Patch[Absent][e.to])
        \/ a = File(e, "modified", Patch[e.from][e.to])
        \/ a = File(e, "deleted", Patch[e.from][Absent])
        \/ a = File(e, "renamed", Patch[e.from][e.to])
    BY <1>5, <2>2 DEF Sections
  <2> QED BY <2>1, <2>2, <2>3
<1>8. PICK v \in Versions \cup {Absent}, w \in Versions \cup {Absent} : a.upto = Patch[v][w].upto
  BY <1>7
<1>9. Patch[v][w] \in Patches
  BY SelectionAssumption
<1>10. IsBlocks(Patch[v][w].upto)
  BY <1>9, ContextAssumption DEF IsBlocks, Patches
<1> QED BY <1>3, <1>4, <1>8, <1>10

-----------------------------------------------------------------------------
(* The requests of a push: the inductive invariant and the steps.          *)

Rest == {request[i] : i \in (at + 1)..Len(request)}
Unopened == UNION {Range(g.files) : g \in groups}

\* The files of the push are shown, left out, still to come in the request
\* that is open, or in one that is not.
SharedOut ==
  /\ Shares(groups, Unopened)
  /\ request \in Seq(kept) /\ IsInjective(request) /\ at \in 0..Len(request)
  /\ kept = shown \cup left \cup Rest \cup Unopened
  /\ shown \cap left = {} /\ shown \cap Rest = {} /\ shown \cap Unopened = {}
  /\ left \cap Rest = {} /\ left \cap Unopened = {} /\ Rest \cap Unopened = {}
  /\ made + Cardinality(groups) + (IF phase = "files" THEN 1 ELSE 0) <= MaxGroups

\* Nothing is built before its time.
NotYet == groups = {} /\ made = 0 /\ request = <<>> /\ at = 0 /\ shown = {} /\ left = {}

\* Files within their share use their share and the marks at most.
WithinShares ==
  OverShare = {} /\ EvenShare >= MinUseful => budget >= limits.total - at * (EvenShare + Overhead)

CtxTypes ==
  /\ limits.total \in Nat /\ limits.file \in Nat /\ made \in Nat
  /\ budget \in Int /\ budget >= -Most

CtxInv ==
  /\ CtxTypes
  /\ phase \in {"idle", "listed", "cap", "take", "selected", "plan"} => NotYet
  /\ phase = "plan" => kept # {}
  /\ Building => SharedOut
  /\ phase = "request" => request = <<>> /\ at = 0
  /\ phase = "files" => request # <<>> /\ WithinShares

\* No request is open.
LEMMA NothingOpen ==
  ASSUME request = <<>>, at = 0
  PROVE  Rest = {}
<1>1. (at + 1)..Len(request) = {}
  OBVIOUS
<1> QED BY <1>1 DEF Rest

\* The groups of a push are planned.
LEMMA PlanKeeps ==
  ASSUME SelInv, CtxInv, PlanSingle \/ PlanGroups, kept' = kept
  PROVE  CtxInv'
<1>1. OneOfEach(kept) /\ IsFiniteSet(kept) /\ Cardinality(kept) \in Nat
  BY KeptOneOfEach, FS_CardinalityType
<1>2. /\ phase = "plan" /\ phase' = "request" /\ NotYet /\ kept # {}
      /\ UNCHANGED <<made, request, at, budget, shown, left>>
  BY DEF CtxInv, PlanSingle, PlanGroups
<1>c. /\ MaxContext \in Nat /\ MaxFileContext \in Nat /\ MaxGroups \in Nat /\ MaxGroups >= 1
      /\ MinGroup \in Nat
  BY ContextAssumption
<1>3. Shares(groups', kept) /\ Cardinality(groups') <= MaxGroups
      /\ limits'.total \in Nat /\ limits'.file \in Nat
  <2>1. CASE PlanSingle
    <3> DEFINE s == Sorted(kept, ByPath(kept))
               g == [name |-> <<>>, files |-> s]
    <3>1. groups' = {g} /\ limits' = [total |-> MaxContext, file |-> MaxFileContext]
      BY <2>1 DEF PlanSingle
    <3>2. s \in Seq(kept) /\ Range(s) = kept /\ IsInjective(s)
      BY <1>1, ByPathSorts
    <3>3. s # <<>>
      <4>1. PICK f : f \in Range(s)
        BY <1>2, <3>2
      <4>2. DOMAIN s # {}
        BY <4>1 DEF Range
      <4> HIDE DEF s
      <4> QED BY <4>2
    <3>4. g.files = s
      OBVIOUS
    <3> HIDE DEF s, g
    <3>5. Shares({g}, kept)
      BY <3>2, <3>3, <3>4, FS_Singleton DEF Shares
    <3> QED BY <1>c, <3>1, <3>5, FS_Singleton
  <2>2. CASE PlanGroups
    <3> DEFINE k == Max({Cardinality(groups'), 1})
               limit == Max({MinGroup, MaxContext \div k})
    <3>1. groups' = GroupFilesBySubsystem(kept)
          /\ limits' = [total |-> limit, file |-> Min({MaxFileContext, limit})]
      BY <2>2 DEF PlanGroups
    <3>2. Shares(groups', kept) /\ Cardinality(groups') <= MaxGroups
      BY <1>1, <3>1, GroupingShares
    <3>3. Cardinality(groups') \in Nat
      BY <3>2, FS_CardinalityType DEF Shares
    <3>4. k \in Nat /\ k >= 1
      <4>1. k = IF Cardinality(groups') >= 1 THEN Cardinality(groups') ELSE 1
        BY <3>3, MaxMin
      <4> QED BY <3>3, <4>1
    <3> HIDE DEF k
    <3>5. MaxContext \div k \in Nat
      BY <1>c, <3>4
    <3>6. limit \in Nat
      <4>1. limit = IF MinGroup >= MaxContext \div k THEN MinGroup ELSE MaxContext \div k
        BY <1>c, <3>5, MaxMin
      <4> QED BY <1>c, <3>5, <4>1
    <3> HIDE DEF limit
    <3>7. Min({MaxFileContext, limit}) = IF MaxFileContext <= limit THEN MaxFileContext ELSE limit
      BY <1>c, <3>6, MaxMin
    <3>8. Min({MaxFileContext, limit}) \in Nat
      BY <1>c, <3>6, <3>7
    <3> QED BY <3>1, <3>2, <3>6, <3>8
  <2> QED BY <2>1, <2>2
<1>4. Unopened' = kept
  BY <1>3 DEF Unopened, Shares
<1>5. Rest' = {}
  BY <1>2 DEF Rest, NotYet
<1>6. IsInjective(<<>>)
  BY DEF IsInjective
<1>7. Cardinality(groups') \in Nat
  BY <1>3, FS_CardinalityType DEF Shares
<1>8. SharedOut'
  BY <1>2, <1>3, <1>4, <1>5, <1>6, <1>7, <1>c DEF SharedOut, NotYet
<1>9. CtxTypes'
  BY <1>2, <1>3 DEF CtxInv, CtxTypes
<1> QED BY <1>2, <1>8, <1>9 DEF CtxInv, NotYet

\* The request of a group is opened.
LEMMA OpenKeeps ==
  ASSUME CtxInv, OpenRequest, kept' = kept
  PROVE  CtxInv'
<1>1. PICK g \in groups : groups' = groups \ {g} /\ request' = g.files
  BY DEF OpenRequest
<1>2. /\ phase = "request" /\ phase' = "files" /\ at' = 0 /\ budget' = limits.total
      /\ UNCHANGED <<made, limits, shown, left>>
  BY DEF OpenRequest
<1>3. SharedOut /\ Rest = {}
  BY <1>2, NothingOpen DEF CtxInv, Building
<1>4. /\ IsFiniteSet(groups) /\ Unopened \subseteq kept
      /\ g.files \in Seq(Unopened) /\ IsInjective(g.files) /\ g.files # <<>>
  BY <1>3 DEF SharedOut, Shares
<1>5. request' \in Seq(kept) /\ Len(request') \in Nat
  <2>1. g.files \in Seq(kept)
    BY <1>4, SeqMonotonic
  <2> QED BY <1>1, <2>1
<1>6. Rest' = Range(g.files)
  <2>1. DOMAIN g.files = 1..Len(g.files) /\ at' + 1 = 1
    BY <1>2, <1>4
  <2> QED BY <1>1, <2>1 DEF Rest, Range
<1>7. \A h \in groups \ {g} : Range(g.files) \cap Range(h.files) = {}
  BY <1>3 DEF SharedOut, Shares
<1>8. Unopened' \cap Range(g.files) = {} /\ Unopened = Unopened' \cup Range(g.files)
  <2>1. Unopened' = UNION {Range(h.files) : h \in groups \ {g}}
    BY <1>1 DEF Unopened
  <2>2. Unopened' \cap Range(g.files) = {}
    BY <1>7, <2>1
  <2>3. Unopened = Unopened' \cup Range(g.files)
    BY <2>1 DEF Unopened
  <2> QED BY <2>2, <2>3
<1>9. Shares(groups', Unopened')
  <2>1. IsFiniteSet(groups')
    BY <1>1, <1>4, FS_RemoveElement
  <2>2. ASSUME NEW h \in groups'
        PROVE  h.files \in Seq(Unopened') /\ IsInjective(h.files) /\ h.files # <<>>
    <3>1. h.files \in Seq(Unopened) /\ IsInjective(h.files) /\ h.files # <<>>
      BY <1>1, <1>3 DEF SharedOut, Shares
    <3>2. h.files \in Seq(Range(h.files)) /\ Range(h.files) \subseteq Unopened'
      BY <3>1 DEF Range, Unopened
    <3> QED BY <3>1, <3>2, SeqMonotonic
  <2>3. \A h, k \in groups' : h # k => Range(h.files) \cap Range(k.files) = {}
    BY <1>1, <1>3 DEF SharedOut, Shares
  <2> QED BY <2>1, <2>2, <2>3 DEF Shares, Unopened
<1>10. Cardinality(groups') = Cardinality(groups) - 1 /\ Cardinality(groups) \in Nat
  BY <1>1, <1>4, FS_RemoveElement, FS_CardinalityType
<1>11. made' + Cardinality(groups') + 1 <= MaxGroups
  BY <1>2, <1>3, <1>10, ContextAssumption DEF SharedOut, CtxInv, CtxTypes
<1>12. SharedOut'
  <2>1. kept' = shown' \cup left' \cup Rest' \cup Unopened'
    BY <1>2, <1>3, <1>6, <1>8 DEF SharedOut
  <2>2. /\ (shown \cap left = {})' /\ (shown \cap Rest = {})' /\ (shown \cap Unopened = {})'
        /\ (left \cap Rest = {})' /\ (left \cap Unopened = {})' /\ (Rest \cap Unopened = {})'
    BY <1>2, <1>3, <1>6, <1>8 DEF SharedOut
  <2>3. at' \in 0..Len(request') /\ IsInjective(request') /\ request' \in Seq(kept')
    BY <1>1, <1>2, <1>4, <1>5
  <2> QED BY <1>2, <1>9, <1>11, <2>1, <2>2, <2>3 DEF SharedOut
<1>13. CtxTypes'
  BY <1>2, MostFacts DEF CtxInv, CtxTypes
<1>14. WithinShares'
  <2>1. limits.total \in Nat /\ Overhead \in Nat /\ Len(request') \in Nat /\ Len(request') >= 1
    BY <1>1, <1>4, <1>5, MostFacts DEF CtxInv, CtxTypes
  <2>2. EvenShare' \in Nat
    BY <1>2, <2>1 DEF EvenShare
  <2>3. at' * (EvenShare' + Overhead) = 0
    <3> DEFINE e == EvenShare'
    <3>1. e \in Nat
      BY <2>2
    <3> HIDE DEF e
    <3>2. e + Overhead \in Nat
      BY <2>1, <3>1
    <3>3. 0 * (e + Overhead) = 0
      BY <3>2, TimesFacts
    <3> QED BY <1>2, <3>3 DEF e
  <2> QED BY <1>2, <2>1, <2>3 DEF WithinShares
<1> QED BY <1>1, <1>2, <1>4, <1>12, <1>13, <1>14 DEF CtxInv

\* The file that is added next.
LEMMA NextOfRequest ==
  ASSUME SelInv, CtxInv, phase = "files", at < Len(request)
  PROVE  /\ at + 1 \in 1..Len(request) /\ at \in Nat /\ Len(request) \in Nat
         /\ request[at + 1] \in kept /\ request[at + 1] \in Rest
         /\ {request[i] : i \in ((at + 1) + 1)..Len(request)} = Rest \ {request[at + 1]}
<1>1. request \in Seq(kept) /\ IsInjective(request) /\ at \in 0..Len(request)
  BY DEF CtxInv, Building, SharedOut
<1>2. Len(request) \in Nat /\ DOMAIN request = 1..Len(request) /\ at \in Nat
  BY <1>1
<1>3. at + 1 \in 1..Len(request) /\ at + 1 \in (at + 1)..Len(request)
  BY <1>2
<1>4. request[at + 1] \in kept /\ request[at + 1] \in Rest
  BY <1>1, <1>3 DEF Rest
<1>5. \A i \in (at + 1)..Len(request) :
        i \in 1..Len(request) /\ (i = at + 1 \/ i \in ((at + 1) + 1)..Len(request))
  BY <1>2
<1>6. \A i \in ((at + 1) + 1)..Len(request) :
        i \in 1..Len(request) /\ i # at + 1 /\ i \in (at + 1)..Len(request)
  BY <1>2
<1>7. \A i, j \in 1..Len(request) : request[i] = request[j] => i = j
  BY <1>1, <1>2 DEF IsInjective
<1> DEFINE later == {request[i] : i \in ((at + 1) + 1)..Len(request)}
<1>8. later \subseteq Rest \ {request[at + 1]}
  BY <1>3, <1>6, <1>7 DEF Rest
<1>9. Rest \ {request[at + 1]} \subseteq later
  BY <1>5 DEF Rest
<1> QED BY <1>2, <1>3, <1>4, <1>8, <1>9

\* An even split of the budget.
LEMMA ShareFacts ==
  ASSUME CtxTypes, NEW n \in Nat, n >= 1
  PROVE  /\ Share(n) \in Nat /\ Share(n) > 0
         /\ limits.total \div n \in Nat /\ n * (limits.total \div n) <= limits.total
         /\ limits.total \div n >= MinUseful => Share(n) <= limits.total \div n
<1> DEFINE q == limits.total \div n
           m == Min({limits.file, q})
<1>1. limits.total \in Nat /\ limits.file \in Nat /\ MinUseful \in Nat /\ MinUseful > 0
  BY ContextAssumption DEF CtxTypes
<1>2. q \in Nat /\ n * q <= limits.total
  BY <1>1
<1>3. Max({n, 1}) = n
  <2>1. Max({n, 1}) = IF n >= 1 THEN n ELSE 1
    BY MaxMin
  <2> QED BY <2>1
<1>4. Share(n) = Max({MinUseful, m})
  BY <1>3 DEF Share
<1> HIDE DEF q
<1>5. m \in Nat /\ m <= q
  <2>1. m = IF limits.file <= q THEN limits.file ELSE q
    <3>1. limits.file \in Int /\ q \in Int
      BY <1>1, <1>2
    <3> QED BY <3>1, MaxMin
  <2> QED BY <1>1, <1>2, <2>1
<1> HIDE DEF m
<1>6. Share(n) = IF MinUseful >= m THEN MinUseful ELSE m
  BY <1>1, <1>4, <1>5, MaxMin
<1>7. Share(n) \in Nat /\ Share(n) > 0 /\ (q >= MinUseful => Share(n) <= q)
  BY <1>1, <1>2, <1>5, <1>6
<1> QED BY <1>2, <1>7 DEF q

\* The next file of a request.
LEMMA AddKeeps ==
  ASSUME SelInv, CtxInv, AddFile, kept' = kept
  PROVE  CtxInv'
<1> DEFINE n == Len(request)
           f == request[at + 1]
           b == Min({Share(n), budget})
<1>1. /\ phase = "files" /\ phase' = "files" /\ at < n /\ budget > 0 /\ at' = at + 1
      /\ budget' = budget - FileSize(f, b) /\ shown' = shown \cup {f}
      /\ UNCHANGED <<groups, made, limits, request, left>>
  BY DEF AddFile
<1>2. /\ at + 1 \in 1..n /\ at \in Nat /\ n \in Nat /\ f \in kept /\ f \in Rest
      /\ {request[i] : i \in ((at + 1) + 1)..n} = Rest \ {f}
  BY <1>1, NextOfRequest
<1>3. SharedOut
  BY <1>1 DEF CtxInv, Building
<1>4. Rest' = Rest \ {f} /\ Unopened' = Unopened
  BY <1>1, <1>2 DEF Rest, Unopened
<1>5. CtxTypes /\ budget \in Nat /\ limits.file \in Nat
  BY <1>1 DEF CtxInv, CtxTypes
<1>6. Share(n) \in Nat /\ limits.total \div n \in Nat
      /\ (limits.total \div n >= MinUseful => Share(n) <= limits.total \div n)
  <2>1. n >= 1
    BY <1>2
  <2> QED BY <1>2, <1>5, <2>1, ShareFacts
<1> HIDE DEF f, n
<1>7. b \in Nat /\ b <= budget /\ b <= Share(n)
  <2>1. b = IF Share(n) <= budget THEN Share(n) ELSE budget
    <3>1. Share(n) \in Int /\ budget \in Int
      BY <1>5, <1>6
    <3> QED BY <3>1, MaxMin
  <2> QED BY <1>5, <1>6, <2>1
<1> HIDE DEF b
<1>8. f.size \in Nat /\ f.size <= Most /\ IsBlocks(f.upto)
  BY <1>2, KeptSize
<1>9. /\ FileSize(f, b) \in Int
      /\ FileSize(f, b) <= f.size \/ FileSize(f, b) <= b + Overhead
  BY <1>5, <1>7, <1>8, FileSizeBound
<1>10. CtxTypes'
  <2>1. budget' \in Int /\ budget' >= -Most
    BY <1>1, <1>5, <1>7, <1>8, <1>9, MostFacts
  <2> QED BY <1>1, <1>5, <2>1 DEF CtxTypes
<1>11. SharedOut'
  <2>1. f \notin shown /\ f \notin left /\ f \notin Unopened
    BY <1>2, <1>3 DEF SharedOut
  <2>2. kept' = shown' \cup left' \cup Rest' \cup Unopened'
    BY <1>1, <1>2, <1>3, <1>4 DEF SharedOut
  <2>3. /\ (shown \cap left = {})' /\ (shown \cap Rest = {})' /\ (shown \cap Unopened = {})'
        /\ (left \cap Rest = {})' /\ (left \cap Unopened = {})' /\ (Rest \cap Unopened = {})'
    BY <1>1, <1>3, <1>4, <2>1 DEF SharedOut
  <2>4. at' \in 0..Len(request') /\ IsInjective(request') /\ request' \in Seq(kept')
    BY <1>1, <1>2, <1>3 DEF SharedOut, n
  <2>5. Shares(groups', Unopened')
    BY <1>1, <1>3, <1>4 DEF SharedOut
  <2>6. made' + Cardinality(groups') + 1 <= MaxGroups
    BY <1>1, <1>3 DEF SharedOut
  <2> QED BY <1>1, <2>2, <2>3, <2>4, <2>5, <2>6 DEF SharedOut
<1>12. WithinShares'
  <2> SUFFICES ASSUME OverShare' = {}, EvenShare' >= MinUseful
               PROVE  budget' >= limits.total - (at + 1) * (EvenShare + Overhead)
    BY <1>1 DEF WithinShares, EvenShare
  <2>1. EvenShare' = EvenShare /\ EvenShare = limits.total \div n /\ EvenShare \in Nat
    BY <1>1, <1>6 DEF EvenShare, n
  <2>2. \A i \in 1..(at + 1) : ~(request[i].size > EvenShare)
    BY <1>1, <2>1 DEF OverShare
  <2>3. OverShare = {}
    <3>1. \A i \in 1..at : i \in 1..(at + 1)
      BY <1>2
    <3> QED BY <2>2, <3>1 DEF OverShare
  <2>4. ~(f.size > EvenShare)
    <3>1. at + 1 \in 1..(at + 1)
      BY <1>2
    <3> QED BY <2>2, <3>1 DEF f
  <2>5. budget >= limits.total - at * (EvenShare + Overhead)
    BY <1>1, <2>1, <2>3 DEF CtxInv, WithinShares
  <2>6. Share(n) <= EvenShare
    BY <1>6, <2>1
  <2> DEFINE E == EvenShare + Overhead
             p == at * E
  <2>7. E \in Nat /\ FileSize(f, b) <= E
    BY <1>6, <1>7, <1>8, <1>9, <2>1, <2>4, <2>6, MostFacts
  <2> HIDE DEF E
  <2>8. p \in Nat /\ (at + 1) * E = p + E
    BY <1>2, <2>7, TimesFacts
  <2>9. limits.total \in Nat /\ budget >= limits.total - p
    BY <1>5, <2>5 DEF CtxTypes, E
  <2> HIDE DEF p
  <2>10. budget - FileSize(f, b) >= limits.total - (p + E)
    BY <1>5, <1>9, <2>7, <2>8, <2>9
  <2> QED BY <1>1, <2>8, <2>10 DEF E
<1> QED BY <1>1, <1>10, <1>11, <1>12 DEF CtxInv

\* The loop of a request ends.
LEMMA CloseKeeps ==
  ASSUME CtxInv, CloseRequest, kept' = kept
  PROVE  CtxInv'
<1>1. /\ phase = "files" /\ phase' = "request" /\ request' = <<>> /\ at' = 0
      /\ left' = left \cup Rest /\ made' = made + 1
      /\ UNCHANGED <<groups, limits, budget, shown>>
  BY DEF CloseRequest, Rest
<1>2. SharedOut /\ Unopened' = Unopened
  BY <1>1 DEF CtxInv, Building, Unopened
<1>3. Rest' = {}
  BY <1>1 DEF Rest
<1>4. CtxTypes'
  BY <1>1 DEF CtxInv, CtxTypes
<1>5. SharedOut'
  <2>1. kept' = shown' \cup left' \cup Rest' \cup Unopened'
    BY <1>1, <1>2, <1>3 DEF SharedOut
  <2>2. /\ (shown \cap left = {})' /\ (shown \cap Rest = {})' /\ (shown \cap Unopened = {})'
        /\ (left \cap Rest = {})' /\ (left \cap Unopened = {})' /\ (Rest \cap Unopened = {})'
    BY <1>1, <1>2, <1>3 DEF SharedOut
  <2>3. at' \in 0..Len(request') /\ IsInjective(request') /\ request' \in Seq(kept')
    BY <1>1 DEF IsInjective
  <2>4. made' + Cardinality(groups') + 0 <= MaxGroups
    <3>1. Cardinality(groups) \in Nat
      BY <1>2, FS_CardinalityType DEF SharedOut, Shares
    <3>2. made + Cardinality(groups) + 1 <= MaxGroups /\ made \in Nat /\ MaxGroups \in Nat
      BY <1>1, <1>2, ContextAssumption DEF SharedOut, CtxInv, CtxTypes
    <3> QED BY <1>1, <3>1, <3>2
  <2> QED BY <1>1, <1>2, <2>1, <2>2, <2>3, <2>4 DEF SharedOut
<1> QED BY <1>1, <1>4, <1>5 DEF CtxInv

\* A new attempt, or the end of one.
LEMMA ForgetContext ==
  ASSUME Forget
  PROVE  CtxInv'
<1>1. NoLimits.total = 0 /\ NoLimits.file = 0
  BY DEF NoLimits
<1>2. CtxTypes'
  BY <1>1, MostFacts DEF Forget, CtxTypes
<1>3. NotYet' /\ phase' = "idle"
  BY DEF Forget, NotYet
<1> QED BY <1>2, <1>3 DEF CtxInv, Building

\* A step before the requests.
LEMMA NotYetKeeps ==
  ASSUME CtxInv, UNCHANGED contextVars,
         phase \in {"idle", "listed", "cap", "take", "selected"},
         phase' \in {"idle", "listed", "cap", "take", "selected", "plan", "done"},
         phase' = "plan" => kept' # {}
  PROVE  CtxInv'
<1>1. UNCHANGED <<groups, made, limits, request, at, budget, shown, left>>
  BY DEF contextVars
<1>2. CtxTypes' /\ NotYet'
  BY <1>1 DEF CtxInv, CtxTypes, NotYet
<1> QED BY <1>2 DEF CtxInv, Building

\* One step per action.
LEMMA ContextInvStep ==
  ASSUME MInv, CtxInv, [Next]_vars
  PROVE  CtxInv'
<1>0. SelInv
  BY DEF MInv
<1>1. CASE UNCHANGED vars
  <2>1. /\ UNCHANGED <<groups, made, limits, request, at, budget, shown, left>>
        /\ phase' = phase /\ kept' = kept
    BY <1>1 DEF vars, selectionVars, contextVars
  <2>2. Rest' = Rest /\ Unopened' = Unopened /\ OverShare' = OverShare /\ EvenShare' = EvenShare
    BY <2>1 DEF Rest, Unopened, OverShare, EvenShare
  <2> QED BY <2>1, <2>2 DEF CtxInv, CtxTypes, NotYet, Building, SharedOut, WithinShares
<1>2. CASE Finished
  BY <1>1, <1>2 DEF Finished
<1>3. CASE Push
  <2>1. UNCHANGED contextVars /\ phase = "idle" /\ phase' = "idle"
    BY <1>3 DEF Push, selectionVars
  <2> QED BY <2>1, NotYetKeeps
<1>4. CASE Begin
  <2>1. UNCHANGED contextVars /\ phase = "idle" /\ phase' = "listed"
    BY <1>4 DEF Begin
  <2> QED BY <2>1, NotYetKeeps
<1>5. CASE Select
  <2>1. UNCHANGED contextVars /\ phase \in {"listed", "cap", "take"} /\ phase' \in {"cap", "take", "selected"}
    BY <1>5 DEF Select, SelectionStep, Split, Cap, Take, Selected
  <2> QED BY <2>1, NotYetKeeps
<1>6. CASE NothingToAnalyze
  <2>1. UNCHANGED contextVars /\ phase = "selected" /\ phase' = "done"
    BY <1>6 DEF NothingToAnalyze
  <2> QED BY <2>1, NotYetKeeps
<1>7. CASE UpdateRepoMap
  <2>1. UNCHANGED contextVars /\ phase = "selected" /\ phase' = "plan" /\ kept' = kept /\ kept # {}
    BY <1>7 DEF UpdateRepoMap
  <2> QED BY <2>1, NotYetKeeps
<1>8. CASE BuildContext
  <2>1. kept' = kept /\ (PlanSingle \/ PlanGroups \/ OpenRequest \/ AddFile \/ CloseRequest)
    BY <1>8 DEF BuildContext, ContextStep
  <2> QED BY <1>0, <2>1, PlanKeeps, OpenKeeps, AddKeeps, CloseKeeps
<1>9. CASE Prepared
  <2>1. UNCHANGED <<groups, made, limits, request, at, budget, shown, left>> /\ phase' = "done"
    BY <1>9 DEF Prepared, contextVars
  <2>2. CtxTypes'
    BY <2>1 DEF CtxInv, CtxTypes
  <2> QED BY <2>1, <2>2 DEF CtxInv, Building
<1>10. CASE Settle \/ FailAndRetry \/ FailForGood
  BY <1>10, ForgetContext DEF Settle, FailAndRetry, FailForGood
<1> QED BY <1>1, <1>2, <1>3, <1>4, <1>5, <1>6, <1>7, <1>8, <1>9, <1>10 DEF Next

\* MInv and CtxInv are inductive together.
LEMMA RequestInvariance == Spec => [](MInv /\ CtxInv)
<1>1. Init => CtxInv
  <2> SUFFICES ASSUME Init PROVE CtxInv
    OBVIOUS
  <2>1. NoLimits.total = 0 /\ NoLimits.file = 0
    BY DEF NoLimits
  <2>2. CtxTypes /\ NotYet /\ phase = "idle"
    BY <2>1, MostFacts DEF Init, ContextInit, SelectionInit, CtxTypes, NotYet
  <2> QED BY <2>2 DEF CtxInv, Building
<1>2. MInv /\ CtxInv /\ [Next]_vars => CtxInv'
  BY ContextInvStep
<1> QED BY <1>1, <1>2, PrepareInvariance, PTL DEF Spec

-----------------------------------------------------------------------------
(* Counting the files of the requests.                                     *)

\* The elements of a sequence without repetition from place k + 1 on.
LEMMA CountLast ==
  ASSUME NEW T, NEW s \in Seq(T), IsInjective(s), NEW k \in 0..Len(s)
  PROVE  LET L == {s[i] : i \in (k + 1)..Len(s)}
         IN  IsFiniteSet(L) /\ Cardinality(L) = Len(s) - k
<1> DEFINE D == (k + 1)..Len(s)
           L == {s[i] : i \in D}
           b == [i \in D |-> s[i]]
<1>1. Len(s) \in Nat /\ DOMAIN s = 1..Len(s) /\ k \in Nat /\ k <= Len(s)
  OBVIOUS
<1>2. \A i \in D : i \in DOMAIN s
  BY <1>1
<1>3. IsFiniteSet(D) /\ Cardinality(D) = Len(s) - k
  <2>1. k + 1 \in Int /\ Len(s) \in Int
    BY <1>1
  <2>2. IsFiniteSet(D) /\ Cardinality(D) = IF k + 1 > Len(s) THEN 0 ELSE Len(s) - (k + 1) + 1
    BY <2>1, FS_Interval
  <2> DEFINE c == Cardinality(D)
             n == Len(s)
  <2>3. n \in Nat /\ k \in Nat /\ k <= n /\ c = IF k + 1 > n THEN 0 ELSE n - (k + 1) + 1
    BY <1>1, <2>2
  <2> HIDE DEF D, c, n
  <2>4. c = n - k
    BY <2>3
  <2> QED BY <2>2, <2>4 DEF c, n
<1> HIDE DEF D
<1>4. b \in Bijection(D, L)
  <2>1. \A i, j \in D : s[i] = s[j] => i = j
    BY <1>2 DEF IsInjective
  <2> QED BY <2>1 DEF Bijection, Injection, Surjection, IsInjective
<1>5. ExistsBijection(D, L)
  BY <1>4 DEF ExistsBijection
<1> HIDE DEF L
<1>6. IsFiniteSet(L) /\ Cardinality(L) = Cardinality(D)
  BY <1>3, <1>5, FS_Bijection
<1> QED BY <1>3, <1>6 DEF L, D

\* The sum of the lengths of groups.
Lens(gs) == MapThenSumSet(LAMBDA g : Len(g.files), gs)

IsLens(h, U) ==
  h = [s \in SUBSET U |->
         IF s = {} THEN 0
         ELSE LET x == CHOOSE x \in s : TRUE IN Len(x.files) + h[s \ {x}]]

\* The recursion of MapThenSumSet, one step of it.
LEMMA LensUnfolds ==
  ASSUME NEW h, NEW U, IsLens(h, U), NEW s \in SUBSET U
  PROVE  /\ s = {} => h[s] = 0
         /\ s # {} => Some(s) \in s /\ h[s] = Len(Some(s).files) + h[s \ {Some(s)}]
BY Zenon DEF IsLens, Some

\* There is one such function at most.
LEMMA LensUnique ==
  ASSUME NEW U, IsFiniteSet(U), NEW g, NEW h, IsLens(g, U), IsLens(h, U), NEW s \in SUBSET U
  PROVE  g[s] = h[s]
<1> DEFINE B == {t \in SUBSET U : g[t] # h[t]}
<1> SUFFICES ASSUME B # {} PROVE FALSE
  OBVIOUS
<1>0. B \subseteq SUBSET U
  OBVIOUS
<1>1. PICK m \in B : \A t \in B : t \subseteq m => t = m
  <2> HIDE DEF B
  <2> QED BY <1>0, LeastSet
<1>2. m # {}
  BY <1>1, LensUnfolds, Zenon
<1> DEFINE n == m \ {Some(m)}
<1>3. Some(m) \in m /\ g[m] = Len(Some(m).files) + g[n] /\ h[m] = Len(Some(m).files) + h[n]
  BY <1>1, <1>2, LensUnfolds, Zenon
<1>4. n \in SUBSET U /\ n \subseteq m /\ n # m
  BY <1>1, <1>3
<1>5. g[n] = h[n]
  BY <1>1, <1>4
<1> QED BY <1>1, <1>3, <1>5

\* Groups that share files out have as many places as there are files.
LEMMA LensCount ==
  ASSUME NEW gs, NEW files, Shares(gs, files), IsFiniteSet(files)
  PROVE  Lens(gs) = Cardinality(files)
<1> DEFINE Of(s) == UNION {Range(g.files) : g \in s}
           h == [s \in SUBSET gs |-> Cardinality(Of(s))]
<1>1. \A s \in SUBSET gs : IsFiniteSet(Of(s)) /\ Cardinality(Of(s)) \in Nat
  <2> SUFFICES ASSUME NEW s \in SUBSET gs PROVE IsFiniteSet(Of(s)) /\ Cardinality(Of(s)) \in Nat
    OBVIOUS
  <2>1. Of(s) \in SUBSET files
    BY DEF Shares
  <2> HIDE DEF Of
  <2> QED BY <2>1, FS_Subset, FS_CardinalityType
<1>2. \A g \in gs : IsFiniteSet(Range(g.files)) /\ Cardinality(Range(g.files)) = Len(g.files)
  <2> SUFFICES ASSUME NEW g \in gs
               PROVE  IsFiniteSet(Range(g.files)) /\ Cardinality(Range(g.files)) = Len(g.files)
    OBVIOUS
  <2> DEFINE s == g.files
  <2>1. s \in Seq(files) /\ IsInjective(s) /\ Len(s) \in Nat /\ DOMAIN s = 1..Len(s)
    BY DEF Shares
  <2> HIDE DEF s
  <2>2. 0 \in 0..Len(s) /\ Len(s) - 0 = Len(s) /\ (0 + 1)..Len(s) = 1..Len(s)
    BY <2>1
  <2>3. Range(s) = {s[i] : i \in (0 + 1)..Len(s)}
    BY <2>1, <2>2 DEF Range
  <2>4. IsFiniteSet(Range(s)) /\ Cardinality(Range(s)) = Len(s)
    BY <2>1, <2>2, <2>3, CountLast
  <2> QED BY <2>4 DEF s
<1>3. ASSUME NEW s \in SUBSET gs, NEW x \in s
      PROVE  Cardinality(Of(s)) = Len(x.files) + Cardinality(Of(s \ {x}))
  <2> DEFINE u == s \ {x}
  <2>1. Of(s) = Range(x.files) \cup Of(u)
    OBVIOUS
  <2>2. Range(x.files) \cap Of(u) = {}
    <3> SUFFICES ASSUME NEW g \in u PROVE Range(x.files) \cap Range(g.files) = {}
      OBVIOUS
    <3>1. x \in gs /\ g \in gs /\ x # g
      OBVIOUS
    <3> QED BY <3>1 DEF Shares
  <2>3. u \in SUBSET gs /\ x \in gs
    OBVIOUS
  <2> HIDE DEF Of, u
  <2>4. /\ IsFiniteSet(Of(u)) /\ Cardinality(Of(u)) \in Nat
        /\ IsFiniteSet(Range(x.files)) /\ Cardinality(Range(x.files)) = Len(x.files)
        /\ Cardinality(Range(x.files)) \in Nat
    BY <1>1, <1>2, <2>3, FS_CardinalityType
  <2>5. Cardinality(Range(x.files) \cup Of(u)) =
          Cardinality(Range(x.files)) + Cardinality(Of(u)) - Cardinality(Range(x.files) \cap Of(u))
    BY <2>4, FS_Union
  <2>6. Cardinality(Range(x.files) \cap Of(u)) = 0
    BY <2>2, FS_EmptySet
  <2> QED BY <2>1, <2>4, <2>5, <2>6 DEF u
<1>4. Of({}) = {}
  OBVIOUS
<1>5. Of(gs) = files
  BY DEF Shares
<1> HIDE DEF Of
<1>6. ASSUME NEW s \in SUBSET gs
      PROVE  h[s] = IF s = {} THEN 0
                    ELSE LET x == CHOOSE x \in s : TRUE IN Len(x.files) + h[s \ {x}]
  <2>1. CASE s = {}
    BY <1>4, <2>1, FS_EmptySet
  <2>2. CASE s # {}
    <3> DEFINE x == CHOOSE x \in s : TRUE
    <3>1. x \in s /\ s \ {x} \in SUBSET gs
      BY <2>2
    <3> HIDE DEF x
    <3>2. Cardinality(Of(s)) = Len(x.files) + Cardinality(Of(s \ {x}))
      BY <1>3, <3>1
    <3>3. h[s] = Len(x.files) + h[s \ {x}]
      BY <3>1, <3>2
    <3> HIDE DEF h
    <3> QED BY <2>2, <3>3 DEF x
  <2> QED BY <2>1, <2>2
<1>7. h = [s \in SUBSET gs |-> h[s]]
  OBVIOUS
<1>8. h[gs] = Cardinality(files)
  BY <1>5
<1> HIDE DEF h
<1>9. IsLens(h, gs)
  BY <1>6, <1>7, Zenon DEF IsLens
<1>10. \E g : IsLens(g, gs) /\ Lens(gs) = g[gs]
  <2>1. \E g : IsLens(g, gs)
    BY <1>9
  <2> QED BY <2>1, Zenon DEF Lens, MapThenSumSet, MapThenFoldSet, IsLens
<1>11. PICK g : IsLens(g, gs) /\ Lens(gs) = g[gs]
  BY <1>10
<1>12. IsFiniteSet(gs)
  BY DEF Shares
<1>13. g[gs] = h[gs]
  BY <1>9, <1>11, <1>12, LensUnique
<1> QED BY <1>8, <1>11, <1>13

\* Two finite sets without a common element.
LEMMA DisjointUnion ==
  ASSUME NEW A, NEW B, IsFiniteSet(A), IsFiniteSet(B), A \cap B = {}
  PROVE  /\ IsFiniteSet(A \cup B) /\ Cardinality(A \cup B) = Cardinality(A) + Cardinality(B)
         /\ Cardinality(A) \in Nat /\ Cardinality(B) \in Nat
<1>1. Cardinality(A) \in Nat /\ Cardinality(B) \in Nat
  BY FS_CardinalityType
<1>2. IsFiniteSet(A \cup B) /\ Cardinality(A \cup B) = Cardinality(A) + Cardinality(B) - Cardinality(A \cap B)
  BY FS_Union
<1>3. Cardinality(A \cap B) = 0
  BY FS_EmptySet
<1> QED BY <1>1, <1>2, <1>3

\* No file is lost or repeated.
LEMMA SharedOutCounts ==
  ASSUME SelInv, CtxInv
  PROVE  EveryFileInOneRequest
<1> SUFFICES ASSUME Building
             PROVE  /\ kept = shown \cup left \cup Rest \cup Unopened
                    /\ Cardinality(kept) = Cardinality(shown) + Cardinality(left) + (Len(request) - at)
                                           + Lens(groups)
                    /\ \A g \in groups : g.files # <<>>
                    /\ made + Cardinality(groups) + (IF phase = "files" THEN 1 ELSE 0) <= MaxGroups
  BY DEF EveryFileInOneRequest, Rest, Unopened, Lens
<1>1. SharedOut
  BY DEF CtxInv
<1>2. kept = shown \cup left \cup Rest \cup Unopened
  BY <1>1 DEF SharedOut
<1>3. IsFiniteSet(kept)
  BY DEF SelInv, SelTypes
<1>4. IsFiniteSet(shown) /\ IsFiniteSet(left) /\ IsFiniteSet(Unopened)
  BY <1>2, <1>3, FS_Subset
<1>5. IsFiniteSet(Rest) /\ Cardinality(Rest) = Len(request) - at
  BY <1>1, CountLast DEF SharedOut, Rest
<1>6. Lens(groups) = Cardinality(Unopened)
  BY <1>1, <1>4, LensCount DEF SharedOut
<1> DEFINE A == shown \cup left
           B == A \cup Rest
<1>7. IsFiniteSet(A) /\ Cardinality(A) = Cardinality(shown) + Cardinality(left)
      /\ Cardinality(shown) \in Nat /\ Cardinality(left) \in Nat
  BY <1>1, <1>4, DisjointUnion DEF SharedOut
<1>8. IsFiniteSet(B) /\ Cardinality(B) = Cardinality(A) + Cardinality(Rest) /\ Cardinality(Rest) \in Nat
  <2>1. A \cap Rest = {}
    BY <1>1 DEF SharedOut
  <2> HIDE DEF A
  <2> QED BY <1>5, <1>7, <2>1, DisjointUnion
<1>9. /\ Cardinality(B \cup Unopened) = Cardinality(B) + Cardinality(Unopened)
      /\ Cardinality(Unopened) \in Nat
  <2>1. B \cap Unopened = {}
    BY <1>1 DEF SharedOut
  <2> HIDE DEF B
  <2> QED BY <1>4, <1>8, <2>1, DisjointUnion
<1>10. kept = B \cup Unopened
  BY <1>2
<1> HIDE DEF A, B
<1>11. Cardinality(kept) = Cardinality(shown) + Cardinality(left) + (Len(request) - at) + Lens(groups)
  BY <1>5, <1>6, <1>7, <1>8, <1>9, <1>10
<1>12. \A g \in groups : g.files # <<>>
  BY <1>1 DEF SharedOut, Shares
<1>13. made + Cardinality(groups) + (IF phase = "files" THEN 1 ELSE 0) <= MaxGroups
  BY <1>1 DEF SharedOut
<1> QED BY <1>2, <1>11, <1>12, <1>13

\* The split is even among files that keep to it.
LEMMA SharesSuffice ==
  ASSUME SelInv, CtxInv
  PROVE  EvenSplitHolds
<1> DEFINE n == Len(request)
           e == EvenShare
           t == limits.total
<1> SUFFICES ASSUME Starves, OverShare = {}, ~(e < MinUseful), ~((n - 1) * Overhead >= e)
             PROVE  FALSE
  BY DEF EvenSplitHolds
<1>1. phase = "files" /\ budget <= 0 /\ at < n
  BY DEF Starves
<1>2. at + 1 \in 1..n /\ at \in Nat /\ n \in Nat
  BY <1>1, NextOfRequest
<1>3. CtxTypes /\ t \in Nat /\ budget \in Int /\ Overhead \in Nat /\ MinUseful \in Nat
  BY MostFacts, ContextAssumption DEF CtxInv, CtxTypes
<1>4. e \in Nat /\ n * e <= t
  <2>1. n >= 1
    BY <1>2
  <2> QED BY <1>2, <1>3, <2>1, ShareFacts DEF EvenShare
<1>5. budget >= t - at * (e + Overhead)
  BY <1>1, <1>3, <1>4 DEF CtxInv, WithinShares
<1> HIDE DEF n, e, t
<1> DEFINE m == n - 1
<1>6. m \in Nat /\ m - at \in Nat /\ n = m + 1
  BY <1>1, <1>2
<1> HIDE DEF m
<1>7. m * (e + Overhead) = m * e + m * Overhead /\ n * e = m * e + e
  BY <1>3, <1>4, <1>6
<1>8. m * (e + Overhead) = at * (e + Overhead) + (m - at) * (e + Overhead)
  BY <1>2, <1>3, <1>4, <1>6
<1>9. /\ m * e \in Nat /\ m * Overhead \in Nat /\ m * (e + Overhead) \in Nat
      /\ at * (e + Overhead) \in Nat /\ (m - at) * (e + Overhead) \in Nat
  BY <1>2, <1>3, <1>4, <1>6
<1>10. m * Overhead < e
  BY <1>4, <1>9 DEF m
<1> DEFINE a == m * e
           b == m * Overhead
           c == m * (e + Overhead)
           d == at * (e + Overhead)
           f == (m - at) * (e + Overhead)
<1>11. /\ a \in Nat /\ b \in Nat /\ c \in Nat /\ d \in Nat /\ f \in Nat
       /\ c = a + b /\ a + e <= t /\ c = d + f /\ b < e /\ budget >= t - d
  BY <1>4, <1>5, <1>7, <1>8, <1>9, <1>10
<1> HIDE DEF a, b, c, d, f
<1> QED BY <1>1, <1>3, <1>4, <1>11

-----------------------------------------------------------------------------
(* Theorems.                                                               *)

\* build_diff_result splits, caps and clips: whatever the push and the
\* limits, every change is in exactly one of files, ignored_files and
\* dropped_files.
THEOREM ChangesAreAccountedFor == Spec => []EveryChangeIsAccountedFor
<1>1. MInv => EveryChangeIsAccountedFor
  BY SelInvImplies DEF MInv
<1> QED BY <1>1, PrepareInvariance, PTL

\* Number, length of each and total length of the diffs that build_diff_result
\* returns keep to the limits, for every value of the limits.
THEOREM DiffsAreBounded == Spec => []DiffIsBounded
<1>1. MInv => DiffIsBounded
  BY SelInvImplies DEF MInv
<1> QED BY <1>1, PrepareInvariance, PTL

\* A file is dropped only when the larger changes before it leave no room.
THEOREM DropsAreForWantOfRoom == Spec => []DroppedForWantOfRoom
<1>1. MInv => DroppedForWantOfRoom
  BY SelInvImplies DEF MInv
<1> QED BY <1>1, PrepareInvariance, PTL

\* Limits that have room for one file never make has_analysable_changes false
\* for a push with a change that is not ignored.
THEOREM PushesAreNotEmptied == Spec => []LimitsNeverEmptyAPush
<1>1. MInv => LimitsNeverEmptyAPush
  BY SelInvImplies DEF MInv
<1> QED BY <1>1, PrepareInvariance, PTL

\* The incremental updates of _update_repo_map, for any number of pushes,
\* retried and out of order, leave the map of a full index wherever no push is
\* pending and the path is not ignored or known to be stale.
THEOREM MapStaysFresh == Spec => []MapIsFreshElsewhere
<1>1. ASSUME MInv PROVE MapIsFreshElsewhere
  <2> SUFFICES ASSUME NEW p \in Paths \ (Ignored \cup stale),
                      \A i \in DOMAIN pushes : p \notin Touched(pushes[i])
               PROVE  repoMap[p] = BuildFull(head)[p]
    BY DEF MapIsFreshElsewhere
  <2>1. ~Waiting(pushes, p)
    BY DEF Waiting
  <2> QED BY <1>1, <2>1 DEF MInv, Fresh
<1>2. MInv => MapIsFreshElsewhere
  BY <1>1
<1> QED BY <1>2, PrepareInvariance, PTL

\* A request exceeds its limit by one diff or the marks of one file at most,
\* for every push, every limit and every division of the code into blocks.
THEOREM RequestsAreBounded == Spec => []RequestIsBounded
<1>1. CtxInv => RequestIsBounded
  BY DEF CtxInv, CtxTypes, RequestIsBounded, Most
<1> QED BY <1>1, RequestInvariance, PTL

\* group_files_by_subsystem and the loop of build put every file of a push in
\* exactly one request, and make no more requests than
\* hierarchical_max_groups.
THEOREM FilesAreInOneRequest == Spec => []EveryFileInOneRequest
<1>1. MInv /\ CtxInv => EveryFileInOneRequest
  BY SharedOutCounts DEF MInv
<1> QED BY <1>1, RequestInvariance, PTL

\* A file is left out of its request only behind one whose diff exceeds its
\* share, unless the shares are raised above an even split or the marks
\* outweigh a share.
THEOREM SplitsAreEven == Spec => []EvenSplitHolds
<1>1. MInv /\ CtxInv => EvenSplitHolds
  BY SharesSuffice DEF MInv
<1> QED BY <1>1, RequestInvariance, PTL
=============================================================================
