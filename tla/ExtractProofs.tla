---------------------------- MODULE ExtractProofs ----------------------------
(***************************************************************************)
(* Proofs about unpacking images with any number of layers, entries in any *)
(* order, and tries that break off anywhere.                               *)
(*                                                                         *)
(* For images that are apart from the ignored paths (Apart): what is       *)
(* mounted is never touched (invariant IInv).                              *)
(*                                                                         *)
(* For those that moreover have no directory and link at one path and      *)
(* remove no link (Steady): nothing on disk is in the way but a file where *)
(* a directory is still to come, and in the end the disk has the image and *)
(* nothing else (invariant UInv).                                          *)
(***************************************************************************)
EXTENDS Extract, FileTreeProofs, FiniteSetTheorems

(***************************************************************************)
(* Paths above and at one path lie one above the other.                    *)
(***************************************************************************)
LEMMA PrefixesOrdered ==
    ASSUME NEW p \in Path, NEW q \in Path, NEW r \in Path, HasPrefix(p, q), HasPrefix(p, r)
    PROVE  HasPrefix(q, r) \/ HasPrefix(r, q)
<1>1. CASE p = Root
  BY <1>1 DEF HasPrefix, ParentDirectories
<1>2. CASE p # Root
  BY <1>2, ParentsOrdered DEF HasPrefix
<1> QED
  BY <1>1, <1>2

(***************************************************************************)
(* What is below a path that is not near an ignored one is not either.     *)
(***************************************************************************)
LEMMA NearUp ==
    ASSUME NEW x \in Path, NEW y \in Path, HasPrefix(y, x), ~Near(x)
    PROVE  ~Near(y)
<1>1. ASSUME NEW e \in Ignored, HasPrefix(y, e) PROVE FALSE
  <2>1. e \in Path
    BY ExtractAssumption
  <2>2. HasPrefix(x, e) \/ HasPrefix(e, x)
    BY <1>1, <2>1, PrefixesOrdered
  <2> QED
    BY <2>2 DEF Near, Ignores, childDirInIgnoreList
<1>2. ASSUME NEW e \in Ignored, HasPrefix(e, y) PROVE FALSE
  <2>1. e \in Path
    BY ExtractAssumption
  <2>2. HasPrefix(e, x)
    BY <1>2, <2>1, HasPrefixTransitive
  <2> QED
    BY <2>2 DEF Near, childDirInIgnoreList
<1> QED
  BY <1>1, <1>2 DEF Near, Ignores, childDirInIgnoreList

(***************************************************************************)
(* What is at or below an ignored path is ignored.                         *)
(***************************************************************************)
LEMMA IgnoresBelow ==
    ASSUME NEW x \in Path, NEW y \in Path, HasPrefix(y, x), Ignores(x)
    PROVE  Ignores(y)
BY HasPrefixTransitive DEF Ignores

(***************************************************************************)
(* A path with something appended is below that path.                      *)
(***************************************************************************)
LEMMA ConcatPrefix ==
    ASSUME NEW x \in Path, NEW r \in Seq(STRING), x \o r \in Path
    PROVE  HasPrefix(x \o r, x)
<1> DEFINE y == x \o r
<1>1. x \in Seq(STRING) /\ y \in Seq(STRING) /\ Len(x) \in Nat /\ Len(r) \in Nat
  BY PathAssumption, LenProperties
<1>2. Len(y) = Len(x) + Len(r) /\ \A i \in 1 .. Len(x) : y[i] = x[i]
  BY <1>1, ConcatProperties
<1>3. CASE Len(r) = 0
  <2>1. r = << >>
    BY <1>3, EmptySeq
  <2>2. y = x
    BY <1>1, <2>1, ConcatEmptySeq
  <2> QED
    BY <2>2 DEF HasPrefix
<1>4. CASE Len(r) # 0
  <2> HIDE DEF y
  <2>1. Len(x) \in 0 .. Len(y) - 1 /\ Len(x) \in 0 .. Len(y)
    BY <1>1, <1>2, <1>4
  <2>2. /\ SubSeq(y, 1, Len(x)) \in Seq(STRING) /\ Len(SubSeq(y, 1, Len(x))) = Len(x)
        /\ \A i \in 1 .. Len(x) : SubSeq(y, 1, Len(x))[i] = y[i]
    BY <1>1, <2>1, PrefixSeq
  <2>3. SubSeq(y, 1, Len(x)) = x
    BY <1>1, <1>2, <2>2, SeqEqual
  <2>4. y \in Path
    BY DEF y
  <2>5. SubSeq(y, 1, Len(x)) \in ParentDirectories(y)
    BY <2>1, <2>4, PrefixIsParent
  <2>6. HasPrefix(y, x)
    BY <2>3, <2>5 DEF HasPrefix
  <2> QED
    BY <2>6 DEF y
<1> QED
  BY <1>1, <1>3, <1>4

(***************************************************************************)
(* Above a path with a component appended are the path and its parents.    *)
(***************************************************************************)
LEMMA ParentsOfAppend ==
    ASSUME NEW x \in Path, NEW c \in STRING
    PROVE  /\ Dir(Append(x, c)) = x
           /\ Append(x, c) \in Seq(STRING)
           /\ \A q : q \in ParentDirectories(Append(x, c)) <=> HasPrefix(x, q)
<1> DEFINE y == Append(x, c)
<1>1. x \in Seq(STRING) /\ Len(x) \in Nat
  BY PathAssumption, LenProperties
<1>2. /\ y \in Seq(STRING) /\ Len(y) = Len(x) + 1
      /\ \A i \in 1 .. Len(x) : y[i] = x[i]
  <2>1. Append(x, c) \in Seq(STRING)
    BY <1>1, AppendProperties, Zenon
  <2>2. Len(Append(x, c)) = Len(x) + 1
    BY <1>1, AppendProperties, Zenon
  <2>3. \A i \in 1 .. Len(x) : Append(x, c)[i] = x[i]
    BY <1>1, SMT
  <2> QED
    BY <2>1, <2>2, <2>3
<1> HIDE DEF y
<1>3. \A i \in 0 .. Len(x) : SubSeq(y, 1, i) = SubSeq(x, 1, i)
  <2> TAKE i \in 0 .. Len(x)
  <2>1. i \in 0 .. Len(y)
    BY <1>1, <1>2
  <2>2. /\ SubSeq(y, 1, i) \in Seq(STRING) /\ Len(SubSeq(y, 1, i)) = i
        /\ \A k \in 1 .. i : SubSeq(y, 1, i)[k] = y[k]
    BY <1>2, <2>1, PrefixSeq
  <2>3. /\ SubSeq(x, 1, i) \in Seq(STRING) /\ Len(SubSeq(x, 1, i)) = i
        /\ \A k \in 1 .. i : SubSeq(x, 1, i)[k] = x[k]
    BY <1>1, PrefixSeq
  <2>4. \A k \in 1 .. i : SubSeq(y, 1, i)[k] = SubSeq(x, 1, i)[k]
    <3>1. \A k \in 1 .. i : k \in 1 .. Len(x)
      BY <1>1
    <3> QED
      BY <1>2, <2>2, <2>3, <3>1
  <2> QED
    BY <2>2, <2>3, <2>4, SeqEqual
<1>4. SubSeq(x, 1, Len(x)) = x
  BY <1>1, SubSeqFull
<1>5. Len(y) - 1 = Len(x) /\ y # Root
  BY <1>1, <1>2, EmptySeq DEF Root
<1>6. Dir(y) = x
  BY <1>1, <1>3, <1>4, <1>5 DEF Dir
<1>7. ParentDirectories(y) = {SubSeq(x, 1, i) : i \in 0 .. Len(x)}
  BY <1>3, <1>5 DEF ParentDirectories
<1>8. ASSUME NEW q, q \in ParentDirectories(y) PROVE HasPrefix(x, q)
  <2>1. PICK i \in 0 .. Len(x) : q = SubSeq(x, 1, i)
    BY <1>7, <1>8
  <2>2. CASE i = Len(x)
    BY <1>4, <2>1, <2>2 DEF HasPrefix
  <2>3. CASE i # Len(x)
    <3>1. i \in 0 .. Len(x) - 1
      BY <1>1, <2>3
    <3> QED
      BY <2>1, <3>1, PrefixIsParent DEF HasPrefix
  <2> QED
    BY <2>2, <2>3
<1>9. ASSUME NEW q, HasPrefix(x, q) PROVE q \in ParentDirectories(y)
  <2>1. CASE q = x
    <3>1. Len(x) \in 0 .. Len(x)
      BY <1>1
    <3> QED
      BY <1>4, <1>7, <2>1, <3>1
  <2>2. CASE q # x
    <3>1. q \in ParentDirectories(x)
      BY <1>9, <2>2 DEF HasPrefix
    <3>2. CASE x = Root
      BY <2>2, <3>1, <3>2 DEF ParentDirectories
    <3>3. CASE x # Root
      <4>1. Len(q) \in Nat /\ Len(q) < Len(x) /\ q = SubSeq(x, 1, Len(q))
        BY <3>1, <3>3, ParentsShorter
      <4>2. Len(q) \in 0 .. Len(x)
        BY <1>1, <4>1
      <4> QED
        BY <1>7, <4>1, <4>2
    <3> QED
      BY <3>2, <3>3
  <2> QED
    BY <2>1, <2>2
<1> QED
  BY <1>2, <1>6, <1>8, <1>9 DEF y

-----------------------------------------------------------------------------
(***************************************************************************)
(* One look at a path in walkLinks, with v for what comes of the path that *)
(* a link leads to; and f does so for up to k links.                       *)
(***************************************************************************)
Onto(d, q) == ThroughLink(d, q, FirstStop(d, q))

Look(d, q, n, v) ==
    IF Stops(d, q) = {} THEN [err |-> "ok", path |-> q]
    ELSE IF d[FirstStop(d, q)].kind = "none" THEN [err |-> "ENOENT", path |-> q]
    ELSE IF d[FirstStop(d, q)].kind = "file"
         THEN [err |-> IF FirstStop(d, q) = q THEN "ok" ELSE "ENOTDIR", path |-> q]
    ELSE IF n = 0 THEN [err |-> "ELOOP", path |-> q]
    ELSE IF Onto(d, q) \in Path THEN v
    ELSE [err |-> "ENOENT", path |-> q]

Evaluates(d, k, f) ==
    f = [n \in 0 .. k |-> [q \in Path |-> Look(d, q, n, f[n - 1][Onto(d, q)])]]

(***************************************************************************)
(* Where the walk stops, it has a first stop.                              *)
(***************************************************************************)
LEMMA FirstStopIsStop ==
    ASSUME NEW d, NEW q \in Path, Stops(d, q) # {}
    PROVE  FirstStop(d, q) \in Stops(d, q)
<1> DEFINE S == Stops(d, q)
<1>0. S \subseteq Path
  BY PathAssumption DEF Stops
<1> HIDE DEF S
<1> DEFINE T == {n \in Nat : \E a \in S : Len(a) = n}
<1>1. \A a \in S : Len(a) \in Nat
  BY <1>0, PathAssumption, LenProperties
<1>2. PICK n \in T : \A m \in T : ~(<<m, n>> \in OpToRel(<, Nat))
  <2>1. T \subseteq Nat /\ T # {}
    BY <1>1 DEF S
  <2> HIDE DEF T
  <2> QED
    BY <2>1, NatLessThanWellFounded, WFMin
<1>3. PICK a \in S : Len(a) = n
  OBVIOUS
<1>4. ASSUME NEW b \in S PROVE Len(a) <= Len(b)
  <2>1. Len(b) \in T /\ Len(b) \in Nat /\ n \in Nat
    BY <1>1
  <2>2. ~(Len(b) < n)
    BY <1>2, <2>1 DEF OpToRel
  <2> QED
    BY <1>3, <2>1, <2>2
<1> QED
  BY <1>3, <1>4 DEF FirstStop, S

(***************************************************************************)
(* A look at a path: one of the outcomes of the code, or that of the path  *)
(* a link leads to.                                                        *)
(***************************************************************************)
LEMMA LookOutcome ==
    ASSUME NEW d \in [Path -> Node], NEW q \in Path, NEW n, NEW v
    PROVE  \/ Look(d, q, n, v).path = q
           \/ /\ n # 0 /\ Onto(d, q) \in Path /\ Look(d, q, n, v) = v
              /\ HasPrefix(q, FirstStop(d, q)) /\ FirstStop(d, q) \in Path /\ d[FirstStop(d, q)].kind = "link"
<1>1. CASE Stops(d, q) = {}
  BY <1>1 DEF Look
<1>2. CASE Stops(d, q) # {}
  <2>1. Stops(d, q) \subseteq Path
    BY PathAssumption DEF Stops
  <2>2. FirstStop(d, q) \in Stops(d, q)
    BY <1>2, FirstStopIsStop
  <2>3. FirstStop(d, q) \in Path /\ d[FirstStop(d, q)].kind # "dir" /\ HasPrefix(q, FirstStop(d, q))
    BY <2>1, <2>2 DEF Stops, HasPrefix
  <2>4. d[FirstStop(d, q)].kind \in {"none", "file", "link"}
    BY <2>3 DEF Node, Kind
  <2> QED
    BY <1>2, <2>3, <2>4 DEF Look
<1> QED
  BY <1>1, <1>2

(***************************************************************************)
(* The recursion in evalSymlinks defines a function.                       *)
(***************************************************************************)
LEMMA EvaluationExists ==
    ASSUME NEW d, NEW k \in Nat
    PROVE  \E f : Evaluates(d, k, f)
<1> SUFFICES ASSUME ~ \E f : Evaluates(d, k, f) PROVE FALSE
  OBVIOUS
<1> DEFINE T == {i \in Nat : ~ \E f : Evaluates(d, i, f)}
<1>0. \A q, v, w : Look(d, q, 0, v) = Look(d, q, 0, w)
  BY DEF Look
<1>1. PICK i \in T : \A h \in T : ~(<<h, i>> \in OpToRel(<, Nat))
  <2>1. T \subseteq Nat /\ T # {}
    OBVIOUS
  <2> HIDE DEF T
  <2> QED
    BY <2>1, NatLessThanWellFounded, WFMin
<1>2. i \in Nat /\ ~ \E f : Evaluates(d, i, f)
  OBVIOUS
<1>3. i # 0
  <2> DEFINE f == [n \in 0 .. 0 |-> [q \in Path |-> Look(d, q, n, 0)]]
  <2>1. \A n \in 0 .. 0 : n = 0
    OBVIOUS
  <2>2. \A n \in 0 .. 0 : f[n] = [q \in Path |-> Look(d, q, n, f[n - 1][Onto(d, q)])]
    BY <1>0, <2>1
  <2>3. Evaluates(d, 0, f)
    BY <2>2 DEF Evaluates
  <2> QED
    BY <1>2, <2>3
<1>4. PICK f : Evaluates(d, i - 1, f)
  <2>1. i - 1 \in Nat /\ i - 1 < i
    BY <1>2, <1>3
  <2>2. <<i - 1, i>> \in OpToRel(<, Nat)
    BY <1>2, <2>1 DEF OpToRel
  <2> QED
    BY <1>1, <2>1, <2>2
<1> DEFINE last == [q \in Path |-> Look(d, q, i, f[i - 1][Onto(d, q)])]
           f2 == [n \in 0 .. i |-> IF n = i THEN last ELSE f[n]]
<1>5. \A n \in 0 .. i - 1 : f[n] = [q \in Path |-> Look(d, q, n, f[n - 1][Onto(d, q)])]
  BY <1>4 DEF Evaluates
<1>6. \A n \in 0 .. i : f2[n] = [q \in Path |-> Look(d, q, n, f2[n - 1][Onto(d, q)])]
  <2> TAKE n \in 0 .. i
  <2>1. CASE n = i
    <3>1. f2[n] = last /\ f2[n - 1] = f[i - 1]
      BY <1>2, <1>3, <2>1
    <3> HIDE DEF f2
    <3> QED
      BY <2>1, <3>1
  <2>2. CASE n # i /\ n # 0
    <3>1. n \in 0 .. i - 1 /\ f2[n] = f[n] /\ f2[n - 1] = f[n - 1]
      BY <1>2, <2>2
    <3> HIDE DEF f2
    <3> QED
      BY <1>5, <3>1
  <2>3. CASE n # i /\ n = 0
    <3>1. n \in 0 .. i - 1 /\ f2[n] = f[n]
      BY <1>2, <2>3
    <3>2. [q \in Path |-> Look(d, q, 0, f[0 - 1][Onto(d, q)])]
            = [q \in Path |-> Look(d, q, 0, f2[0 - 1][Onto(d, q)])]
      <4> HIDE DEF f2
      <4> QED
        BY <1>0
    <3> HIDE DEF f2
    <3> QED
      BY <1>5, <2>3, <3>1, <3>2
  <2> QED
    BY <2>1, <2>2, <2>3
<1>7. Evaluates(d, i, f2)
  <2>1. f2 = [n \in 0 .. i |-> f2[n]]
    OBVIOUS
  <2> HIDE DEF f2
  <2> QED
    BY <1>6, <2>1 DEF Evaluates
<1> QED
  BY <1>2, <1>7

(***************************************************************************)
(* evalSymlinks is that function for as many links as there are paths.     *)
(***************************************************************************)
LEMMA EvalSymlinksIs ==
    ASSUME NEW d, NEW p
    PROVE  \E f : /\ Evaluates(d, Cardinality(Path), f)
                  /\ evalSymlinks(d, p) = IF p \in Path THEN f[Cardinality(Path)][p]
                                          ELSE [err |-> "ENOENT", path |-> p]
<1>1. Cardinality(Path) \in Nat
  BY ExtractAssumption, FS_CardinalityType
<1>2. \E f : Evaluates(d, Cardinality(Path), f)
  BY <1>1, EvaluationExists
<1>3. Evaluates(d, Cardinality(Path), walkLinks(d))
  BY <1>2, Zenon DEF walkLinks, Evaluates, Look, Onto
<1> QED
  BY <1>3 DEF evalSymlinks

-----------------------------------------------------------------------------
(***************************************************************************)
(* A disk whose links keep clear of the ignored paths, and whose paths     *)
(* above ignored ones are directories, or nothing.                         *)
(***************************************************************************)
LinksApart(d) ==
    \A p \in Path : d[p].kind = "link" => d[p].data \in Path /\ ~Near(d[p].data)

Above(p) == \E e \in Ignored : Below(e, p)

WayIsFree(d) == \A p \in Path : Above(p) => d[p].kind \in {"none", "dir"}

Clear(d) == d \in [Path -> Node] /\ LinksApart(d) /\ WayIsFree(d)

(***************************************************************************)
(* The path a link leads to is not near an ignored path.                   *)
(***************************************************************************)
LEMMA OntoIsApart ==
    ASSUME NEW d \in [Path -> Node], LinksApart(d), NEW q \in Path, Onto(d, q) \in Path,
           HasPrefix(q, FirstStop(d, q)), FirstStop(d, q) \in Path,
           d[FirstStop(d, q)].kind = "link"
    PROVE  ~Near(Onto(d, q))
<1> DEFINE a == FirstStop(d, q)
           x == d[a].data
           r == SubSeq(q, Len(a) + 1, Len(q))
<1>1. x \in Path /\ ~Near(x)
  BY DEF LinksApart
<1>2. r \in Seq(STRING)
  <2>1. q \in Seq(STRING) /\ a \in Seq(STRING) /\ Len(a) \in Nat /\ Len(q) \in Nat
    BY PathAssumption, LenProperties
  <2> HIDE DEF a
  <2> QED
    BY <2>1
<1>3. Onto(d, q) = x \o r
  BY DEF Onto, ThroughLink
<1> HIDE DEF x, r
<1>4. HasPrefix(x \o r, x)
  BY <1>1, <1>2, <1>3, ConcatPrefix
<1> QED
  BY <1>1, <1>3, <1>4, NearUp

(***************************************************************************)
(* Links lead nowhere near an ignored path: what is there is only reached  *)
(* under its own name.                                                     *)
(***************************************************************************)
LEMMA LinksKeepClear ==
    ASSUME NEW d \in [Path -> Node], LinksApart(d), NEW q \in Path
    PROVE  LET r == evalSymlinks(d, q).path
           IN  r \in Path /\ (r = q \/ ~Near(r))
<1> DEFINE N == Cardinality(Path)
           Good(y, r) == r \in Path /\ (r = y \/ ~Near(r))
<1>0. N \in Nat
  BY ExtractAssumption, FS_CardinalityType
<1>1. PICK f : Evaluates(d, N, f) /\ evalSymlinks(d, q) = f[N][q]
  BY EvalSymlinksIs
<1> HIDE DEF N
<1>2. \A n \in 0 .. N, y \in Path : f[n][y] = Look(d, y, n, f[n - 1][Onto(d, y)])
  <2>1. f = [n \in 0 .. N |-> [y \in Path |-> Look(d, y, n, f[n - 1][Onto(d, y)])]]
    BY <1>1 DEF Evaluates
  <2>2. \A n \in 0 .. N : f[n] = [y \in Path |-> Look(d, y, n, f[n - 1][Onto(d, y)])]
    BY <2>1, Zenon
  <2> QED
    BY <2>2
<1> DEFINE T == {n \in Nat : n <= N /\ \E y \in Path : ~Good(y, f[n][y].path)}
<1>3. T = {}
  <2> SUFFICES ASSUME T # {} PROVE FALSE
    OBVIOUS
  <2>1. PICK n \in T : \A h \in T : ~(<<h, n>> \in OpToRel(<, Nat))
    <3>1. T \subseteq Nat
      OBVIOUS
    <3> HIDE DEF T
    <3> QED
      BY <3>1, NatLessThanWellFounded, WFMin
  <2>2. PICK y \in Path : ~Good(y, f[n][y].path)
    OBVIOUS
  <2>3. n \in Nat /\ n <= N /\ n \in 0 .. N
    BY <1>0
  <2> DEFINE z == Onto(d, y)
             v == f[n - 1][z]
  <2>4. f[n][y] = Look(d, y, n, v)
    BY <1>2, <2>3
  <2>5. \/ f[n][y].path = y
        \/ /\ n # 0 /\ z \in Path /\ f[n][y] = v
           /\ HasPrefix(y, FirstStop(d, y)) /\ FirstStop(d, y) \in Path
           /\ d[FirstStop(d, y)].kind = "link"
    <3> HIDE DEF v
    <3> QED
      BY <2>4, LookOutcome
  <2>6. /\ n # 0 /\ z \in Path /\ f[n][y] = v
        /\ HasPrefix(y, FirstStop(d, y)) /\ FirstStop(d, y) \in Path
        /\ d[FirstStop(d, y)].kind = "link"
    BY <2>2, <2>5
  <2>7. ~Near(z)
    BY <2>6, OntoIsApart
  <2> HIDE DEF z
  <2>8. n - 1 \in Nat /\ n - 1 <= N /\ n - 1 < n
    BY <1>0, <2>3, <2>6
  <2>9. <<n - 1, n>> \in OpToRel(<, Nat)
    BY <2>3, <2>8 DEF OpToRel
  <2>10. n - 1 \notin T
    BY <2>1, <2>9
  <2>11. Good(z, v.path)
    BY <2>6, <2>8, <2>10
  <2> QED
    BY <2>2, <2>6, <2>7, <2>11
<1>4. Good(q, f[N][q].path)
  BY <1>0, <1>3
<1> QED
  BY <1>1, <1>4

(***************************************************************************)
(* Above an ignored path nothing is in the way: a directory that is there  *)
(* is found to be one, at its own path.                                    *)
(***************************************************************************)
LEMMA AboveIsItself ==
    ASSUME NEW d, Clear(d), NEW q \in Path, Above(q), evalSymlinks(d, q).err = "ok"
    PROVE  evalSymlinks(d, q).path = q /\ d[q].kind = "dir"
<1> DEFINE N == Cardinality(Path)
<1>0. N \in Nat
  BY ExtractAssumption, FS_CardinalityType
<1>1. PICK f : Evaluates(d, N, f) /\ evalSymlinks(d, q) = f[N][q]
  BY EvalSymlinksIs
<1> HIDE DEF N
<1>2. \E v : evalSymlinks(d, q) = Look(d, q, N, v)
  <2>1. f = [n \in 0 .. N |-> [y \in Path |-> Look(d, y, n, f[n - 1][Onto(d, y)])]]
    BY <1>1 DEF Evaluates
  <2>2. N \in 0 .. N
    BY <1>0
  <2> QED
    BY <1>1, <2>1, <2>2
<1>3. PICK v : evalSymlinks(d, q) = Look(d, q, N, v)
  BY <1>2
<1>4. CASE Stops(d, q) = {}
  <2>1. d[q].kind = "dir"
    BY <1>4 DEF Stops
  <2> QED
    BY <1>3, <1>4, <2>1 DEF Look
<1>5. CASE Stops(d, q) # {}
  <2>1. FirstStop(d, q) \in Stops(d, q)
    BY <1>5, FirstStopIsStop
  <2> DEFINE a == FirstStop(d, q)
  <2>2. a \in Path /\ d[a].kind # "dir" /\ HasPrefix(q, a)
    BY <2>1, PathAssumption DEF Stops, HasPrefix
  <2>3. PICK e \in Ignored : Below(e, q)
    BY DEF Above
  <2>4. e \in Path
    BY ExtractAssumption
  <2>5. e # Root
    BY <2>3 DEF Below, ParentDirectories
  <2>6. a \in ParentDirectories(e)
    BY <2>2, <2>3, <2>4, ParentsTransitive DEF Below, HasPrefix
  <2>7. a # e
    <3>1. Len(a) < Len(e) /\ Len(a) \in Nat
      BY <2>4, <2>5, <2>6, ParentsShorter
    <3> HIDE DEF a
    <3> QED
      BY <3>1
  <2>8. d[a].kind = "none"
    BY <2>2, <2>6, <2>7 DEF Clear, WayIsFree, Above, Below
  <2> QED
    BY <1>3, <1>5, <2>8 DEF Look
<1> QED
  BY <1>4, <1>5

-----------------------------------------------------------------------------
(***************************************************************************)
(* What may happen to a disk: an ignored path keeps its node, what is near *)
(* one gets no file and no link, and links lead to no such place.          *)
(***************************************************************************)
Kept(d) == \A p \in Path : Ignores(p) => d[p] = Mounted[p]

IsApart(n) == n.kind = "link" => n.data \in Path /\ ~Near(n.data)

Harmless(d, d2) ==
    /\ d2 \in [Path -> Node]
    /\ \A p \in Path :
         \/ d2[p] = d[p]
         \/ ~Ignores(p) /\ d2[p].kind \in {"none", "dir"}
         \/ ~Ignores(p) /\ d2[p].kind = d[p].kind /\ d2[p].data = d[p].data
         \/ ~Near(p) /\ IsApart(d2[p])

(***************************************************************************)
(* A harmless change leaves a disk clear and the mounts what they were.    *)
(***************************************************************************)
LEMMA HarmlessKeeps ==
    ASSUME NEW d, Clear(d), Kept(d), NEW d2, Harmless(d, d2)
    PROVE  Clear(d2) /\ Kept(d2)
<1>1. ASSUME NEW p \in Path, Above(p) PROVE Near(p)
  BY <1>1 DEF Above, Below, Near, childDirInIgnoreList, HasPrefix
<1>2. LinksApart(d2)
  BY DEF Harmless, Clear, LinksApart, IsApart
<1>3. WayIsFree(d2)
  BY <1>1 DEF Harmless, Clear, WayIsFree
<1>4. Kept(d2)
  BY DEF Harmless, Kept, Near
<1> QED
  BY <1>2, <1>3, <1>4 DEF Harmless, Clear

(***************************************************************************)
(* What is above some path of the universe is in the universe.             *)
(***************************************************************************)
LEMMA PrefixInPath ==
    ASSUME NEW q \in Path, NEW p, HasPrefix(q, p)
    PROVE  p \in Path
BY PathAssumption DEF HasPrefix

(***************************************************************************)
(* RemoveAll of a path that is not near an ignored one touches nothing     *)
(* that is.                                                                *)
(***************************************************************************)
LEMMA RemovedIsFar ==
    ASSUME NEW p, ~Near(p), NEW q \in Path, HasPrefix(q, p)
    PROVE  ~Near(q)
BY PrefixInPath, NearUp

(***************************************************************************)
(* A whiteout is harmless.                                                 *)
(***************************************************************************)
LEMMA WhiteoutHarmless ==
    ASSUME Clear(disk), NEW name, NEW p, ~Near(name) => ~Near(p)
    PROVE  Harmless(disk, whiteout(name, p))
<1>1. CASE Near(name)
  BY <1>1 DEF Near, whiteout, Harmless, Clear
<1>2. CASE ~Near(name)
  <2>1. whiteout(name, p) = [q \in Path |-> IF HasPrefix(q, p) THEN Absent ELSE disk[q]]
    BY <1>2 DEF Near, whiteout, RemoveAll
  <2>2. \A q \in Path : HasPrefix(q, p) => ~Near(q)
    BY <1>2, RemovedIsFar
  <2> QED
    BY <2>1, <2>2, AbsentNode DEF Harmless, Clear, IsApart
<1> QED
  BY <1>1, <1>2

(***************************************************************************)
(* Made is a directory.                                                    *)
(***************************************************************************)
LEMMA MadeNode == Made \in Node /\ Made.kind = "dir"
BY ExtractAssumption, PathAssumption DEF Made, IsTree

(***************************************************************************)
(* A directory entry is harmless unless its path is ignored.               *)
(***************************************************************************)
LEMMA MkdirHarmless ==
    ASSUME Clear(disk), NEW p, NEW n \in Node, ~Ignores(p),
           \A q \in Path : HasPrefix(p, q) => ~Ignores(q)
    PROVE  Harmless(disk, MkdirAllWithPermissions(p, n))
<1> DEFINE stat == evalSymlinks(disk, p)
           free == IF stat.err = "ok" /\ disk[stat.path].kind # "dir"
                   THEN RemoveAll(disk, p) ELSE disk
<1>0. disk \in [Path -> Node] /\ LinksApart(disk) /\ n.perm \in Perm
  BY DEF Clear, Node
<1>1. CASE stat.err = "ok" /\ disk[stat.path].kind = "dir"
  <2>1. p \in Path
    BY <1>1 DEF evalSymlinks
  <2>2. stat.path \in Path /\ ~Ignores(stat.path)
    BY <1>0, <2>1, LinksKeepClear DEF Near
  <2>3. MkdirAllWithPermissions(p, n) = [disk EXCEPT ![stat.path].perm = n.perm]
    BY <1>1 DEF MkdirAllWithPermissions
  <2> HIDE DEF stat
  <2> DEFINE d2 == [disk EXCEPT ![stat.path].perm = n.perm]
  <2>4. \A q \in Path : q # stat.path => d2[q] = disk[q]
    BY <1>0
  <2>5. /\ d2[stat.path].kind = disk[stat.path].kind /\ d2[stat.path].data = disk[stat.path].data
        /\ d2[stat.path] \in Node
    BY <1>0, <2>2 DEF Node
  <2>6. d2 \in [Path -> Node]
    BY <1>0, <2>2, <2>5
  <2> HIDE DEF d2
  <2>7. Harmless(disk, d2)
    BY <2>2, <2>4, <2>5, <2>6 DEF Harmless
  <2> QED
    BY <2>3, <2>7 DEF d2
<1>2. CASE ~(stat.err = "ok" /\ disk[stat.path].kind = "dir")
  <2>1. MkdirAllWithPermissions(p, n) = [MkdirAll(free, p) EXCEPT ![p].perm = n.perm]
    BY <1>2 DEF MkdirAllWithPermissions
  <2>2. /\ free \in [Path -> Node]
        /\ \A q \in Path : free[q] = disk[q] \/ (~Near(q) /\ free[q] = Absent)
    <3>1. CASE stat.err = "ok"
      <4>1. p \in Path
        BY <3>1 DEF evalSymlinks
      <4>2. ~Above(p)
        BY <1>2, <3>1, <4>1, AboveIsItself
      <4>3. ~Near(p)
        BY <4>2 DEF Near, Above, Below, childDirInIgnoreList, HasPrefix, Ignores
      <4>4. \A q \in Path : HasPrefix(q, p) => ~Near(q)
        BY <4>3, RemovedIsFar
      <4>5. free = [q \in Path |-> IF HasPrefix(q, p) THEN Absent ELSE disk[q]]
        BY <1>2, <3>1 DEF RemoveAll
      <4> QED
        BY <1>0, <4>4, <4>5, AbsentNode
    <3>2. CASE stat.err # "ok"
      BY <1>0, <3>2
    <3> QED
      BY <3>1, <3>2
  <2> HIDE DEF free, stat
  <2> DEFINE d1 == MkdirAll(free, p)
             d2 == [d1 EXCEPT ![p].perm = n.perm]
  <2>3. /\ d1 \in [Path -> Node]
        /\ \A q \in Path : d1[q] = free[q] \/ (~Ignores(q) /\ d1[q].kind = "dir")
    BY <2>2, MadeNode DEF MkdirAll
  <2> HIDE DEF d1
  <2>4. \A q \in Path : q # p => d2[q] = d1[q]
    BY <2>3
  <2>5. p \in Path => /\ d2[p].kind = d1[p].kind /\ d2[p].data = d1[p].data /\ d2[p] \in Node
    BY <1>0, <2>3 DEF Node
  <2>6. d2 \in [Path -> Node]
    BY <2>3, <2>4, <2>5
  <2> HIDE DEF d2
  <2>7. ASSUME NEW q \in Path
        PROVE  \/ d2[q] = disk[q]
               \/ ~Ignores(q) /\ d2[q].kind \in {"none", "dir"}
               \/ ~Ignores(q) /\ d2[q].kind = disk[q].kind /\ d2[q].data = disk[q].data
               \/ ~Near(q) /\ IsApart(d2[q])
    <3>1. CASE q # p
      BY <2>2, <2>3, <2>4, <3>1, AbsentNode DEF Near
    <3>2. CASE q = p
      BY <2>2, <2>3, <2>5, <3>2, AbsentNode DEF Near
    <3> QED
      BY <3>1, <3>2
  <2>8. Harmless(disk, d2)
    BY <2>6, <2>7 DEF Harmless
  <2> QED
    BY <2>1, <2>8 DEF d1, d2
<1> QED
  BY <1>1, <1>2

(***************************************************************************)
(* A file or link entry is harmless when its path is not near an ignored   *)
(* one and its target is not either.                                       *)
(***************************************************************************)
LEMMA CreateHarmless ==
    ASSUME Clear(disk), NEW p, NEW n \in Node, ~Near(p), IsApart(n),
           \A q \in Path : HasPrefix(Dir(p), q) => ~Ignores(q)
    PROVE  Harmless(disk, create(p, n))
<1> DEFINE d1 == MkdirAll(disk, Dir(p))
           d2 == RemoveAll(d1, p)
           d3 == [d2 EXCEPT ![p] = n]
<1>0. disk \in [Path -> Node]
  BY DEF Clear
<1>1. /\ d1 \in [Path -> Node]
      /\ \A q \in Path : d1[q] = disk[q] \/ (~Ignores(q) /\ d1[q].kind = "dir")
  BY <1>0, MadeNode DEF MkdirAll
<1> HIDE DEF d1
<1>2. \A q \in Path : HasPrefix(q, p) => ~Near(q)
  BY RemovedIsFar
<1>3. d2 \in [Path -> Node] /\ \A q \in Path : d2[q] = d1[q] \/ (~Near(q) /\ d2[q] = Absent)
  BY <1>1, <1>2, AbsentNode DEF RemoveAll
<1> HIDE DEF d2
<1>4. d3 \in [Path -> Node] /\ \A q \in Path : d3[q] = d2[q] \/ (q = p /\ d3[q] = n)
  BY <1>3
<1> HIDE DEF d3
<1>5. Harmless(disk, d3)
  BY <1>1, <1>3, <1>4, AbsentNode DEF Harmless, Near
<1> QED
  BY <1>5 DEF create, d1, d2, d3

(***************************************************************************)
(* A path is its directory with its last component appended.               *)
(***************************************************************************)
LEMMA DirAndLast ==
    ASSUME NEW p \in Path, p # Root
    PROVE  p[Len(p)] \in STRING /\ Append(Dir(p), p[Len(p)]) = p
<1>1. p \in Seq(STRING) /\ Len(p) \in Nat /\ Len(p) # 0
  BY PathAssumption, LenProperties, EmptySeq DEF Root
<1>2. Len(p) \in 1 .. Len(p) /\ Len(p) - 1 \in 0 .. Len(p)
  BY <1>1
<1>3. p[Len(p)] \in STRING
  BY <1>1, <1>2, ElementOfSeq
<1> DEFINE x == Dir(p)
           y == Append(x, p[Len(p)])
<1>4. x \in Seq(STRING) /\ Len(x) = Len(p) - 1 /\ \A k \in 1 .. Len(p) - 1 : x[k] = p[k]
  BY <1>1, <1>2, PrefixSeq DEF Dir
<1> HIDE DEF x
<1>5. y \in Seq(STRING) /\ Len(y) = Len(x) + 1 /\ y[Len(x) + 1] = p[Len(p)]
  BY <1>3, <1>4, SMT
<1>6. \A k \in 1 .. Len(x) : y[k] = x[k]
  BY <1>3, <1>4, SMT
<1> HIDE DEF y
<1>7. \A k \in 1 .. Len(p) : y[k] = p[k]
  BY <1>1, <1>4, <1>5, <1>6
<1>8. y = p
  BY <1>1, <1>4, <1>5, <1>7, SeqEqual
<1> QED
  BY <1>3, <1>8 DEF x, y

(***************************************************************************)
(* Where ExtractFile writes an entry that it does not ignore: not at, and  *)
(* not below, an ignored path; under the entry's own path, or nowhere near *)
(* an ignored one.                                                         *)
(***************************************************************************)
LEMMA ResolvedIsClear ==
    ASSUME Clear(disk), NEW path \in Path, NEW p, p = resolveLeafInRoot(path),
           ~Ignores(p) \/ ~Ignores(path)
    PROVE  /\ ~Ignores(p)
           /\ p = path \/ ~Near(p)
           /\ \A q \in Path : HasPrefix(p, q) => ~Ignores(q)
           /\ p # Root => \A q \in Path : HasPrefix(Dir(p), q) => ~Ignores(q)
<1>1. CASE path = Root
  <2>1. p = Root
    BY <1>1 DEF resolveLeafInRoot
  <2>2. \A q : HasPrefix(Root, q) => q = Root
    BY DEF HasPrefix, ParentDirectories
  <2> QED
    BY <1>1, <2>1, <2>2
<1>2. CASE path # Root
  <2> DEFINE x == ResolvePathInRoot(Dir(path))
             c == path[Len(path)]
  <2>1. Dir(path) \in Path /\ c \in STRING /\ Append(Dir(path), c) = path
    BY <1>2, DirIsParent, DirAndLast
  <2>2. p = Append(x, c)
    BY <1>2 DEF resolveLeafInRoot
  <2>3. x \in Path /\ (x = Dir(path) \/ ~Near(x))
    BY <2>1, LinksKeepClear DEF ResolvePathInRoot, Clear
  <2> HIDE DEF x, c
  <2>4. /\ Dir(p) = x
        /\ \A q : q \in ParentDirectories(p) <=> HasPrefix(x, q)
    BY <2>1, <2>2, <2>3, ParentsOfAppend
  <2>5. HasPrefix(p, x)
    BY <2>4 DEF HasPrefix
  <2>6. p = path \/ ~Near(p)
    <3>1. CASE x = Dir(path)
      BY <2>1, <2>2, <3>1
    <3>2. CASE ~Near(x)
      <4>1. ASSUME NEW e \in Ignored, HasPrefix(e, p) PROVE FALSE
        <5>1. e \in Path
          BY ExtractAssumption
        <5>2. HasPrefix(e, x)
          BY <2>5, <4>1, <5>1, HasPrefixTransitive
        <5> QED
          BY <3>2, <5>2 DEF Near, childDirInIgnoreList
      <4>2. ASSUME NEW e \in Ignored, HasPrefix(p, e) PROVE FALSE
        <5>1. CASE e = p
          BY <4>1, <5>1 DEF HasPrefix
        <5>2. CASE e # p
          BY <2>4, <3>2, <4>2, <5>2 DEF HasPrefix, Near, Ignores
        <5> QED
          BY <5>1, <5>2
      <4> QED
        BY <4>1, <4>2 DEF Near, Ignores, childDirInIgnoreList
    <3> QED
      BY <2>3, <3>1, <3>2
  <2>7. ~Ignores(p)
    BY <2>6 DEF Near
  <2>8. ASSUME NEW q \in Path, HasPrefix(x, q) PROVE ~Ignores(q)
    <3>1. ASSUME NEW e \in Ignored, HasPrefix(q, e) PROVE FALSE
      <4>1. HasPrefix(x, e)
        BY <2>3, <2>8, <3>1, HasPrefixTransitive
      <4>2. HasPrefix(p, e)
        BY <2>4, <4>1 DEF HasPrefix
      <4> QED
        BY <2>7, <4>2 DEF Ignores
    <3> QED
      BY <3>1 DEF Ignores
  <2>9. ASSUME NEW q \in Path, HasPrefix(p, q) PROVE ~Ignores(q)
    <3>1. CASE q = p
      BY <2>7, <3>1
    <3>2. CASE q # p
      BY <2>4, <2>8, <2>9, <3>2 DEF HasPrefix
    <3> QED
      BY <3>1, <3>2
  <2> QED
    BY <2>4, <2>6, <2>7, <2>8, <2>9
<1> QED
  BY <1>1, <1>2

-----------------------------------------------------------------------------
(***************************************************************************)
(* Entries of a layer: at their path they have what some image has there,  *)
(* and only what is a directory there is a directory entry.                *)
(***************************************************************************)
OfAnImage(e) ==
    /\ e.path \in Path
    /\ e.type # "whiteout" =>
         \E t \in Trees : /\ e.node = t[e.path]
                          /\ e.type # "dir" => t[e.path].kind \in {"file", "link"}

(***************************************************************************)
(* The entries of the layer that makes an image are of that image.         *)
(***************************************************************************)
LEMMA LayerEntries ==
    ASSUME NEW d, NEW t \in Trees
    PROVE  \A e \in LayerOf(d, t) : OfAnImage(e)
<1> TAKE e \in LayerOf(d, t)
<1>1. t \in [Path -> Node]
  BY ExtractAssumption
<1>2. CASE \E p \in Gone(d, t) : e = [type |-> "whiteout", path |-> p, node |-> Absent]
  BY <1>2 DEF OfAnImage, Gone
<1>3. CASE \E p \in {q \in Path : Exists(t, q) /\ d[q] # t[q]} :
             e = [type |-> TypeOf(t[p]), path |-> p, node |-> t[p]]
  <2>1. PICK p \in Path : Exists(t, p) /\ e = [type |-> TypeOf(t[p]), path |-> p, node |-> t[p]]
    BY <1>3
  <2>2. t[p].kind \in {"dir", "file", "link"}
    BY <1>1, <2>1 DEF Exists, Node, Kind
  <2>3. TypeOf(t[p]) # "dir" => t[p].kind \in {"file", "link"}
    BY <2>2 DEF TypeOf
  <2> QED
    BY <2>1, <2>3 DEF OfAnImage
<1> QED
  BY <1>2, <1>3 DEF LayerOf

(***************************************************************************)
(* The inductive invariant: the disk is clear and the mounts are kept, and *)
(* what is still to come is of an image.                                   *)
(***************************************************************************)
IInv ==
    /\ Clear(disk)
    /\ Kept(disk)
    /\ image \in Seq(Trees) /\ layer \in 0 .. Len(image)
    /\ \A e \in todo : OfAnImage(e)

(***************************************************************************)
(* IInv holds before anything is unpacked.                                 *)
(***************************************************************************)
LEMMA InitIInv == ASSUME Apart, Init PROVE IInv
<1>1. Clear(disk)
  BY ExtractAssumption DEF Init, Clear, Apart, LinksApart, WayIsFree, Above
<1>2. Kept(disk)
  BY DEF Init, Kept
<1>3. image \in Seq(Trees) /\ layer \in 0 .. Len(image) /\ \A e \in todo : OfAnImage(e)
  BY DEF Init
<1> QED
  BY <1>1, <1>2, <1>3 DEF IInv

(***************************************************************************)
(* An error leaves the disk alone, and entries are only dropped.           *)
(***************************************************************************)
LEMMA ErrorKeeps ==
    ASSUME IInv, NEW why, Error(why), UNCHANGED image
    PROVE  IInv'
<1>1. disk' = disk /\ todo' \subseteq todo /\ layer' \in 0 .. Len(image')
  <2>1. Len(image) \in Nat
    BY LenProperties DEF IInv
  <2> QED
    BY <2>1 DEF IInv, Error
<1>2. Clear(disk)' /\ Kept(disk)'
  BY <1>1 DEF IInv, Clear, Kept, LinksApart, WayIsFree
<1>3. \A e \in todo' : OfAnImage(e)
  BY <1>1 DEF IInv
<1> QED
  BY <1>1, <1>2, <1>3 DEF IInv

(***************************************************************************)
(* So does a panic.                                                        *)
(***************************************************************************)
LEMMA PanicKeeps == ASSUME IInv, Panic, UNCHANGED image PROVE IInv'
BY DEF Panic, IInv, Clear, Kept, LinksApart, WayIsFree

(***************************************************************************)
(* So does a harmless write.                                               *)
(***************************************************************************)
LEMMA WriteKeeps ==
    ASSUME IInv, NEW e, NEW d, NEW refused \in BOOLEAN, Write(e, refused, d), UNCHANGED image,
           Harmless(disk, d)
    PROVE  IInv'
<1>1. CASE refused
  BY <1>1, ErrorKeeps DEF Write
<1>2. CASE ~refused
  <2>1. disk' = d /\ todo' \subseteq todo /\ layer' = layer
    BY <1>2 DEF Write
  <2>2. Clear(d) /\ Kept(d)
    BY HarmlessKeeps DEF IInv
  <2> QED
    BY <2>1, <2>2 DEF IInv
<1> QED
  BY <1>1, <1>2

(***************************************************************************)
(* The next layer is that of an image.                                     *)
(***************************************************************************)
LEMMA NextLayerKeeps == ASSUME IInv, NextLayer PROVE IInv'
<1>1. Len(image) \in Nat /\ image \in Seq(Trees) /\ layer \in 0 .. Len(image)
  BY LenProperties DEF IInv
<1>2. /\ image' \in Seq(Trees) /\ layer' \in 0 .. Len(image')
      /\ image'[layer'] \in Trees
  <2>1. CASE layer < Len(image) /\ UNCHANGED <<image, read>>
    <3>1. layer' = layer + 1 /\ image' = image /\ layer' \in 1 .. Len(image)
      BY <1>1, <2>1 DEF NextLayer
    <3> QED
      BY <1>1, <3>1, ElementOfSeq
  <2>2. CASE layer = Len(image) /\ \E t \in Trees : Follows(tree, t) /\ image' = Append(image, t)
    <3>1. PICK t \in Trees : image' = Append(image, t)
      BY <2>2
    <3>2. layer' = Len(image) + 1
      BY <2>2 DEF NextLayer
    <3> QED
      BY <1>1, <3>1, <3>2, SMT
  <2> QED
    BY <2>1, <2>2 DEF NextLayer
<1>3. todo' = LayerOf(tree, image'[layer'])
  BY DEF NextLayer
<1>4. \A e \in todo' : OfAnImage(e)
  BY <1>2, <1>3, LayerEntries
<1>5. disk' = disk
  BY DEF NextLayer
<1>6. Clear(disk)' /\ Kept(disk)'
  BY <1>5 DEF IInv, Clear, Kept, LinksApart, WayIsFree
<1> QED
  BY <1>2, <1>4, <1>6 DEF IInv

(***************************************************************************)
(* No entry touches what is mounted.                                       *)
(***************************************************************************)
LEMMA ExtractKeeps ==
    ASSUME Apart, IInv, NEW e \in todo, ExtractFile(e), UNCHANGED image
    PROVE  IInv'
<1> DEFINE p == resolveLeafInRoot(e.path)
           loops == LoopsInRoot(Dir(e.path))
           ignored == Ignores(IF rooted THEN p ELSE e.path)
<1>0. Clear(disk) /\ OfAnImage(e) /\ e.type # "whiteout" /\ e.path \in Path
  BY DEF IInv, ExtractFile, OfAnImage
<1>1. PICK t \in Trees : /\ e.node = t[e.path]
                         /\ e.type # "dir" => t[e.path].kind \in {"file", "link"}
  BY <1>0 DEF OfAnImage
<1>2. e.node \in Node /\ t \in [Path -> Node] /\ IsTree(t)
  BY <1>0, <1>1, ExtractAssumption
<1>3. CASE ignored \/ loops
  <2>1. Write(e, loops, disk) /\ loops \in BOOLEAN
    BY <1>3 DEF ExtractFile, LoopsInRoot
  <2>2. Harmless(disk, disk)
    BY <1>0 DEF Clear, Harmless
  <2> HIDE DEF loops
  <2> QED
    BY <2>1, <2>2, WriteKeeps
<1>4. CASE ~(ignored \/ loops)
  <2>1. ~Ignores(p) \/ ~Ignores(e.path)
    BY <1>4
  <2>2. /\ ~Ignores(p)
        /\ p = e.path \/ ~Near(p)
        /\ \A q \in Path : HasPrefix(p, q) => ~Ignores(q)
        /\ p # Root => \A q \in Path : HasPrefix(Dir(p), q) => ~Ignores(q)
    BY <1>0, <2>1, ResolvedIsClear
  <2>3. \/ e.type = "dir" /\ Write(e, MkdirFails(p), MkdirAllWithPermissions(p, e.node))
        \/ e.type # "dir" /\ (Panic \/ Write(e, ~CanMkdirAll(disk, Dir(p)), create(p, e.node)))
    BY <1>4 DEF ExtractFile
  <2> HIDE DEF p
  <2>4. CASE e.type = "dir"
    <3>1. Harmless(disk, MkdirAllWithPermissions(p, e.node))
      BY <1>0, <1>2, <2>2, MkdirHarmless
    <3>2. Write(e, MkdirFails(p), MkdirAllWithPermissions(p, e.node))
      BY <2>3, <2>4
    <3>3. MkdirFails(p) \in BOOLEAN
      BY DEF MkdirFails
    <3> QED
      BY <3>1, <3>2, <3>3, WriteKeeps
  <2>5. CASE e.type # "dir"
    <3>1. t[e.path].kind \in {"file", "link"}
      BY <1>1, <2>5
    <3>2. ~Above(e.path)
      BY <1>0, <3>1 DEF Apart, Above
    <3>3. ~Near(p)
      <4>1. CASE p = e.path
        BY <2>2, <3>2, <4>1 DEF Near, Above, Below, childDirInIgnoreList, HasPrefix, Ignores
      <4> QED
        BY <2>2, <4>1
    <3>4. IsApart(e.node)
      BY <1>0, <1>1 DEF Apart, IsApart
    <3>5. p # Root
      <4>1. e.path # Root
        BY <1>2, <3>1 DEF IsTree
      <4>2. ResolvePathInRoot(Dir(e.path)) \in Path /\ e.path[Len(e.path)] \in STRING
        BY <1>0, <4>1, DirIsParent, DirAndLast, LinksKeepClear DEF ResolvePathInRoot, Clear
      <4>3. p = Append(ResolvePathInRoot(Dir(e.path)), e.path[Len(e.path)])
        BY <4>1 DEF p, resolveLeafInRoot
      <4>4. ResolvePathInRoot(Dir(e.path)) \in Seq(STRING)
        BY <4>2, PathAssumption
      <4> QED
        BY <4>2, <4>3, <4>4, AppendProperties DEF Root
    <3>6. Harmless(disk, create(p, e.node))
      BY <1>0, <1>2, <2>2, <3>3, <3>4, <3>5, CreateHarmless
    <3>7. Panic \/ Write(e, ~CanMkdirAll(disk, Dir(p)), create(p, e.node))
      BY <2>3, <2>5
    <3>8. (~CanMkdirAll(disk, Dir(p))) \in BOOLEAN
      BY DEF CanMkdirAll
    <3> QED
      BY <3>6, <3>7, <3>8, WriteKeeps, PanicKeeps
  <2> QED
    BY <2>4, <2>5
<1> QED
  BY <1>3, <1>4

(***************************************************************************)
(* No whiteout does.                                                       *)
(***************************************************************************)
LEMMA WhiteoutKeeps ==
    ASSUME IInv, NEW e \in todo, Whiteout(e), UNCHANGED image
    PROVE  IInv'
<1> DEFINE name == WhiteoutName(e)
           p == WhiteoutPath(e)
           refused == LoopsInRoot(e.path) \/ whiteoutFails(name, p)
<1>1. Write(e, refused, whiteout(name, p)) /\ refused \in BOOLEAN
  BY DEF Whiteout, LoopsInRoot, whiteoutFails
<1>2. ~Near(name) => ~Near(p)
  <2>1. CASE rooted
    BY <2>1 DEF WhiteoutName, WhiteoutPath
  <2>2. CASE ~rooted
    <3>1. name = e.path /\ p = resolveLeafInRoot(e.path) /\ e.path \in Path /\ Clear(disk)
      BY <2>2 DEF WhiteoutName, WhiteoutPath, IInv, OfAnImage
    <3>2. ~Ignores(e.path) => p = e.path \/ ~Near(p)
      BY <3>1, ResolvedIsClear
    <3> QED
      BY <3>1, <3>2 DEF Near
  <2> QED
    BY <2>1, <2>2
<1>3. Harmless(disk, whiteout(name, p))
  BY <1>2, WhiteoutHarmless DEF IInv
<1> HIDE DEF name, p, refused
<1> QED
  BY <1>1, <1>3, WriteKeeps

(***************************************************************************)
(* Deleting the file system between two stages does not.                   *)
(***************************************************************************)
LEMMA DeleteKeeps == ASSUME IInv, DeleteFilesystem PROVE IInv'
<1>1. Harmless(disk, disk')
  BY AbsentNode DEF DeleteFilesystem, Harmless, IInv, Clear
<1>2. Clear(disk') /\ Kept(disk')
  BY <1>1, HarmlessKeeps DEF IInv
<1>3. image' = << >> /\ layer' = 0 /\ todo' = todo
  BY DEF DeleteFilesystem
<1> QED
  BY <1>2, <1>3 DEF IInv

(***************************************************************************)
(* Every step keeps IInv.                                                  *)
(***************************************************************************)
LEMMA NextIInv == ASSUME Apart, IInv, [Next]_vars PROVE IInv'
<1>1. CASE NextLayer
  BY <1>1, NextLayerKeeps
<1>2. CASE GetFSFromLayers
  <2>1. PICK e \in todo : Whiteout(e) \/ ExtractFile(e)
    BY <1>2 DEF GetFSFromLayers
  <2>2. UNCHANGED image
    BY <1>2 DEF GetFSFromLayers
  <2> QED
    BY <2>1, <2>2, WhiteoutKeeps, ExtractKeeps
<1>3. CASE ReadFails
  BY <1>3, ErrorKeeps DEF ReadFails
<1>4. CASE DeleteFilesystem
  BY <1>4, DeleteKeeps
<1>5. CASE UNCHANGED vars
  BY <1>5 DEF vars, IInv, Clear, Kept, LinksApart, WayIsFree
<1> QED
  BY <1>1, <1>2, <1>3, <1>4, <1>5 DEF Next

(***************************************************************************)
(* ExtractFile, the whiteouts of GetFSFromLayers, DeleteFilesystem: what   *)
(* was mounted or is kaniko's own stays what it was, for all images that   *)
(* keep apart from it, however many layers they have, in whatever order    *)
(* their entries come and wherever a try breaks off.                       *)
(***************************************************************************)
THEOREM MountsStay == ASSUME Apart PROVE Spec => []MountsAreKept
<1>1. Init => IInv
  BY InitIInv
<1>2. IInv /\ [Next]_vars => IInv'
  BY NextIInv
<1>3. IInv => MountsAreKept
  BY DEF IInv, Kept, MountsAreKept
<1> QED
  BY <1>1, <1>2, <1>3, PTL DEF Spec

-----------------------------------------------------------------------------
(***************************************************************************)
(* A path with no link on it leads to itself: to what is there, or to the  *)
(* first thing that is missing or in the way.                              *)
(***************************************************************************)
LEMMA Unlinked ==
    ASSUME NEW d \in [Path -> Node], NEW q \in Path,
           \A a \in Path : HasPrefix(q, a) => d[a].kind # "link"
    PROVE  LET r == evalSymlinks(d, q)
           IN  /\ r.path = q /\ r.err \in {"ok", "ENOENT", "ENOTDIR"}
               /\ (\A a \in ParentDirectories(q) : d[a].kind \in {"none", "dir"}) => r.err \in {"ok", "ENOENT"}
               /\ r.err = "ok" => d[q].kind \in {"dir", "file"}
               /\ r.err = "ENOENT" => \E a \in Path : HasPrefix(q, a) /\ d[a].kind = "none"
<1> DEFINE N == Cardinality(Path)
           r == evalSymlinks(d, q)
<1>0. N \in Nat
  BY ExtractAssumption, FS_CardinalityType
<1>1. PICK f : Evaluates(d, N, f) /\ r = f[N][q]
  BY EvalSymlinksIs
<1> HIDE DEF N, r
<1>2. \E v : r = Look(d, q, N, v)
  <2>1. f = [n \in 0 .. N |-> [y \in Path |-> Look(d, y, n, f[n - 1][Onto(d, y)])]]
    BY <1>1 DEF Evaluates
  <2>2. N \in 0 .. N
    BY <1>0
  <2> QED
    BY <1>1, <2>1, <2>2
<1>3. PICK v : r = Look(d, q, N, v)
  BY <1>2
<1>4. CASE Stops(d, q) = {}
  <2>1. d[q].kind = "dir"
    BY <1>4 DEF Stops
  <2>2. r = [err |-> "ok", path |-> q]
    BY <1>3, <1>4 DEF Look
  <2> QED
    BY <2>1, <2>2 DEF r
<1>5. CASE Stops(d, q) # {}
  <2> DEFINE a == FirstStop(d, q)
  <2>1. a \in Stops(d, q)
    BY <1>5, FirstStopIsStop
  <2>2. a \in Path /\ d[a].kind # "dir" /\ HasPrefix(q, a)
    BY <2>1, PathAssumption DEF Stops, HasPrefix
  <2>3. d[a].kind \in {"none", "file"}
    BY <2>2 DEF Node, Kind
  <2>4. r = IF d[a].kind = "none" THEN [err |-> "ENOENT", path |-> q]
            ELSE [err |-> IF a = q THEN "ok" ELSE "ENOTDIR", path |-> q]
    BY <1>3, <1>5, <2>3 DEF Look
  <2> HIDE DEF a
  <2> QED
    BY <2>2, <2>3, <2>4 DEF r, HasPrefix
<1> QED
  BY <1>4, <1>5

(***************************************************************************)
(* An entry at p turned d into d2: its directories are there, and nothing  *)
(* else has changed but p and, if it is no directory now, what was below.  *)
(***************************************************************************)
Written(d, p, d2) ==
    /\ d2 \in [Path -> Node]
    /\ d2[p].kind # "none"
    /\ \A q \in ParentDirectories(p) :
          d2[q].kind = "dir" /\ (d2[q] = d[q] \/ d[q].kind = "none")
    /\ \A q \in Path : q # p /\ q \notin ParentDirectories(p) =>
          d2[q] = IF d2[p].kind # "dir" /\ Below(q, p) THEN Absent ELSE d[q]

(***************************************************************************)
(* What is above a path is what is at or above its directory, and is not   *)
(* below the path.                                                         *)
(***************************************************************************)
LEMMA AboveAPath ==
    ASSUME NEW p \in Path, p # Root
    PROVE  /\ \A q : q \in ParentDirectories(p) <=> HasPrefix(Dir(p), q)
           /\ \A q \in ParentDirectories(p) : q \in Path /\ q # p /\ ~HasPrefix(q, p)
<1>0. Dir(p) \in ParentDirectories(p) /\ Dir(p) \in Path
  BY DirIsParent
<1>1. ASSUME NEW q \in ParentDirectories(p) PROVE HasPrefix(Dir(p), q)
  BY ParentsOfDir DEF HasPrefix
<1>2. ASSUME NEW q, HasPrefix(Dir(p), q) PROVE q \in ParentDirectories(p)
  BY <1>0, <1>2, ParentsTransitive DEF HasPrefix
<1>3. ASSUME NEW q \in ParentDirectories(p) PROVE q \in Path /\ q # p /\ ~HasPrefix(q, p)
  <2>1. q \in Path /\ Len(q) \in Nat /\ Len(p) \in Nat /\ Len(q) < Len(p)
    BY ParentsShorter
  <2>2. q # p
    BY <2>1
  <2>3. ASSUME p \in ParentDirectories(q) PROVE FALSE
    <3>1. q # Root
      BY <2>3 DEF ParentDirectories
    <3>2. Len(p) < Len(q)
      BY <2>1, <2>3, <3>1, ParentsShorter
    <3> QED
      BY <2>1, <3>2
  <2> QED
    BY <2>1, <2>2, <2>3 DEF HasPrefix
<1> QED
  BY <1>1, <1>2, <1>3

(***************************************************************************)
(* create, when nothing is in the way of the directories of p.             *)
(***************************************************************************)
LEMMA FileWritten ==
    ASSUME disk \in [Path -> Node], NEW p \in Path, p # Root, CanMkdirAll(disk, Dir(p)),
           NEW n \in Node, n.kind \in {"file", "link"}
    PROVE  Written(disk, p, create(p, n)) /\ create(p, n)[p] = n
<1> DEFINE d1 == MkdirAll(disk, Dir(p))
           d2 == RemoveAll(d1, p)
           d3 == [d2 EXCEPT ![p] = n]
<1>1. /\ d1 \in [Path -> Node]
      /\ \A q \in Path : IF q \in ParentDirectories(p) /\ disk[q].kind = "none"
                         THEN d1[q].kind = "dir" ELSE d1[q] = disk[q]
  BY AboveAPath, MadeNode DEF MkdirAll, Exists
<1>2. \A q \in ParentDirectories(p) : disk[q].kind \in {"none", "dir"}
  BY AboveAPath DEF CanMkdirAll
<1> HIDE DEF d1
<1>3. d2 \in [Path -> Node] /\ \A q \in Path : d2[q] = IF HasPrefix(q, p) THEN Absent ELSE d1[q]
  BY <1>1, AbsentNode DEF RemoveAll
<1> HIDE DEF d2
<1>4. d3 \in [Path -> Node] /\ d3[p] = n /\ \A q \in Path : q # p => d3[q] = d2[q]
  BY <1>3
<1> HIDE DEF d3
<1>5. \A q \in ParentDirectories(p) :
         d3[q].kind = "dir" /\ (d3[q] = disk[q] \/ disk[q].kind = "none")
  BY <1>1, <1>2, <1>3, <1>4, AboveAPath
<1>6. \A q \in Path : Below(q, p) => d3[q] = Absent
  BY <1>3, <1>4 DEF Below, HasPrefix
<1>7. \A q \in Path : q # p /\ q \notin ParentDirectories(p) /\ ~Below(q, p) => d3[q] = disk[q]
  BY <1>1, <1>3, <1>4 DEF Below, HasPrefix
<1>8. Written(disk, p, d3)
  BY <1>4, <1>5, <1>6, <1>7 DEF Written
<1>9. create(p, n) = d3
  BY DEF create, d1, d2, d3
<1> QED
  BY <1>4, <1>8, <1>9

(***************************************************************************)
(* MkdirAllWithPermissions, when no link is on the way.                    *)
(***************************************************************************)
LEMMA DirWritten ==
    ASSUME disk \in [Path -> Node], IsTree(disk), NEW p \in Path, p # Root,
           \A q \in ParentDirectories(p) : disk[q].kind \in {"none", "dir"},
           disk[p].kind # "link", NEW n \in Node
    PROVE  /\ Written(disk, p, MkdirAllWithPermissions(p, n))
           /\ MkdirAllWithPermissions(p, n)[p].kind = "dir"
           /\ MkdirAllWithPermissions(p, n)[p].perm = n.perm
           /\ ~MkdirFails(p)
<1> DEFINE stat == evalSymlinks(disk, p)
<1>0. n.perm \in Perm
  BY DEF Node
<1>1. /\ stat.path = p /\ stat.err \in {"ok", "ENOENT"}
      /\ stat.err = "ok" => disk[p].kind \in {"dir", "file"}
      /\ stat.err = "ENOENT" => \E a \in Path : HasPrefix(p, a) /\ disk[a].kind = "none"
  <2>1. \A a \in Path : HasPrefix(p, a) => disk[a].kind # "link"
    BY DEF HasPrefix
  <2> QED
    BY <2>1, Unlinked
<1>2. stat.err = "ENOENT" => disk[p].kind = "none"
  BY <1>1 DEF IsTree, HasPrefix, Exists
<1>3. disk[p].kind # "dir" => \A q \in Path : Below(q, p) => disk[q] = Absent
  BY DEF IsTree, Below, Exists
<1>4. ~MkdirFails(p)
  BY <1>1, <1>2 DEF MkdirFails, CanMkdirAll, HasPrefix
<1>5. CASE stat.err = "ok" /\ disk[p].kind = "dir"
  <2> DEFINE d2 == [disk EXCEPT ![p].perm = n.perm]
  <2>1. MkdirAllWithPermissions(p, n) = d2
    BY <1>1, <1>5 DEF MkdirAllWithPermissions
  <2>2. /\ d2 \in [Path -> Node] /\ d2[p].kind = "dir" /\ d2[p].perm = n.perm
        /\ \A q \in Path : q # p => d2[q] = disk[q]
    BY <1>0, <1>5 DEF Node
  <2> HIDE DEF d2
  <2>3. \A q \in ParentDirectories(p) : disk[q].kind = "dir" /\ d2[q] = disk[q]
    BY <1>5, <2>2, AboveAPath DEF IsTree, Exists
  <2>4. Written(disk, p, d2)
    BY <2>2, <2>3 DEF Written
  <2> QED
    BY <1>4, <2>1, <2>2, <2>4
<1>6. CASE disk[p].kind # "dir"
  <2> DEFINE free == IF stat.err = "ok" THEN RemoveAll(disk, p) ELSE disk
             d1 == MkdirAll(free, p)
             d2 == [d1 EXCEPT ![p].perm = n.perm]
  <2>1. MkdirAllWithPermissions(p, n) = d2
    BY <1>1, <1>6 DEF MkdirAllWithPermissions
  <2>2. /\ free \in [Path -> Node] /\ free[p].kind = "none"
        /\ \A q \in Path : q # p => free[q] = disk[q]
    <3>1. CASE stat.err = "ok"
      BY <1>3, <1>6, <3>1, AbsentNode DEF RemoveAll, Below, HasPrefix
    <3>2. CASE stat.err = "ENOENT"
      BY <1>2, <3>2
    <3> QED
      BY <1>1, <3>1, <3>2
  <2> HIDE DEF free
  <2>3. /\ d1 \in [Path -> Node] /\ d1[p].kind = "dir"
        /\ \A q \in Path : q # p => IF q \in ParentDirectories(p) /\ disk[q].kind = "none"
                                    THEN d1[q].kind = "dir" ELSE d1[q] = disk[q]
    BY <2>2, MadeNode DEF MkdirAll, Exists, HasPrefix
  <2> HIDE DEF d1
  <2>4. /\ d2 \in [Path -> Node] /\ d2[p].kind = "dir" /\ d2[p].perm = n.perm
        /\ \A q \in Path : q # p => d2[q] = d1[q]
    BY <1>0, <2>3 DEF Node
  <2> HIDE DEF d2
  <2>5. \A q \in ParentDirectories(p) :
           d2[q].kind = "dir" /\ (d2[q] = disk[q] \/ disk[q].kind = "none")
    BY <2>3, <2>4, AboveAPath
  <2>6. Written(disk, p, d2)
    BY <2>3, <2>4, <2>5 DEF Written
  <2> QED
    BY <1>4, <2>1, <2>4, <2>6
<1> QED
  BY <1>1, <1>2, <1>5, <1>6

-----------------------------------------------------------------------------
(***************************************************************************)
(* The invariant behind the rest.  While the entries T of layer k of the   *)
(* image s are still to come, all there is on the disk d is of some layer  *)
(* of the image, or held back; it is what layer k makes it, but for what   *)
(* has an entry in T; and what is not in layer k is in one to come, which  *)
(* a try before has unpacked, or makes way for an entry in T.              *)
(***************************************************************************)
HeldBack(p) == \E e \in Ignored, q \in Path \ {Root} : HasPrefix(p, q) /\ HasPrefix(e, q)

FromImage(d, s) ==
    \A p \in Path :
        /\ d[p].kind # "none" => p = Root \/ HeldBack(p) \/ \E i \in 1 .. Len(s) : s[i][p].kind # "none"
        /\ d[p].kind = "link" => \E i \in 1 .. Len(s) : s[i][p].kind = "link"

EntriesOf(t, d, T) ==
    \A e \in T :
        /\ e.path \in Path /\ e.path # Root
        /\ e.type = "whiteout" =>
             t[e.path].kind = "none" /\ t[Dir(e.path)].kind = "dir" /\ d[e.path].kind # "link"
        /\ e.type # "whiteout" =>
             /\ t[e.path].kind # "none" /\ e.node = t[e.path]
             /\ e.type = "dir" <=> t[e.path].kind = "dir"

Laid(t, d, T) ==
    \A p \in Path : t[p].kind # "none" /\ ~Ignores(p) =>
        Same(d[p], t[p]) \/ \E e \in T : e.path = p

Left(t, s, k, d, T) ==
    \A p \in Path : d[p].kind # "none" /\ t[p].kind = "none" /\ ~HeldBack(p) =>
        \/ \E i \in 1 .. Len(s) : i > k /\ s[i][p].kind # "none"
        \/ \E e \in T : e.type # "dir" /\ HasPrefix(p, e.path)

TreeAt(s, k) == IF k = 0 THEN Nothing ELSE s[k]

Unpacks(d, s, k, T) ==
    /\ d \in [Path -> Node] /\ IsTree(d) /\ d[Root] = Mounted[Root]
    /\ FromImage(d, s)
    /\ EntriesOf(TreeAt(s, k), d, T)
    /\ Laid(TreeAt(s, k), d, T)
    /\ Left(TreeAt(s, k), s, k, d, T)

UInv ==
    /\ IInv
    /\ Unpacks(disk, image, layer, todo)
    /\ read \in Nat /\ read <= MaxLayers /\ Len(image) <= read /\ IsImage(image)

(***************************************************************************)
(* What the layers add up to is a tree, with the root that was mounted.    *)
(***************************************************************************)
LEMMA TreeAtTree ==
    ASSUME Steady, NEW s \in Seq(Trees), NEW k \in 0 .. Len(s)
    PROVE  /\ TreeAt(s, k) \in [Path -> Node] /\ IsTree(TreeAt(s, k))
           /\ TreeAt(s, k)[Root] = Mounted[Root]
           /\ \A p \in Path : p # Root /\ TreeAt(s, k)[p].kind # "none" => k \in 1 .. Len(s) /\ TreeAt(s, k) = s[k]
<1>0. Len(s) \in Nat
  BY LenProperties
<1>1. CASE k = 0
  <2>1. TreeAt(s, k) = [p \in Path |-> IF p = Root THEN Mounted[Root] ELSE Absent]
    BY <1>1 DEF TreeAt, Nothing
  <2> DEFINE t == TreeAt(s, k)
  <2>2. t \in [Path -> Node] /\ t[Root] = Mounted[Root] /\ \A p \in Path : p # Root => t[p] = Absent
    BY <2>1, AbsentNode, ExtractAssumption, PathAssumption
  <2>3. Mounted[Root].kind = "dir"
    BY ExtractAssumption DEF IsTree
  <2>4. \A q \in ParentDirectories(Root) : q = Root
    BY DEF ParentDirectories
  <2> HIDE DEF t
  <2>5. IsTree(t)
    BY <2>2, <2>3, <2>4, AbsentNode DEF IsTree, Exists
  <2> QED
    BY <2>2, <2>5, AbsentNode DEF t
<1>2. CASE k # 0
  <2>1. k \in 1 .. Len(s) /\ TreeAt(s, k) = s[k]
    BY <1>0, <1>2 DEF TreeAt
  <2>2. s[k] \in Trees
    BY <2>1, ElementOfSeq
  <2> QED
    BY <2>1, <2>2, ExtractAssumption DEF Steady
<1> QED
  BY <1>1, <1>2

(***************************************************************************)
(* There is no link at or around an ignored path.                          *)
(***************************************************************************)
LEMMA NoLinksNear ==
    ASSUME Steady, NEW d, Clear(d), Kept(d), NEW p \in Path, Near(p)
    PROVE  d[p].kind # "link"
<1>1. CASE Ignores(p)
  BY <1>1 DEF Kept, Steady, Exists
<1>2. CASE ~Ignores(p)
  <2>1. Above(p)
    BY <1>2 DEF Near, Ignores, childDirInIgnoreList, Above, Below, HasPrefix
  <2> QED
    BY <2>1 DEF Clear, WayIsFree
<1> QED
  BY <1>1, <1>2

(***************************************************************************)
(* What is around an ignored path, and what is below it, is held back.     *)
(***************************************************************************)
LEMMA NearIsHeldBack ==
    ASSUME Steady, NEW p \in Path, NEW q \in Path, q # Root, Near(q), HasPrefix(p, q)
    PROVE  HeldBack(p)
<1>1. CASE Ignores(q)
  <2>1. PICK e \in Ignored : HasPrefix(q, e)
    BY <1>1 DEF Ignores
  <2>2. e \in Path /\ e # Root /\ HasPrefix(p, e) /\ HasPrefix(e, e)
    BY <2>1, ExtractAssumption, HasPrefixTransitive DEF Steady, HasPrefix
  <2> QED
    BY <2>2 DEF HeldBack
<1>2. CASE childDirInIgnoreList(q)
  BY <1>2 DEF childDirInIgnoreList, HeldBack
<1> QED
  BY <1>1, <1>2 DEF Near

(***************************************************************************)
(* A directory entry never finds a link at its path.                       *)
(***************************************************************************)
LEMMA NoLinkForDir ==
    ASSUME Steady, UInv, NEW p \in Path, p # Root, TreeAt(image, layer)[p].kind = "dir"
    PROVE  disk[p].kind # "link"
<1>1. /\ image \in Seq(Trees) /\ layer \in 0 .. Len(image)
      /\ Len(image) <= MaxLayers /\ Len(image) \in Nat /\ IsImage(image) /\ FromImage(disk, image)
  <2>1. image \in Seq(Trees) /\ read \in Nat /\ read <= MaxLayers /\ Len(image) <= read /\ MaxLayers \in Nat
    BY ExtractAssumption DEF UInv, IInv
  <2>2. Len(image) \in Nat
    BY <2>1, LenProperties
  <2> QED
    BY <2>1, <2>2 DEF UInv, IInv, Unpacks
<1>2. layer \in 1 .. Len(image) /\ TreeAt(image, layer) = image[layer]
  BY <1>1, TreeAtTree
<1>3. image \in [1 .. Len(image) -> Trees] /\ Len(image) \in 0 .. MaxLayers
  BY <1>1, LenProperties, ExtractAssumption
<1>4. \A i \in 1 .. Len(image) : image[i][p].kind # "link"
  BY <1>1, <1>2, <1>3 DEF Steady
<1> QED
  BY <1>1, <1>4 DEF FromImage

(***************************************************************************)
(* A file is in the place of a directory that is to come, above an entry.  *)
(***************************************************************************)
Disorder(e) == \E f \in todo : f.type = "dir" /\ Below(e.path, f.path) /\ disk[f.path].kind = "file"

(***************************************************************************)
(* On the way to an entry there is no link; and what is neither there nor  *)
(* missing is a file for which a directory is to come.                     *)
(***************************************************************************)
LEMMA WayToEntry ==
    ASSUME Steady, UInv, NEW e \in todo
    PROVE  \A q \in ParentDirectories(e.path) :
              disk[q].kind # "link" /\ (~Ignores(q) => disk[q].kind \in {"none", "dir"} \/ Disorder(e))
<1> DEFINE t == TreeAt(image, layer)
           p == e.path
<1>1. t \in [Path -> Node] /\ IsTree(t)
  BY TreeAtTree DEF UInv, IInv
<1>2. EntriesOf(t, disk, todo) /\ Laid(t, disk, todo) /\ disk \in [Path -> Node] /\ IsTree(disk)
  BY DEF UInv, Unpacks
<1>3. p \in Path /\ p # Root
  BY <1>2 DEF EntriesOf
<1>4. \A q \in ParentDirectories(p) : t[q].kind = "dir"
  <2> HIDE DEF t
  <2>1. CASE e.type = "whiteout"
    <3>1. t[Dir(p)].kind = "dir" /\ Dir(p) \in Path
      BY <1>2, <1>3, <2>1, DirIsParent DEF EntriesOf
    <3> HIDE DEF p
    <3> QED
      BY <1>1, <1>3, <3>1, ParentsOfDir DEF IsTree, Exists
  <2>2. CASE e.type # "whiteout"
    <3>1. t[p].kind # "none"
      BY <1>2, <2>2 DEF EntriesOf
    <3> HIDE DEF p
    <3> QED
      BY <1>1, <1>3, <3>1 DEF IsTree, Exists
  <2> QED
    BY <2>1, <2>2
<1> TAKE q \in ParentDirectories(e.path)
<1>5. q \in Path /\ q # p /\ t[q].kind = "dir"
  BY <1>3, <1>4, AboveAPath
<1>6. disk[q].kind # "link"
  <2>1. CASE q = Root
    BY <1>2, <2>1 DEF IsTree
  <2>2. CASE q # Root
    BY <1>5, <2>2, NoLinkForDir
  <2> QED
    BY <2>1, <2>2
<1> HIDE DEF t
<1>7. ASSUME ~Ignores(q), disk[q].kind \notin {"none", "dir"} PROVE Disorder(e)
  <2>1. disk[q].kind = "file"
    BY <1>2, <1>5, <1>6, <1>7 DEF Node, Kind
  <2>2. PICK f \in todo : f.path = q
    BY <1>2, <1>5, <1>7 DEF Laid, Same
  <2>3. f.type = "dir"
    BY <1>2, <1>5, <2>2 DEF EntriesOf
  <2> QED
    BY <1>5, <2>1, <2>2, <2>3 DEF Disorder, Below
<1> QED
  BY <1>6, <1>7

(***************************************************************************)
(* So an entry is looked for, and written, under its own path.             *)
(***************************************************************************)
LEMMA EntryItself ==
    ASSUME Steady, UInv, NEW e \in todo
    PROVE  /\ e.path \in Path /\ e.path # Root
           /\ e.type = "whiteout" => ResolvePathInRoot(e.path) = e.path /\ ~LoopsInRoot(e.path)
           /\ resolveLeafInRoot(e.path) = e.path /\ ~LoopsInRoot(Dir(e.path))
<1>0. e.path \in Path /\ e.path # Root /\ disk \in [Path -> Node]
  BY DEF UInv, Unpacks, EntriesOf
<1>1. \A q \in ParentDirectories(e.path) : q \in Path /\ disk[q].kind # "link"
  BY <1>0, WayToEntry, AboveAPath
<1>2. ASSUME e.type = "whiteout" PROVE ResolvePathInRoot(e.path) = e.path /\ ~LoopsInRoot(e.path)
  <2>1. disk[e.path].kind # "link"
    BY <1>2 DEF UInv, Unpacks, EntriesOf
  <2>2. \A a \in Path : HasPrefix(e.path, a) => disk[a].kind # "link"
    BY <1>1, <2>1 DEF HasPrefix
  <2> QED
    BY <1>0, <2>2, Unlinked DEF ResolvePathInRoot, LoopsInRoot
<1>3. ResolvePathInRoot(Dir(e.path)) = Dir(e.path) /\ ~LoopsInRoot(Dir(e.path))
  <2>1. Dir(e.path) \in Path
    BY <1>0, DirIsParent
  <2>2. \A a \in Path : HasPrefix(Dir(e.path), a) => disk[a].kind # "link"
    BY <1>0, <1>1, AboveAPath
  <2> QED
    BY <1>0, <2>1, <2>2, Unlinked DEF ResolvePathInRoot, LoopsInRoot
<1>4. resolveLeafInRoot(e.path) = e.path
  BY <1>0, <1>3, DirAndLast DEF resolveLeafInRoot
<1> QED
  BY <1>0, <1>2, <1>3, <1>4

(***************************************************************************)
(* Above an entry that is not ignored there are directories, or nothing,   *)
(* unless there is disorder.                                               *)
(***************************************************************************)
LEMMA WayIsOpen ==
    ASSUME Steady, UInv, NEW e \in todo, ~Ignores(e.path), ~Disorder(e)
    PROVE  \A q \in ParentDirectories(e.path) : q \in Path /\ disk[q].kind \in {"none", "dir"}
<1> TAKE q \in ParentDirectories(e.path)
<1>1. q \in Path /\ HasPrefix(e.path, q) /\ e.path \in Path
  BY EntryItself, AboveAPath DEF HasPrefix
<1>2. ~Ignores(q)
  BY <1>1, IgnoresBelow
<1> QED
  BY <1>1, <1>2, WayToEntry

(***************************************************************************)
(* A tree stays one when an entry is written.                              *)
(***************************************************************************)
LEMMA WrittenTree ==
    ASSUME NEW d \in [Path -> Node], IsTree(d), NEW p \in Path, p # Root, NEW d2, Written(d, p, d2)
    PROVE  IsTree(d2) /\ d2[Root] = d[Root]
<1>1. Root \in ParentDirectories(p) /\ d[Root].kind = "dir" /\ Root \in Path
  BY RootIsParent, PathAssumption DEF IsTree
<1>2. d2[Root].kind = "dir" /\ d2[Root] = d[Root]
  BY <1>1 DEF Written
<1>3. ASSUME NEW q \in Path, d2[q].kind = "none" PROVE d2[q] = Absent
  BY <1>3 DEF Written, IsTree
<1>4. ASSUME NEW q \in Path, d2[q].kind # "none", NEW r \in ParentDirectories(q) PROVE d2[r].kind = "dir"
  <2>1. CASE q = p \/ q \in ParentDirectories(p)
    BY <2>1, ParentsTransitive DEF Written
  <2>2. CASE q # p /\ q \notin ParentDirectories(p)
    <3>0. q # Root
      BY <1>1, <2>2
    <3>1. d2[q] = d[q] /\ ~(d2[p].kind # "dir" /\ Below(q, p))
      BY <1>4, <2>2, AbsentNode DEF Written
    <3>2. d[r].kind = "dir" /\ r \in Path
      BY <1>4, <3>1, PathAssumption DEF IsTree, Exists
    <3>3. CASE r = p
      BY <2>2, <3>1, <3>3 DEF Below
    <3>4. CASE r \in ParentDirectories(p)
      BY <3>4 DEF Written
    <3>5. CASE r # p /\ r \notin ParentDirectories(p)
      <4>1. Below(r, p) => Below(q, p)
        BY <2>2, ParentsTransitive DEF Below
      <4> QED
        BY <3>1, <3>2, <3>5, <4>1 DEF Written
    <3> QED
      BY <3>3, <3>4, <3>5
  <2> QED
    BY <2>1, <2>2
<1> QED
  BY <1>2, <1>3, <1>4 DEF IsTree, Exists

(***************************************************************************)
(* When an entry has been written, the rest is still to come.              *)
(***************************************************************************)
LEMMA WrittenUnpacks ==
    ASSUME Steady, NEW s \in Seq(Trees), NEW k \in 0 .. Len(s), NEW d, NEW T, Unpacks(d, s, k, T),
           NEW e \in T, e.type # "whiteout", NEW d2, Written(d, e.path, d2),
           Same(d2[e.path], TreeAt(s, k)[e.path])
    PROVE  Unpacks(d2, s, k, T \ {e})
<1> DEFINE t == TreeAt(s, k)
           p == e.path
           U == T \ {e}
<1>1. t \in [Path -> Node] /\ IsTree(t) /\ t[Root] = Mounted[Root]
  BY TreeAtTree
<1>2. /\ d \in [Path -> Node] /\ IsTree(d) /\ d[Root] = Mounted[Root]
      /\ FromImage(d, s) /\ EntriesOf(t, d, T) /\ Laid(t, d, T) /\ Left(t, s, k, d, T)
  BY DEF Unpacks
<1>3. /\ p \in Path /\ p # Root /\ t[p].kind # "none" /\ (e.type = "dir" <=> t[p].kind = "dir")
  BY <1>2 DEF EntriesOf
<1>4. k \in 1 .. Len(s) /\ t = s[k]
  BY <1>3, TreeAtTree
<1>5. Same(d2[p], t[p]) /\ Written(d, p, d2)
  OBVIOUS
<1> HIDE DEF t, p
<1>6. IsTree(d2) /\ d2[Root] = Mounted[Root] /\ d2 \in [Path -> Node]
  BY <1>2, <1>3, <1>5, WrittenTree DEF Written
<1>7. \A q \in ParentDirectories(p) : q \in Path /\ t[q].kind = "dir"
  BY <1>1, <1>3, AboveAPath DEF IsTree, Exists
<1>8. d2[p].kind = t[p].kind
  BY <1>5 DEF Same
<1>9. FromImage(d2, s)
  <2> SUFFICES ASSUME NEW q \in Path
               PROVE  /\ d2[q].kind # "none" => q = Root \/ HeldBack(q) \/ \E i \in 1 .. Len(s) : s[i][q].kind # "none"
                      /\ d2[q].kind = "link" => \E i \in 1 .. Len(s) : s[i][q].kind = "link"
    BY DEF FromImage
  <2>1. CASE q = p
    BY <1>3, <1>4, <1>8, <2>1
  <2>2. CASE q \in ParentDirectories(p)
    BY <1>4, <1>5, <1>7, <2>2 DEF Written
  <2>3. CASE q # p /\ q \notin ParentDirectories(p)
    <3>1. d2[q] = d[q] \/ d2[q].kind = "none"
      BY <1>5, <2>3, AbsentNode DEF Written
    <3> QED
      BY <1>2, <3>1 DEF FromImage
  <2> QED
    BY <2>1, <2>2, <2>3
<1>10. EntriesOf(t, d2, U)
  <2>1. ASSUME NEW f \in U, f.type = "whiteout" PROVE d2[f.path].kind # "link"
    <3>1. f.path \in Path /\ t[f.path].kind = "none" /\ d[f.path].kind # "link"
      BY <1>2, <2>1 DEF EntriesOf
    <3>2. f.path # p /\ f.path \notin ParentDirectories(p)
      BY <1>3, <1>7, <3>1
    <3> QED
      BY <1>5, <3>1, <3>2, AbsentNode DEF Written
  <2> QED
    BY <1>2, <2>1 DEF EntriesOf
<1>11. Laid(t, d2, U)
  <2> SUFFICES ASSUME NEW q \in Path, t[q].kind # "none", ~Ignores(q), ~ \E f \in U : f.path = q
               PROVE  Same(d2[q], t[q])
    BY DEF Laid
  <2>1. CASE q = p
    BY <1>5, <2>1
  <2>2. CASE q # p
    <3>1. Same(d[q], t[q])
      <4>1. ~ \E f \in T : f.path = q
        BY <2>2 DEF p
      <4> QED
        BY <1>2, <4>1 DEF Laid
    <3>2. d[q].kind # "none"
      BY <3>1 DEF Same
    <3>3. d2[p].kind # "dir" => ~Below(q, p)
      BY <1>1, <1>3, <1>8 DEF Below, IsTree, Exists
    <3>4. d2[q] = d[q]
      BY <1>5, <2>2, <3>2, <3>3 DEF Written
    <3> QED
      BY <3>1, <3>4
  <2> QED
    BY <2>1, <2>2
<1>12. Left(t, s, k, d2, U)
  <2> SUFFICES ASSUME NEW q \in Path, d2[q].kind # "none", t[q].kind = "none", ~HeldBack(q),
                      ~ \E i \in 1 .. Len(s) : i > k /\ s[i][q].kind # "none"
               PROVE  \E f \in U : f.type # "dir" /\ HasPrefix(q, f.path)
    BY DEF Left
  <2>1. q # p /\ q \notin ParentDirectories(p)
    BY <1>3, <1>7
  <2>2. d2[q] = d[q] /\ ~(d2[p].kind # "dir" /\ Below(q, p))
    BY <1>5, <2>1, AbsentNode DEF Written
  <2>3. PICK f \in T : f.type # "dir" /\ HasPrefix(q, f.path)
    BY <1>2, <2>2 DEF Left
  <2>4. f # e
    BY <1>3, <1>8, <2>1, <2>2, <2>3 DEF Below, HasPrefix, p
  <2> QED
    BY <2>3, <2>4
<1> HIDE DEF U
<1> QED
  BY <1>6, <1>9, <1>10, <1>11, <1>12 DEF Unpacks, t, U

(***************************************************************************)
(* Nor does a whiteout that is not held back disturb the rest.             *)
(***************************************************************************)
LEMMA RemovedUnpacks ==
    ASSUME Steady, NEW s \in Seq(Trees), NEW k \in 0 .. Len(s), NEW d, NEW T, Unpacks(d, s, k, T),
           NEW e \in T, e.type = "whiteout"
    PROVE  Unpacks(RemoveAll(d, e.path), s, k, T \ {e})
<1> DEFINE t == TreeAt(s, k)
           p == e.path
           U == T \ {e}
           d2 == RemoveAll(d, p)
<1>1. t \in [Path -> Node] /\ IsTree(t) /\ t[Root] = Mounted[Root]
  BY TreeAtTree
<1>2. /\ d \in [Path -> Node] /\ IsTree(d) /\ d[Root] = Mounted[Root]
      /\ FromImage(d, s) /\ EntriesOf(t, d, T) /\ Laid(t, d, T) /\ Left(t, s, k, d, T)
  BY DEF Unpacks
<1>3. /\ p \in Path /\ p # Root /\ t[p].kind = "none"
  BY <1>2 DEF EntriesOf
<1> HIDE DEF t
<1>4. d2 \in [Path -> Node] /\ \A q \in Path : d2[q] = IF HasPrefix(q, p) THEN Absent ELSE d[q]
  BY <1>2, AbsentNode DEF RemoveAll
<1> HIDE DEF d2
<1>5. IsTree(d2) /\ d2[Root] = Mounted[Root]
  <2>1. ~HasPrefix(Root, p) /\ Root \in Path
    BY <1>3, PathAssumption DEF HasPrefix, ParentDirectories
  <2>2. ASSUME NEW q \in Path, d2[q].kind # "none", NEW r \in ParentDirectories(q) PROVE d2[r].kind = "dir"
    <3>1. ~HasPrefix(q, p) /\ d2[q] = d[q] /\ r \in Path
      BY <1>4, <2>2, AbsentNode, PathAssumption
    <3>2. ~HasPrefix(r, p)
      <4>1. HasPrefix(q, r)
        BY DEF HasPrefix
      <4> QED
        BY <3>1, <4>1, HasPrefixTransitive
    <3> QED
      BY <1>2, <1>4, <2>2, <3>1, <3>2 DEF IsTree, Exists
  <2> QED
    BY <1>2, <1>4, <2>1, <2>2, AbsentNode DEF IsTree, Exists
<1>6. FromImage(d2, s)
  BY <1>2, <1>4, AbsentNode DEF FromImage
<1>7. EntriesOf(t, d2, U)
  BY <1>2, <1>4, AbsentNode DEF EntriesOf
<1>8. Laid(t, d2, U)
  <2> SUFFICES ASSUME NEW q \in Path, t[q].kind # "none", ~Ignores(q), ~ \E f \in U : f.path = q
               PROVE  Same(d2[q], t[q])
    BY DEF Laid
  <2>1. q # p
    BY <1>3
  <2>2. Same(d[q], t[q])
    BY <1>2, <2>1 DEF Laid
  <2>3. ~HasPrefix(q, p)
    BY <1>1, <1>3, <2>1 DEF HasPrefix, IsTree, Exists
  <2> QED
    BY <1>4, <2>2, <2>3
<1>9. Left(t, s, k, d2, U)
  <2> SUFFICES ASSUME NEW q \in Path, d2[q].kind # "none", t[q].kind = "none", ~HeldBack(q),
                      ~ \E i \in 1 .. Len(s) : i > k /\ s[i][q].kind # "none"
               PROVE  \E f \in U : f.type # "dir" /\ HasPrefix(q, f.path)
    BY DEF Left
  <2>1. d2[q] = d[q] /\ ~HasPrefix(q, p)
    BY <1>4, AbsentNode
  <2>2. PICK f \in T : f.type # "dir" /\ HasPrefix(q, f.path)
    BY <1>2, <2>1 DEF Left
  <2> QED
    BY <2>1, <2>2
<1> HIDE DEF U
<1> QED
  BY <1>4, <1>5, <1>6, <1>7, <1>8, <1>9 DEF Unpacks, t, U, d2

(***************************************************************************)
(* Nor does an entry that is left out, at or around an ignored path.       *)
(***************************************************************************)
LEMMA SkippedUnpacks ==
    ASSUME Steady, NEW s \in Seq(Trees), NEW k \in 0 .. Len(s), NEW d, NEW T, Unpacks(d, s, k, T),
           NEW e \in T, Near(e.path), e.type # "whiteout" => Ignores(e.path)
    PROVE  Unpacks(d, s, k, T \ {e})
<1> DEFINE t == TreeAt(s, k)
           U == T \ {e}
<1>2. EntriesOf(t, d, T) /\ Laid(t, d, T) /\ Left(t, s, k, d, T)
  BY DEF Unpacks
<1>3. /\ e.path \in Path /\ e.path # Root
      /\ e.type = "whiteout" => t[e.path].kind = "none"
  BY <1>2 DEF EntriesOf
<1> HIDE DEF t
<1>4. EntriesOf(t, d, U)
  BY <1>2 DEF EntriesOf
<1>5. Laid(t, d, U)
  BY <1>2, <1>3 DEF Laid
<1>6. Left(t, s, k, d, U)
  <2>1. \A q \in Path : HasPrefix(q, e.path) => HeldBack(q)
    BY <1>3, NearIsHeldBack
  <2> QED
    BY <1>2, <2>1 DEF Left
<1> HIDE DEF U
<1> QED
  BY <1>4, <1>5, <1>6 DEF Unpacks, t, U

(***************************************************************************)
(* What an entry of the layer between two trees is.                        *)
(***************************************************************************)
LEMMA LayerEntry ==
    ASSUME NEW b, NEW t \in [Path -> Node], IsTree(t), b[Root] = t[Root], NEW e \in LayerOf(b, t)
    PROVE  /\ e.path \in Path /\ e.path # Root
           /\ e.type = "whiteout" =>
                t[e.path].kind = "none" /\ t[Dir(e.path)].kind = "dir" /\ e.path \in Gone(b, t)
           /\ e.type # "whiteout" =>
                /\ t[e.path].kind # "none" /\ e.node = t[e.path]
                /\ e.type = "dir" <=> t[e.path].kind = "dir"
<1>1. CASE \E p \in Gone(b, t) : e = [type |-> "whiteout", path |-> p, node |-> Absent]
  BY <1>1 DEF Gone, Exists, IsTree
<1>2. CASE \E p \in {q \in Path : Exists(t, q) /\ b[q] # t[q]} :
             e = [type |-> TypeOf(t[p]), path |-> p, node |-> t[p]]
  <2>1. PICK p \in Path : /\ Exists(t, p) /\ b[p] # t[p]
                          /\ e = [type |-> TypeOf(t[p]), path |-> p, node |-> t[p]]
    BY <1>2
  <2>2. t[p].kind \in {"dir", "file", "link"}
    BY <2>1 DEF Exists, Node, Kind
  <2>3. TypeOf(t[p]) # "whiteout" /\ (TypeOf(t[p]) = "dir" <=> t[p].kind = "dir")
    BY <2>2 DEF TypeOf
  <2>4. e.type = TypeOf(t[p]) /\ e.path = p /\ e.node = t[p]
    BY <2>1
  <2> QED
    BY <2>1, <2>3, <2>4 DEF Exists
<1> QED
  BY <1>1, <1>2 DEF LayerOf

(***************************************************************************)
(* What was in a tree and is not in the next one goes with an entry.       *)
(***************************************************************************)
LEMMA GoneWithEntry ==
    ASSUME NEW b \in [Path -> Node], IsTree(b), NEW t \in [Path -> Node], IsTree(t),
           NEW p \in Path, b[p].kind # "none", t[p].kind = "none"
    PROVE  \E e \in LayerOf(b, t) : e.type # "dir" /\ HasPrefix(p, e.path)
<1> DEFINE S == {q \in Path : t[q].kind # "dir"}
<1>1. PICK q \in S : HasPrefix(p, q) /\ \A r \in S : r \in ParentDirectories(q) => r = q
  <2>1. p \in S /\ HasPrefix(p, p)
    BY DEF HasPrefix
  <2> HIDE DEF S
  <2>2. S \in SUBSET Path
    BY DEF S
  <2> QED
    BY <2>1, <2>2, TopmostPrefix
<1>2. q \in Path /\ t[q].kind # "dir" /\ q # Root
  BY DEF IsTree
<1>3. Dir(q) \in ParentDirectories(q) /\ Dir(q) \in Path /\ Dir(q) # q
  BY <1>2, AboveAPath, DirIsParent
<1>4. t[Dir(q)].kind = "dir"
  BY <1>1, <1>3
<1>5. b[q].kind # "none" /\ (q # p => b[q].kind = "dir")
  BY <1>1 DEF IsTree, Exists, HasPrefix
<1>6. CASE t[q].kind = "none"
  <2> DEFINE e == [type |-> "whiteout", path |-> q, node |-> Absent]
  <2>1. q \in Gone(b, t)
    BY <1>2, <1>4, <1>5, <1>6 DEF Gone, Exists
  <2>2. e \in LayerOf(b, t)
    BY <2>1 DEF LayerOf
  <2>3. e.type # "dir" /\ e.path = q
    OBVIOUS
  <2> HIDE DEF e
  <2> QED
    BY <1>1, <2>2, <2>3
<1>7. CASE t[q].kind # "none"
  <2> DEFINE e == [type |-> TypeOf(t[q]), path |-> q, node |-> t[q]]
  <2>1. q # p /\ b[q] # t[q] /\ Exists(t, q)
    BY <1>2, <1>5, <1>7 DEF Exists
  <2>2. e \in LayerOf(b, t)
    BY <1>2, <2>1 DEF LayerOf
  <2>3. t[q].kind \in {"file", "link"}
    BY <1>2, <1>7 DEF Node, Kind
  <2>4. e.type # "dir" /\ e.path = q
    BY <2>3 DEF TypeOf
  <2> HIDE DEF e
  <2> QED
    BY <1>1, <2>2, <2>4
<1> QED
  BY <1>6, <1>7

(***************************************************************************)
(* The next layer: its entries are to come, the disk is as the layers      *)
(* before made it.                                                         *)
(***************************************************************************)
LEMMA LayerUnpacks ==
    ASSUME Steady, NEW s \in Seq(Trees), NEW k \in 0 .. Len(s), NEW d, Unpacks(d, s, k, {}),
           Clear(d), Kept(d),
           NEW s2 \in Seq(Trees), IsImage(s2), k + 1 \in 1 .. Len(s2),
           Len(s) <= Len(s2), \A i \in 1 .. Len(s) : s2[i] = s[i]
    PROVE  Unpacks(d, s2, k + 1, LayerOf(TreeAt(s, k), s2[k + 1]))
<1> DEFINE b == TreeAt(s, k)
           t == TreeAt(s2, k + 1)
           T == LayerOf(b, t)
<1>0. Len(s) \in Nat /\ Len(s2) \in Nat /\ k \in Nat /\ DOMAIN s2 = 1 .. Len(s2)
  BY LenProperties
<1>1. b \in [Path -> Node] /\ IsTree(b) /\ b[Root] = Mounted[Root]
  BY TreeAtTree
<1>2. t \in [Path -> Node] /\ IsTree(t) /\ t[Root] = Mounted[Root] /\ t = s2[k + 1] /\ t \in Trees
  <2>1. k + 1 \in 0 .. Len(s2) /\ k + 1 # 0
    BY <1>0
  <2>2. t = s2[k + 1]
    BY <2>1 DEF TreeAt
  <2> QED
    BY <2>1, <2>2, TreeAtTree, ElementOfSeq
<1>3. Follows(b, t)
  <2>1. Follows(IF k + 1 = 1 THEN Nothing ELSE s2[k], s2[k + 1])
    <3>1. (k + 1) - 1 = k
      BY <1>0
    <3> QED
      BY <1>0, <3>1 DEF IsImage
  <2>2. k # 0 => k \in 1 .. Len(s)
    BY <1>0
  <2>3. b = IF k + 1 = 1 THEN Nothing ELSE s2[k]
    BY <1>0, <2>2 DEF TreeAt
  <2> HIDE DEF t, b
  <2> QED
    BY <1>2, <2>1, <2>3
<1>4. \A p \in Gone(b, t) : b[p].kind # "link"
  <2>1. CASE k = 0
    BY <2>1, TreeAtTree DEF Gone, Exists, IsTree
  <2>2. CASE k # 0
    <3>1. b \in Trees
      <4>1. k \in 1 .. Len(s)
        BY <1>0, <2>2
      <4> QED
        BY <2>2, <4>1, ElementOfSeq DEF TreeAt
    <3> QED
      BY <1>2, <1>3, <3>1 DEF Steady
  <2> QED
    BY <2>1, <2>2
<1>5. /\ d \in [Path -> Node] /\ IsTree(d) /\ d[Root] = Mounted[Root]
      /\ FromImage(d, s) /\ Laid(b, d, {}) /\ Left(b, s, k, d, {})
  BY DEF Unpacks
<1> HIDE DEF b, t
<1>6. FromImage(d, s2)
  <2>1. \A i \in 1 .. Len(s) : i \in 1 .. Len(s2) /\ s2[i] = s[i]
    BY <1>0
  <2> QED
    BY <1>5, <2>1 DEF FromImage
<1>7. EntriesOf(t, d, T)
  <2> SUFFICES ASSUME NEW e \in T, e.type = "whiteout" PROVE d[e.path].kind # "link"
    BY <1>1, <1>2, LayerEntry DEF EntriesOf
  <2>1. e.path \in Path /\ e.path \in Gone(b, t)
    BY <1>1, <1>2, LayerEntry
  <2>2. b[e.path].kind \notin {"none", "link"}
    BY <1>4, <2>1 DEF Gone, Exists
  <2>3. CASE Ignores(e.path)
    BY <2>1, <2>3, NoLinksNear DEF Near
  <2>4. CASE ~Ignores(e.path)
    BY <1>5, <2>1, <2>2, <2>4 DEF Laid, Same
  <2> QED
    BY <2>3, <2>4
<1>8. Laid(t, d, T)
  <2> SUFFICES ASSUME NEW p \in Path, t[p].kind # "none", ~Ignores(p), t[p] # b[p]
               PROVE  \E e \in T : e.path = p
    BY <1>5 DEF Laid
  <2> DEFINE e == [type |-> TypeOf(t[p]), path |-> p, node |-> t[p]]
  <2>1. e \in T
    BY DEF LayerOf, Exists
  <2>2. e.path = p
    OBVIOUS
  <2> HIDE DEF e, T
  <2> QED
    BY <2>1, <2>2
<1>9. Left(t, s2, k + 1, d, T)
  <2> SUFFICES ASSUME NEW p \in Path, d[p].kind # "none", t[p].kind = "none", ~HeldBack(p),
                      ~ \E i \in 1 .. Len(s2) : i > k + 1 /\ s2[i][p].kind # "none"
               PROVE  \E e \in T : e.type # "dir" /\ HasPrefix(p, e.path)
    BY DEF Left
  <2>1. b[p].kind # "none"
    <3> SUFFICES ASSUME b[p].kind = "none" PROVE FALSE
      OBVIOUS
    <3>1. PICK i \in 1 .. Len(s) : i > k /\ s[i][p].kind # "none"
      BY <1>5 DEF Left
    <3>2. i \in 1 .. Len(s2) /\ s2[i] = s[i] /\ (i = k + 1 \/ i > k + 1)
      BY <1>0, <3>1
    <3> QED
      BY <1>2, <3>1, <3>2
  <2> QED
    BY <1>1, <1>2, <2>1, GoneWithEntry
<1> HIDE DEF T
<1>10. Unpacks(d, s2, k + 1, T)
  BY <1>5, <1>6, <1>7, <1>8, <1>9 DEF Unpacks, t
<1> QED
  BY <1>2, <1>10 DEF T, b

(***************************************************************************)
(* A new try: all that is on disk is of a layer still to come.             *)
(***************************************************************************)
LEMMA RestartUnpacks ==
    ASSUME Steady, NEW s \in Seq(Trees), NEW k, NEW d, NEW T, Unpacks(d, s, k, T)
    PROVE  Unpacks(d, s, 0, {})
<1> DEFINE t == TreeAt(s, 0)
<1>0. Len(s) \in Nat
  BY LenProperties
<1>1. \A p \in Path : t[p] = IF p = Root THEN Mounted[Root] ELSE Absent
  BY DEF TreeAt, Nothing
<1>2. /\ d \in [Path -> Node] /\ IsTree(d) /\ d[Root] = Mounted[Root] /\ FromImage(d, s)
  BY DEF Unpacks
<1>3. t[Root].kind = "dir" /\ Root \in Path
  BY <1>1, ExtractAssumption, PathAssumption DEF IsTree
<1> HIDE DEF t
<1>4. EntriesOf(t, d, {})
  BY DEF EntriesOf
<1>5. Laid(t, d, {})
  <2>1. \A n : Same(n, n)
    BY DEF Same
  <2> QED
    BY <1>1, <1>2, <2>1, AbsentNode DEF Laid
<1>6. Left(t, s, 0, d, {})
  <2> SUFFICES ASSUME NEW p \in Path, d[p].kind # "none", t[p].kind = "none", ~HeldBack(p)
               PROVE  \E i \in 1 .. Len(s) : i > 0 /\ s[i][p].kind # "none"
    BY DEF Left
  <2>1. PICK i \in 1 .. Len(s) : s[i][p].kind # "none"
    BY <1>2, <1>3 DEF FromImage
  <2>2. i > 0
    BY <1>0
  <2> QED
    BY <2>1, <2>2
<1> QED
  BY <1>2, <1>4, <1>5, <1>6 DEF Unpacks, t

(***************************************************************************)
(* Nothing but the mounts, and what holds them, is left between stages.    *)
(***************************************************************************)
LEMMA BareUnpacks ==
    ASSUME Steady, NEW d \in [Path -> Node], IsTree(d), d[Root] = Mounted[Root],
           Clear(d), Kept(d),
           NEW d2 \in [Path -> Node],
           \A p \in Path : d2[p] = IF p = Root \/ Near(p) THEN d[p] ELSE Absent
    PROVE  Unpacks(d2, << >>, 0, {})
<1> DEFINE t == TreeAt(<< >>, 0)
           s == << >>
<1>0. s \in Seq(Trees) /\ Len(s) = 0 /\ 1 .. Len(s) = {}
  OBVIOUS
<1>1. \A p \in Path : t[p] = IF p = Root THEN Mounted[Root] ELSE Absent
  BY DEF TreeAt, Nothing
<1>2. IsTree(d2) /\ d2[Root] = Mounted[Root]
  <2>1. ASSUME NEW q \in Path, d2[q].kind # "none", NEW r \in ParentDirectories(q) PROVE d2[r].kind = "dir"
    <3>1. d2[q] = d[q] /\ (q = Root \/ Near(q)) /\ r \in Path
      BY <2>1, AbsentNode, PathAssumption
    <3>2. r = Root \/ Near(r)
      <4>1. CASE q = Root
        BY <4>1 DEF ParentDirectories
      <4>2. CASE Near(q)
        <5>1. HasPrefix(q, r)
          BY DEF HasPrefix
        <5> QED
          BY <3>1, <4>2, <5>1, NearUp
      <4> QED
        BY <3>1, <4>1, <4>2
    <3>3. d2[r] = d[r]
      BY <3>1, <3>2
    <3> QED
      BY <2>1, <3>1, <3>3 DEF IsTree, Exists
  <2> QED
    BY <2>1, AbsentNode, PathAssumption DEF IsTree, Exists
<1>3. \A p \in Path : d2[p].kind # "none" /\ p # Root => HeldBack(p)
  <2> TAKE p \in Path
  <2> HAVE d2[p].kind # "none" /\ p # Root
  <2>1. Near(p) /\ HasPrefix(p, p)
    BY AbsentNode DEF HasPrefix
  <2> QED
    BY <2>1, NearIsHeldBack
<1>4. \A p \in Path : d2[p].kind # "link"
  <2>1. d[Root].kind = "dir"
    BY DEF IsTree
  <2> QED
    BY <2>1, NoLinksNear, AbsentNode
<1>5. t[Root].kind = "dir"
  BY <1>1, ExtractAssumption, PathAssumption DEF IsTree
<1> HIDE DEF s, t
<1>6. FromImage(d2, s)
  BY <1>3, <1>4 DEF FromImage
<1>7. EntriesOf(t, d2, {})
  BY DEF EntriesOf
<1>8. Laid(t, d2, {})
  <2>1. \A n : Same(n, n)
    BY DEF Same
  <2> QED
    BY <1>1, <1>2, <2>1, AbsentNode DEF Laid
<1>9. Left(t, s, 0, d2, {})
  BY <1>3, <1>5 DEF Left
<1> QED
  BY <1>2, <1>6, <1>7, <1>8, <1>9 DEF Unpacks, t, s

(***************************************************************************)
(* What becomes of an entry: it is dealt with, or the disk stays as it is  *)
(* and the extraction stops or starts again.                               *)
(***************************************************************************)
Dealt(e) ==
    \/ Unpacks(disk', image, layer, todo \ {e}) /\ todo' = todo \ {e} /\ layer' = layer
    \/ disk' = disk /\ ((layer' = 0 /\ todo' = {}) \/ UNCHANGED <<layer, todo>>)

(***************************************************************************)
(* ExtractFile writes its entry, or is refused.                            *)
(***************************************************************************)
LEMMA ExtractUnpacks ==
    ASSUME Steady, UInv, NEW e \in todo, ExtractFile(e)
    PROVE  Dealt(e)
<1> DEFINE p == e.path
           t == TreeAt(image, layer)
           ignored == Ignores(p)
<1>0. /\ image \in Seq(Trees) /\ layer \in 0 .. Len(image)
      /\ Unpacks(disk, image, layer, todo) /\ disk \in [Path -> Node] /\ IsTree(disk)
      /\ EntriesOf(t, disk, todo)
  BY DEF UInv, IInv, Unpacks
<1>1. p \in Path /\ p # Root /\ resolveLeafInRoot(p) = p /\ e.type # "whiteout" /\ ~LoopsInRoot(Dir(p))
  BY EntryItself DEF ExtractFile
<1>2. \/ ignored /\ Write(e, FALSE, disk)
      \/ ~ignored /\ e.type = "dir" /\ Write(e, MkdirFails(p), MkdirAllWithPermissions(p, e.node))
      \/ ~ignored /\ e.type # "dir" /\ Write(e, ~CanMkdirAll(disk, Dir(p)), create(p, e.node))
      \/ Panic
  <2>1. resolveLeafInRoot(e.path) = e.path /\ ~LoopsInRoot(Dir(e.path))
    BY <1>1
  <2>2. (IF rooted THEN resolveLeafInRoot(e.path) ELSE e.path) = e.path
    BY <2>1
  <2>3. \/ Ignores(e.path) /\ Write(e, LoopsInRoot(Dir(e.path)), disk)
        \/ /\ ~Ignores(e.path) /\ e.type = "dir"
           /\ Write(e, MkdirFails(e.path), MkdirAllWithPermissions(e.path, e.node))
        \/ /\ ~Ignores(e.path) /\ e.type # "dir"
           /\ IF e.type = "reg" /\ statIsNil(Dir(e.path)) THEN Panic
              ELSE Write(e, ~CanMkdirAll(disk, Dir(e.path)), create(e.path, e.node))
    BY <2>1, <2>2, Zenon DEF ExtractFile
  <2>4. LoopsInRoot(Dir(e.path)) = FALSE
    BY <2>1 DEF LoopsInRoot
  <2>5. Write(e, LoopsInRoot(Dir(e.path)), disk) => Write(e, FALSE, disk)
    BY <2>4, Zenon
  <2> QED
    BY <2>3, <2>5
<1>3. t \in [Path -> Node] /\ t[p].kind # "none" /\ e.node = t[p] /\ (e.type = "dir" <=> t[p].kind = "dir")
  BY <1>0, <1>1, TreeAtTree DEF EntriesOf
<1>4. \A q \in ParentDirectories(p) : q \in Path /\ disk[q].kind # "link"
  BY <1>1, WayToEntry, AboveAPath
<1>5. CASE ignored /\ Write(e, FALSE, disk)
  <2>1. disk' = disk /\ todo' = todo \ {e} /\ layer' = layer
    BY <1>5 DEF Write
  <2>2. Near(p)
    BY <1>5 DEF Near
  <2> QED
    BY <1>0, <1>5, <2>1, <2>2, SkippedUnpacks DEF Dealt
<1>6. CASE ~ignored /\ e.type = "dir" /\ Write(e, MkdirFails(p), MkdirAllWithPermissions(p, e.node))
  <2> DEFINE d2 == MkdirAllWithPermissions(p, e.node)
  <2>1. CASE MkdirFails(p)
    BY <1>6, <2>1 DEF Write, Error, Dealt
  <2>2. CASE ~MkdirFails(p)
    <3>1. t[p].kind = "dir" /\ disk[p].kind # "link"
      BY <1>1, <1>3, <1>6, NoLinkForDir
    <3>2. \A q \in ParentDirectories(p) : disk[q].kind \in {"none", "dir"}
      <4>1. \A a \in Path : HasPrefix(p, a) => disk[a].kind # "link"
        BY <1>4, <3>1 DEF HasPrefix
      <4>2. CASE evalSymlinks(disk, p).err = "ok"
        <5>1. disk[p].kind \in {"dir", "file"}
          BY <1>0, <1>1, <4>1, <4>2, Unlinked
        <5> QED
          BY <1>0, <1>1, <5>1 DEF IsTree, Exists
      <4>3. CASE evalSymlinks(disk, p).err = "ENOENT"
        <5>1. CanMkdirAll(disk, p)
          BY <2>2, <4>3 DEF MkdirFails
        <5> QED
          BY <1>4, <5>1 DEF CanMkdirAll, HasPrefix
      <4>4. evalSymlinks(disk, p).err \in {"ok", "ENOENT"}
        <5>1. evalSymlinks(disk, p).err \in {"ok", "ENOENT", "ENOTDIR"}
          BY <1>0, <1>1, <4>1, Unlinked
        <5> QED
          BY <2>2, <5>1 DEF MkdirFails
      <4> QED
        BY <4>2, <4>3, <4>4
    <3>3. /\ Written(disk, p, d2) /\ d2[p].kind = "dir" /\ d2[p].perm = e.node.perm
      <4>1. e.node \in Node
        BY <1>1, <1>3
      <4> QED
        BY <1>0, <1>1, <3>1, <3>2, <4>1, DirWritten
    <3>4. disk' = d2 /\ todo' = todo \ {e} /\ layer' = layer
      BY <1>6, <2>2 DEF Write
    <3> HIDE DEF d2
    <3>5. Same(d2[p], t[p])
      BY <1>3, <3>1, <3>3 DEF Same
    <3>6. Unpacks(d2, image, layer, todo \ {e})
      BY <1>0, <1>1, <3>3, <3>5, WrittenUnpacks
    <3> QED
      BY <3>4, <3>6 DEF Dealt
  <2> QED
    BY <2>1, <2>2
<1>7. CASE ~ignored /\ e.type # "dir" /\ Write(e, ~CanMkdirAll(disk, Dir(p)), create(p, e.node))
  <2> DEFINE d2 == create(p, e.node)
  <2>1. CASE ~CanMkdirAll(disk, Dir(p))
    BY <1>7, <2>1 DEF Write, Error, Dealt
  <2>2. CASE CanMkdirAll(disk, Dir(p))
    <3>1. e.node \in Node /\ e.node.kind \in {"file", "link"}
      BY <1>1, <1>3, <1>7 DEF Node, Kind
    <3>2. Written(disk, p, d2) /\ d2[p] = e.node
      BY <1>0, <1>1, <2>2, <3>1, FileWritten
    <3>3. disk' = d2 /\ todo' = todo \ {e} /\ layer' = layer
      BY <1>7, <2>2 DEF Write
    <3> HIDE DEF d2
    <3>4. Same(d2[p], t[p])
      BY <1>3, <3>2 DEF Same
    <3>5. Unpacks(d2, image, layer, todo \ {e})
      BY <1>0, <1>1, <3>2, <3>4, WrittenUnpacks
    <3> QED
      BY <3>3, <3>5 DEF Dealt
  <2> QED
    BY <2>1, <2>2
<1>8. CASE Panic
  BY <1>8 DEF Panic, Dealt
<1> QED
  BY <1>2, <1>5, <1>6, <1>7, <1>8

(***************************************************************************)
(* A whiteout removes its path, is held back, or is refused.               *)
(***************************************************************************)
LEMMA WhiteoutUnpacks ==
    ASSUME Steady, UInv, NEW e \in todo, Whiteout(e)
    PROVE  Dealt(e)
<1>0. /\ image \in Seq(Trees) /\ layer \in 0 .. Len(image)
      /\ Unpacks(disk, image, layer, todo)
  BY DEF UInv, IInv
<1>1. e.type = "whiteout" /\ WhiteoutName(e) = e.path /\ WhiteoutPath(e) = e.path
  BY EntryItself DEF Whiteout, WhiteoutName, WhiteoutPath
<1> DEFINE refused == LoopsInRoot(e.path) \/ whiteoutFails(e.path, e.path)
<1>2. Write(e, refused, whiteout(e.path, e.path))
  BY <1>1 DEF Whiteout
<1> HIDE DEF refused
<1>3. CASE refused
  BY <1>2, <1>3 DEF Write, Error, Dealt
<1>4. CASE ~refused /\ Near(e.path)
  <2>1. disk' = disk /\ todo' = todo \ {e} /\ layer' = layer
    BY <1>2, <1>4 DEF whiteout, Near, Write
  <2> QED
    BY <1>0, <1>1, <1>4, <2>1, SkippedUnpacks DEF Dealt
<1>5. CASE ~refused /\ ~Near(e.path)
  <2>1. disk' = RemoveAll(disk, e.path) /\ todo' = todo \ {e} /\ layer' = layer
    BY <1>2, <1>5 DEF whiteout, Near, Write
  <2>2. Unpacks(RemoveAll(disk, e.path), image, layer, todo \ {e})
    BY <1>0, <1>1, RemovedUnpacks
  <2> QED
    BY <2>1, <2>2 DEF Dealt
<1> QED
  BY <1>3, <1>4, <1>5

(***************************************************************************)
(* The next layer of an image, read before or new.                         *)
(***************************************************************************)
LEMMA NextLayerUnpacks ==
    ASSUME Steady, UInv, NextLayer
    PROVE  /\ Unpacks(disk, image', layer', todo')
           /\ read' \in Nat /\ read' <= MaxLayers /\ Len(image') <= read' /\ IsImage(image')
<1>0. /\ image \in Seq(Trees) /\ layer \in 0 .. Len(image) /\ Len(image) \in Nat
      /\ DOMAIN image = 1 .. Len(image)
      /\ read \in Nat /\ read <= MaxLayers /\ Len(image) <= read /\ IsImage(image) /\ MaxLayers \in Nat
      /\ Unpacks(disk, image, layer, {}) /\ Clear(disk) /\ Kept(disk)
  BY LenProperties, ExtractAssumption DEF UInv, IInv, NextLayer
<1>1. tree = TreeAt(image, layer)
  BY DEF tree, TreeAt
<1>2. layer' = layer + 1 /\ todo' = LayerOf(TreeAt(image, layer), image'[layer + 1])
  BY <1>1 DEF NextLayer
<1>3. PICK s2 : s2 = image'
  OBVIOUS
<1>4. /\ s2 \in Seq(Trees) /\ IsImage(s2) /\ layer + 1 \in 1 .. Len(s2)
      /\ Len(image) <= Len(s2) /\ (\A i \in 1 .. Len(image) : s2[i] = image[i])
      /\ read' \in Nat /\ read' <= MaxLayers /\ Len(s2) <= read'
  <2>1. CASE layer < Len(image) /\ UNCHANGED <<image, read>>
    BY <1>0, <1>3, <2>1
  <2>2. CASE /\ layer = Len(image) /\ read < MaxLayers
             /\ \E t \in Trees : Follows(tree, t) /\ image' = Append(image, t)
             /\ read' = read + 1
    <3>1. PICK t \in Trees : Follows(tree, t) /\ s2 = Append(image, t)
      BY <1>3, <2>2
    <3>2. /\ s2 \in Seq(Trees) /\ Len(s2) = Len(image) + 1 /\ s2[Len(image) + 1] = t
          /\ \A i \in 1 .. Len(image) : s2[i] = image[i]
      BY <1>0, <3>1, SMT
    <3>3. IsImage(s2)
      <4> SUFFICES ASSUME NEW i \in 1 .. Len(image) + 1
                   PROVE  Follows(IF i = 1 THEN Nothing ELSE s2[i - 1], s2[i])
        BY <3>2, LenProperties DEF IsImage
      <4>1. i # 1 => i - 1 \in 1 .. Len(image)
        BY <1>0
      <4>2. CASE i \in 1 .. Len(image)
        BY <1>0, <3>2, <4>1, <4>2 DEF IsImage
      <4>3. CASE i = Len(image) + 1
        <5>1. tree = IF i = 1 THEN Nothing ELSE s2[i - 1]
          BY <1>0, <2>2, <3>2, <4>1, <4>3 DEF tree
        <5> QED
          BY <3>1, <3>2, <4>3, <5>1
      <4> QED
        BY <1>0, <4>2, <4>3
    <3>4. layer + 1 \in 1 .. Len(s2) /\ Len(image) <= Len(s2)
      BY <1>0, <2>2, <3>2
    <3>5. read' \in Nat /\ read' <= MaxLayers /\ Len(s2) <= read'
      BY <1>0, <2>2, <3>2
    <3> QED
      BY <3>2, <3>3, <3>4, <3>5
  <2> QED
    BY <2>1, <2>2 DEF NextLayer
<1>5. Unpacks(disk, s2, layer + 1, LayerOf(TreeAt(image, layer), s2[layer + 1]))
  BY <1>0, <1>4, LayerUnpacks
<1> QED
  BY <1>2, <1>3, <1>4, <1>5

(***************************************************************************)
(* UInv holds before anything is unpacked.                                 *)
(***************************************************************************)
LEMMA InitUInv == ASSUME Apart, Steady, Init PROVE UInv
<1>1. IInv
  BY InitIInv
<1>2. /\ disk = Mounted /\ image = << >> /\ read = 0 /\ layer = 0 /\ todo = {} /\ status = "ok"
  BY DEF Init
<1>3. \A p \in Path : Mounted[p] = IF p = Root \/ Near(p) THEN Mounted[p] ELSE Absent
  BY ExtractAssumption DEF Steady, IsTree, Exists
<1>4. Unpacks(Mounted, << >>, 0, {})
  BY <1>1, <1>2, <1>3, ExtractAssumption, BareUnpacks DEF IInv
<1>5. IsImage(<< >>) /\ Len(<< >>) = 0 /\ MaxLayers \in Nat
  BY ExtractAssumption DEF IsImage
<1> QED
  BY <1>1, <1>2, <1>4, <1>5 DEF UInv

(***************************************************************************)
(* Every step keeps UInv.                                                  *)
(***************************************************************************)
LEMMA NextUInv == ASSUME Apart, Steady, UInv, [Next]_vars PROVE UInv'
<1>0. IInv' /\ image \in Seq(Trees) /\ Unpacks(disk, image, layer, todo)
  BY NextIInv DEF UInv, IInv
<1>1. CASE NextLayer
  <2>1. disk' = disk
    BY <1>1 DEF NextLayer
  <2> QED
    BY <1>0, <1>1, <2>1, NextLayerUnpacks DEF UInv
<1>2. CASE GetFSFromLayers
  <2>1. PICK e \in todo : Whiteout(e) \/ ExtractFile(e)
    BY <1>2 DEF GetFSFromLayers
  <2>2. UNCHANGED <<image, read>>
    BY <1>2 DEF GetFSFromLayers
  <2>3. Dealt(e)
    BY <2>1, WhiteoutUnpacks, ExtractUnpacks
  <2>4. Unpacks(disk, image, 0, {})
    BY <1>0, RestartUnpacks
  <2>5. Unpacks(disk', image, layer', todo')
    BY <1>0, <2>3, <2>4 DEF Dealt
  <2> QED
    BY <1>0, <2>2, <2>5 DEF UInv, IsImage
<1>3. CASE ReadFails
  <2>1. UNCHANGED <<disk, image, read>>
    BY <1>0, <1>3 DEF ReadFails, Error
  <2>2. (layer' = 0 /\ todo' = {}) \/ UNCHANGED <<layer, todo>>
    BY <1>3 DEF ReadFails, Error
  <2>3. Unpacks(disk, image, 0, {})
    BY <1>0, RestartUnpacks
  <2> QED
    BY <1>0, <2>1, <2>2, <2>3 DEF UInv, IsImage
<1>4. CASE DeleteFilesystem
  <2>1. /\ image' = << >> /\ layer' = 0 /\ todo' = {} /\ UNCHANGED <<read, status>>
        /\ disk' = [p \in Path |-> IF p = Root \/ Near(p) THEN disk[p] ELSE Absent]
    BY <1>4 DEF DeleteFilesystem, Near
  <2>2. disk' \in [Path -> Node] /\ \A p \in Path : disk'[p] = IF p = Root \/ Near(p) THEN disk[p] ELSE Absent
    BY <1>0, <2>1, AbsentNode DEF Unpacks
  <2>3. Unpacks(disk', << >>, 0, {})
    BY <2>2, BareUnpacks DEF UInv, IInv, Unpacks
  <2>4. IsImage(<< >>) /\ Len(<< >>) = 0
    BY DEF IsImage
  <2> QED
    BY <1>0, <2>1, <2>3, <2>4 DEF UInv
<1>5. CASE UNCHANGED vars
  BY <1>0, <1>5 DEF vars, UInv, IsImage
<1> QED
  BY <1>1, <1>2, <1>3, <1>4, <1>5 DEF Next

(***************************************************************************)
(* An entry fails only in disorder.                                        *)
(***************************************************************************)
LEMMA FailsInDisorder ==
    ASSUME Steady, UInv, NEW e \in todo, Fails(e)
    PROVE  Disorder(e)
<1> SUFFICES ASSUME ~Disorder(e) PROVE FALSE
  OBVIOUS
<1> DEFINE t == TreeAt(image, layer)
<1>0. disk \in [Path -> Node] /\ IsTree(disk) /\ EntriesOf(t, disk, todo)
  BY DEF UInv, Unpacks
<1>1. /\ e.path \in Path /\ e.path # Root
      /\ e.type = "whiteout" => WhiteoutName(e) = e.path /\ WhiteoutPath(e) = e.path /\ ~LoopsInRoot(e.path)
      /\ resolveLeafInRoot(e.path) = e.path /\ ~LoopsInRoot(Dir(e.path))
  BY EntryItself DEF WhiteoutName, WhiteoutPath
<1>2. ~Ignores(e.path)
  BY <1>1 DEF Fails, whiteoutFails
<1>3. \A q \in ParentDirectories(e.path) : q \in Path /\ disk[q].kind \in {"none", "dir"}
  BY <1>2, WayIsOpen
<1>4. CASE e.type = "whiteout"
  BY <1>1, <1>3, <1>4 DEF Fails, whiteoutFails
<1>5. CASE e.type = "dir"
  <2>1. t \in [Path -> Node]
    BY TreeAtTree DEF UInv, IInv
  <2>2. t[e.path].kind = "dir" /\ e.node = t[e.path]
    BY <1>0, <1>5 DEF EntriesOf
  <2>3. disk[e.path].kind # "link" /\ e.node \in Node
    BY <1>1, <2>1, <2>2, NoLinkForDir
  <2>4. ~MkdirFails(e.path)
    BY <1>0, <1>1, <1>3, <2>3, DirWritten
  <2> QED
    BY <1>1, <1>5, <2>4 DEF Fails
<1>6. CASE e.type \notin {"whiteout", "dir"}
  <2>1. CanMkdirAll(disk, Dir(e.path))
    BY <1>1, <1>3, AboveAPath DEF CanMkdirAll
  <2> QED
    BY <1>1, <1>6, <2>1 DEF Fails
<1> QED
  BY <1>4, <1>5, <1>6

(***************************************************************************)
(* ExtractFile, MkdirAllWithPermissions and whiteouts: the disk refuses an *)
(* entry, or lets ExtractFile panic, only where a file is in the place of  *)
(* a directory whose own entry is still to come.  Whatever else layers     *)
(* before or a broken try left makes way.                                  *)
(***************************************************************************)
THEOREM OnlyDisorderIsInTheWay == ASSUME Apart, Steady PROVE Spec => []OnlyDisorderFails
<1>1. Init => UInv
  BY InitUInv
<1>2. UInv /\ [Next]_vars => UInv'
  BY NextUInv
<1>3. UInv => OnlyDisorderFails
  BY FailsInDisorder DEF Disorder, OnlyDisorderFails
<1> QED
  BY <1>1, <1>2, <1>3, PTL DEF Spec

(***************************************************************************)
(* GetFSFromLayers: when all layers have been read, everything of the      *)
(* image that is not ignored is on disk as the image has it.               *)
(***************************************************************************)
THEOREM UnpackedIsImage == ASSUME Apart, Steady PROVE Spec => []ImageIsOnDisk
<1>1. Init => UInv
  BY InitUInv
<1>2. UInv /\ [Next]_vars => UInv'
  BY NextUInv
<1>3. UInv => ImageIsOnDisk
  <2>1. tree = TreeAt(image, layer)
    BY DEF tree, TreeAt
  <2> QED
    BY <2>1 DEF UInv, Unpacks, Laid, ImageIsOnDisk, Extracted, Exists
<1> QED
  BY <1>1, <1>2, <1>3, PTL DEF Spec

(***************************************************************************)
(* The whiteouts of GetFSFromLayers and DeleteFilesystem: when all layers  *)
(* have been read, nothing is on disk that is not of the image, but what   *)
(* is held back by an ignored path; a broken try and the stages before     *)
(* leave nothing.                                                          *)
(***************************************************************************)
THEOREM UnpackedIsOnlyImage == ASSUME Apart, Steady PROVE Spec => []RemovedIsGone
<1>1. Init => UInv
  BY InitUInv
<1>2. UInv /\ [Next]_vars => UInv'
  BY NextUInv
<1>3. UInv => RemovedIsGone
  <2>1. tree = TreeAt(image, layer)
    BY DEF tree, TreeAt
  <2>2. ASSUME UInv, Extracted PROVE ~ \E i \in 1 .. Len(image) : i > layer
    <3>1. Len(image) \in Nat /\ layer = Len(image)
      BY <2>2, LenProperties DEF UInv, IInv, Extracted
    <3> QED
      BY <3>1
  <2> QED
    BY <2>1, <2>2 DEF UInv, Unpacks, Left, HeldBack, RemovedIsGone, Extracted, Exists
<1> QED
  BY <1>1, <1>2, <1>3, PTL DEF Spec

=============================================================================
