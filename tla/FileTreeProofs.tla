--------------------------- MODULE FileTreeProofs ---------------------------
(***************************************************************************)
(* Facts about paths and trees, and the fact that laying a layer whose     *)
(* entries come from a tree over an image that is a tree gives a tree.     *)
(***************************************************************************)
EXTENDS FileTree, SequenceTheorems, WellFoundedInduction, TLAPS

(***************************************************************************)
(* A prefix of a path is a sequence of the expected length.                *)
(***************************************************************************)
LEMMA PrefixSeq ==
    ASSUME NEW p \in Seq(STRING), NEW i \in 0 .. Len(p)
    PROVE  /\ SubSeq(p, 1, i) \in Seq(STRING)
           /\ Len(SubSeq(p, 1, i)) = i
           /\ \A k \in 1 .. i : SubSeq(p, 1, i)[k] = p[k]
<1>1. \A k \in 1 .. i : p[k] \in STRING
  BY ElementOfSeq, SMT
<1>2. Len(p) \in Nat /\ 1 \in Int /\ i \in Int
  BY LenProperties, SMT
<1>. QED
  BY <1>1, <1>2, SubSeqProperties, SMT

(***************************************************************************)
(* A prefix of a prefix is a prefix.                                       *)
(***************************************************************************)
LEMMA PrefixOfPrefix ==
    ASSUME NEW p \in Seq(STRING), NEW i \in 0 .. Len(p), NEW j \in 0 .. i
    PROVE  SubSeq(SubSeq(p, 1, i), 1, j) = SubSeq(p, 1, j)
<1>. DEFINE q == SubSeq(p, 1, i)
<1>1. Len(p) \in Nat /\ j \in 0 .. Len(p)
  BY LenProperties, SMT
<1>2. q \in Seq(STRING) /\ Len(q) = i /\ \A k \in 1 .. i : q[k] = p[k]
  BY PrefixSeq
<1>3. /\ SubSeq(p, 1, j) \in Seq(STRING) /\ Len(SubSeq(p, 1, j)) = j
      /\ \A k \in 1 .. j : SubSeq(p, 1, j)[k] = p[k]
  BY <1>1, PrefixSeq
<1>. HIDE DEF q
<1>4. /\ SubSeq(q, 1, j) \in Seq(STRING) /\ Len(SubSeq(q, 1, j)) = j
      /\ \A k \in 1 .. j : SubSeq(q, 1, j)[k] = q[k]
  BY <1>2, PrefixSeq
<1>5. SubSeq(q, 1, j) = SubSeq(p, 1, j)
  <2>1. \A k \in 1 .. j : k \in 1 .. i
    BY <1>1, SMT
  <2>2. \A k \in 1 .. j : SubSeq(q, 1, j)[k] = SubSeq(p, 1, j)[k]
    BY <1>2, <1>3, <1>4, <2>1
  <2>. QED
    BY <1>3, <1>4, <2>2, SeqEqual
<1>. QED
  BY <1>5 DEF q

(***************************************************************************)
(* The parents of a path other than the root: prefixes, shorter than it.   *)
(***************************************************************************)
LEMMA ParentsShorter ==
    ASSUME NEW p \in Path, p # Root, NEW q \in ParentDirectories(p)
    PROVE  /\ q \in Path
           /\ Len(q) \in Nat /\ Len(p) \in Nat /\ Len(q) < Len(p)
           /\ q = SubSeq(p, 1, Len(q))
<1>1. p \in Seq(STRING) /\ q \in Path
  BY PathAssumption
<1>2. PICK i \in 0 .. Len(p) - 1 : q = SubSeq(p, 1, i)
  BY DEF ParentDirectories
<1>3. Len(p) \in Nat /\ i \in 0 .. Len(p) /\ i < Len(p)
  BY <1>1, LenProperties, SMT
<1>4. Len(q) = i
  BY <1>1, <1>2, <1>3, PrefixSeq
<1>. QED
  BY <1>1, <1>2, <1>3, <1>4, SMT

(***************************************************************************)
(* A shorter prefix is a parent.                                           *)
(***************************************************************************)
LEMMA PrefixIsParent ==
    ASSUME NEW p \in Path, NEW i \in 0 .. Len(p) - 1
    PROVE  p # Root /\ SubSeq(p, 1, i) \in ParentDirectories(p)
<1>1. p \in Seq(STRING)
  BY PathAssumption
<1>2. Len(p) \in Nat /\ Len(p) > 0
  BY <1>1, LenProperties, SMT
<1>3. p # Root
  BY <1>2, EmptySeq, SMT DEF Root
<1>. QED
  BY <1>3 DEF ParentDirectories

(***************************************************************************)
(* The parents of a parent are parents.                                    *)
(***************************************************************************)
LEMMA ParentsTransitive ==
    ASSUME NEW p \in Path, NEW q \in ParentDirectories(p), NEW r \in ParentDirectories(q)
    PROVE  r \in ParentDirectories(p)
<1>1. CASE p = Root
  BY <1>1 DEF ParentDirectories
<1>2. CASE p # Root /\ q = Root
  BY <1>2 DEF ParentDirectories
<1>3. CASE p # Root /\ q # Root
  <2>1. /\ q \in Path /\ Len(q) \in Nat /\ Len(p) \in Nat /\ Len(q) < Len(p)
        /\ q = SubSeq(p, 1, Len(q))
    BY <1>3, ParentsShorter
  <2>2. /\ r \in Path /\ Len(r) \in Nat /\ Len(r) < Len(q)
        /\ r = SubSeq(q, 1, Len(r))
    BY <1>3, <2>1, ParentsShorter
  <2>3. p \in Seq(STRING) /\ Len(q) \in 0 .. Len(p) /\ Len(r) \in 0 .. Len(q)
    BY <2>1, <2>2, PathAssumption, SMT
  <2>4. SubSeq(SubSeq(p, 1, Len(q)), 1, Len(r)) = SubSeq(p, 1, Len(r))
    BY <2>3, PrefixOfPrefix
  <2>5. r = SubSeq(p, 1, Len(r)) /\ Len(r) \in 0 .. Len(p) - 1
    BY <2>1, <2>2, <2>4, SMT
  <2>. QED
    BY <2>5, PrefixIsParent
<1>. QED
  BY <1>1, <1>2, <1>3

(***************************************************************************)
(* Two parents of a path lie one above the other.                          *)
(***************************************************************************)
LEMMA ParentsOrdered ==
    ASSUME NEW p \in Path, NEW q \in ParentDirectories(p), NEW r \in ParentDirectories(p),
           p # Root
    PROVE  HasPrefix(q, r) \/ HasPrefix(r, q)
<1>1. /\ q \in Path /\ Len(q) \in Nat /\ Len(q) < Len(p) /\ q = SubSeq(p, 1, Len(q))
      /\ r \in Path /\ Len(r) \in Nat /\ Len(r) < Len(p) /\ r = SubSeq(p, 1, Len(r))
      /\ Len(p) \in Nat /\ p \in Seq(STRING)
  BY ParentsShorter, PathAssumption
<1>2. ASSUME Len(q) < Len(r) PROVE q \in ParentDirectories(r)
  <2>1. Len(q) \in 0 .. Len(r) - 1 /\ Len(q) \in 0 .. Len(r) /\ Len(r) \in 0 .. Len(p)
    BY <1>1, <1>2, SMT
  <2>2. SubSeq(SubSeq(p, 1, Len(r)), 1, Len(q)) = SubSeq(p, 1, Len(q))
    BY <1>1, <2>1, PrefixOfPrefix
  <2>3. q = SubSeq(r, 1, Len(q))
    BY <1>1, <2>2
  <2>. QED
    BY <1>1, <2>1, <2>3, PrefixIsParent
<1>3. ASSUME Len(r) < Len(q) PROVE r \in ParentDirectories(q)
  <2>1. Len(r) \in 0 .. Len(q) - 1 /\ Len(r) \in 0 .. Len(q) /\ Len(q) \in 0 .. Len(p)
    BY <1>1, <1>3, SMT
  <2>2. SubSeq(SubSeq(p, 1, Len(q)), 1, Len(r)) = SubSeq(p, 1, Len(r))
    BY <1>1, <2>1, PrefixOfPrefix
  <2>3. r = SubSeq(q, 1, Len(r))
    BY <1>1, <2>2
  <2>. QED
    BY <1>1, <2>1, <2>3, PrefixIsParent
<1>4. ASSUME Len(q) = Len(r) PROVE q = r
  BY <1>1, <1>4
<1>5. Len(q) < Len(r) \/ Len(r) < Len(q) \/ Len(q) = Len(r)
  <2>1. \A m, n \in Nat : m < n \/ n < m \/ m = n
    BY SMT
  <2>. QED
    BY <1>1, <2>1
<1>. QED
  BY <1>2, <1>3, <1>4, <1>5 DEF HasPrefix

(***************************************************************************)
(* The root is above everything, and a path's directory is one of its      *)
(* parents, the lowest.                                                    *)
(***************************************************************************)
LEMMA RootIsParent ==
    ASSUME NEW p \in Path
    PROVE  Root \in ParentDirectories(p)
<1>1. CASE p = Root
  BY <1>1 DEF ParentDirectories
<1>2. CASE p # Root
  <2>1. p \in Seq(STRING) /\ Len(p) \in Nat /\ Len(p) # 0
    BY <1>2, PathAssumption, LenProperties, EmptySeq DEF Root
  <2>2. 0 \in 0 .. Len(p) - 1 /\ SubSeq(p, 1, 0) = Root
    BY <2>1, SubSeqEmpty, SMT DEF Root
  <2>. QED
    BY <2>2, PrefixIsParent
<1>. QED
  BY <1>1, <1>2

(***************************************************************************)
(* The directory of a path other than the root is one of its parents.      *)
(***************************************************************************)
LEMMA DirIsParent ==
    ASSUME NEW p \in Path, p # Root
    PROVE  Dir(p) \in ParentDirectories(p) /\ Dir(p) \in Path
<1>1. p \in Seq(STRING) /\ Len(p) \in Nat /\ Len(p) # 0
  BY PathAssumption, LenProperties, EmptySeq DEF Root
<1>2. Len(p) - 1 \in 0 .. Len(p) - 1
  BY <1>1, SMT
<1>3. Dir(p) \in ParentDirectories(p)
  BY <1>2, PrefixIsParent DEF Dir
<1>. QED
  BY <1>3, PathAssumption

(***************************************************************************)
(* The parents of a path are its directory and the parents of that.        *)
(***************************************************************************)
LEMMA ParentsOfDir ==
    ASSUME NEW p \in Path, p # Root, NEW q \in ParentDirectories(p), q # Dir(p)
    PROVE  q \in ParentDirectories(Dir(p))
<1>1. /\ q \in Path /\ Len(q) \in Nat /\ Len(p) \in Nat /\ Len(q) < Len(p)
      /\ q = SubSeq(p, 1, Len(q)) /\ p \in Seq(STRING)
  BY ParentsShorter, PathAssumption
<1>2. Len(q) # Len(p) - 1
  BY <1>1 DEF Dir
<1>3. Len(p) - 1 \in 0 .. Len(p) /\ Len(q) \in 0 .. Len(p) - 1
  BY <1>1, SMT
<1>4. Len(Dir(p)) = Len(p) - 1
  BY <1>1, <1>3, PrefixSeq DEF Dir
<1>5. SubSeq(Dir(p), 1, Len(q)) = q
  BY <1>1, <1>3, PrefixOfPrefix DEF Dir
<1>6. Len(q) \in 0 .. Len(Dir(p)) - 1
  BY <1>1, <1>2, <1>4, SMT
<1>. QED
  BY <1>5, <1>6, DirIsParent, PrefixIsParent

(***************************************************************************)
(* HasPrefix is transitive.                                                *)
(***************************************************************************)
LEMMA HasPrefixTransitive ==
    ASSUME NEW p \in Path, NEW q, NEW r, HasPrefix(p, q), HasPrefix(q, r)
    PROVE  HasPrefix(p, r)
BY ParentsTransitive DEF HasPrefix

(***************************************************************************)
(* Something of several paths is above or at p: there is a topmost one.    *)
(***************************************************************************)
LEMMA TopmostPrefix ==
    ASSUME NEW p \in Path, NEW S \in SUBSET Path, \E q \in S : HasPrefix(p, q)
    PROVE  \E w \in S : /\ HasPrefix(p, w)
                        /\ \A r \in S : r \in ParentDirectories(w) => r = w
<1>. DEFINE T == {n \in Nat : \E q \in S : HasPrefix(p, q) /\ Len(q) = n}
<1>1. T # {}
  <2>1. \A q \in S : Len(q) \in Nat
    BY PathAssumption, LenProperties
  <2>. QED
    BY <2>1
<1>2. PICK n \in T : \A m \in T : ~(<<m, n>> \in OpToRel(<, Nat))
  <2>. HIDE DEF T
  <2>1. T \subseteq Nat
    BY DEF T
  <2>. QED
    BY <1>1, <2>1, NatLessThanWellFounded, WFMin
<1>3. PICK w \in S : HasPrefix(p, w) /\ Len(w) = n
  OBVIOUS
<1>4. ASSUME NEW r \in S, r \in ParentDirectories(w), r # w PROVE FALSE
  <2>1. w # Root
    BY <1>4 DEF ParentDirectories
  <2>2. w \in Path /\ Len(r) \in Nat /\ Len(r) < Len(w)
    BY <1>4, <2>1, ParentsShorter
  <2>3. HasPrefix(p, r)
    BY <1>3, <1>4, HasPrefixTransitive DEF HasPrefix
  <2>4. Len(r) \in T /\ n \in Nat
    BY <1>4, <2>2, <2>3
  <2>5. <<Len(r), n>> \in OpToRel(<, Nat)
    BY <1>3, <2>2, <2>4 DEF OpToRel
  <2>. QED
    BY <1>2, <2>4, <2>5
<1>. QED
  BY <1>3, <1>4

(***************************************************************************)
(* Absent is a node.                                                       *)
(***************************************************************************)
LEMMA AbsentNode == Absent \in Node /\ Absent.kind = "none"
<1>1. (CHOOSE x \in Perm : TRUE) \in Perm
  BY PathAssumption
<1>2. 0 \in 0 .. MaxTime /\ Root \in Data \cup Path
  BY PathAssumption, SMT
<1>. QED
  BY <1>1, <1>2 DEF Absent, Node, Kind

(***************************************************************************)
(* A layer that takes its entries, parents included, from a tree, laid     *)
(* over an image that is a tree: the result is a tree.                     *)
(***************************************************************************)
LEMMA ApplyLayerTree ==
    ASSUME NEW img \in [Path -> Node], IsTree(img),
           NEW d \in [Path -> Node], IsTree(d),
           NEW layer, layer.nodes = d, layer.adds \subseteq Path,
           \A p \in layer.adds : Exists(d, p) /\ ParentDirectories(p) \subseteq layer.adds,
           \A w \in layer.whiteouts : w \in Path /\ w # Root
    PROVE  /\ ApplyLayer(img, layer) \in [Path -> Node]
           /\ IsTree(ApplyLayer(img, layer))
<1>. DEFINE res == ApplyLayer(img, layer)
            Gone(p) == \/ \E w \in layer.whiteouts : HasPrefix(p, w)
                       \/ \E q \in layer.adds : Below(p, q) /\ layer.nodes[q].kind # "dir"
<1>1. \A p \in Path : res[p] = IF p \in layer.adds THEN d[p]
                               ELSE IF Gone(p) THEN Absent ELSE img[p]
  BY DEF ApplyLayer
<1>2. res \in [Path -> Node]
  BY AbsentNode DEF ApplyLayer
<1>3. \A p \in Path : \A q \in ParentDirectories(p) :
         q \in Path /\ (Gone(q) => Gone(p) \/ p \in layer.adds)
  <2>. SUFFICES ASSUME NEW p \in Path, NEW q \in ParentDirectories(p), Gone(q),
                       p \notin layer.adds
                PROVE  Gone(p)
    BY PathAssumption
  <2>0. HasPrefix(p, q)
    BY DEF HasPrefix
  <2>1. CASE \E w \in layer.whiteouts : HasPrefix(q, w)
    BY <2>0, <2>1, HasPrefixTransitive
  <2>2. CASE \E a \in layer.adds : Below(q, a) /\ layer.nodes[a].kind # "dir"
    <3>1. PICK a \in layer.adds : Below(q, a) /\ layer.nodes[a].kind # "dir"
      BY <2>2
    <3>2. a \in ParentDirectories(p)
      BY <3>1, ParentsTransitive DEF Below
    <3>3. a # p
      OBVIOUS
    <3>. QED
      BY <3>1, <3>2, <3>3 DEF Below
  <2>. QED
    BY <2>1, <2>2
<1>4. ~Gone(Root)
  <2>1. \A w \in Path : w # Root => ~HasPrefix(Root, w)
    BY DEF HasPrefix, ParentDirectories
  <2>2. \A q : ~Below(Root, q)
    BY DEF Below, ParentDirectories
  <2>. QED
    BY <2>1, <2>2
<1>5. res[Root].kind = "dir"
  BY <1>1, <1>4, PathAssumption DEF IsTree
<1>6. \A p \in Path : res[p].kind = "none" => res[p] = Absent
  BY <1>1 DEF IsTree
<1>7. ASSUME NEW p \in Path, Exists(res, p), NEW q \in ParentDirectories(p)
      PROVE  res[q].kind = "dir"
  <2>. q \in Path
    BY PathAssumption
  <2>1. CASE p \in layer.adds
    <3>1. q \in layer.adds /\ Exists(d, p)
      BY <2>1
    <3>2. d[q].kind = "dir"
      BY <3>1 DEF IsTree
    <3>. QED
      BY <1>1, <3>1, <3>2
  <2>2. CASE p \notin layer.adds
    <3>1. ~Gone(p) /\ Exists(img, p)
      BY <1>1, <1>7, <2>2, AbsentNode DEF Exists
    <3>2. img[q].kind = "dir" /\ ~Gone(q)
      BY <1>3, <2>2, <3>1 DEF IsTree
    <3>3. CASE q \in layer.adds
      <4>1. CASE q = p
        BY <2>2, <3>3, <4>1
      <4>2. CASE q # p
        <5>1. Below(p, q)
          BY <4>2 DEF Below
        <5>2. layer.nodes[q].kind = "dir"
          BY <3>1, <3>3, <5>1
        <5>. QED
          BY <1>1, <3>3, <5>2
      <4>. QED
        BY <4>1, <4>2
    <3>4. CASE q \notin layer.adds
      BY <1>1, <3>2, <3>4
    <3>. QED
      BY <3>3, <3>4
  <2>. QED
    BY <2>1, <2>2
<1>. HIDE DEF res
<1>8. IsTree(res)
  BY <1>5, <1>6, <1>7 DEF IsTree
<1>. QED
  BY <1>2, <1>8 DEF res

=============================================================================
