-------------------------- MODULE SnapshotterProofs --------------------------
(***************************************************************************)
(* Proofs about Snapshotter, for every universe of paths, every base file  *)
(* system, every snapshot mode and every ignore list.                      *)
(***************************************************************************)
EXTENDS Snapshotter, FileTreeProofs

(***************************************************************************)
(* The methods of LayeredMap give layered maps.                            *)
(***************************************************************************)
LEMMA EmptyMapType == EmptyMap \in [Path -> Hash]
BY DEF EmptyMap, Hash

(***************************************************************************)
(* getCurrentImage gives a map from paths to hashes.                       *)
(***************************************************************************)
LEMMA CurrentImageType ==
    ASSUME NEW m \in LayeredMaps
    PROVE  getCurrentImage(m) \in [Path -> Hash]
<1>1. /\ m.adds \in [Path -> Hash] /\ m.currentImage \in [Path -> Hash]
  BY DEF LayeredMaps
<1>2. NoHash \in Hash
  BY DEF Hash
<1>. QED
  BY <1>1, <1>2 DEF getCurrentImage

(***************************************************************************)
(* LayeredMap.Snapshot gives a layered map.                                *)
(***************************************************************************)
LEMMA SnapshotType ==
    ASSUME NEW m \in LayeredMaps
    PROVE  /\ Snapshot(m) \in LayeredMaps
           /\ Snapshot(m).hasLayer /\ Snapshot(m).isCurrentImageValid
           /\ Snapshot(m).adds = EmptyMap /\ Snapshot(m).deletes = {}
           /\ Snapshot(m).layerHashCache = EmptyMap
           /\ Snapshot(m).currentImage = getCurrentImage(m)
<1>1. getCurrentImage(m) \in [Path -> Hash] /\ EmptyMap \in [Path -> Hash]
  BY CurrentImageType, EmptyMapType
<1>. QED
  BY <1>1 DEF Snapshot, updateCurrentImage, LayeredMaps

(***************************************************************************)
(* CheckFileChange, called on several paths, gives a layered map.          *)
(***************************************************************************)
LEMMA CheckFileChangesType ==
    ASSUME NEW m \in LayeredMaps, NEW d \in [Path -> Node], NEW S
    PROVE  CheckFileChanges(m, d, S) \in LayeredMaps
<1>1. \A p \in Path : hasher(m.mode, d[p]) \in Hash
  BY DEF Hash, LayeredMaps
<1>2. \A p \in Path : m.layerHashCache[p] \in Hash
  BY DEF LayeredMaps
<1>3. [p \in Path |-> IF p \in S THEN hasher(m.mode, d[p]) ELSE m.layerHashCache[p]] \in [Path -> Hash]
  BY <1>1, <1>2
<1>. QED
  BY <1>3 DEF CheckFileChanges, LayeredMaps

(***************************************************************************)
(* LayeredMap.Add gives a layered map.                                     *)
(***************************************************************************)
LEMMA AddType ==
    ASSUME NEW m \in LayeredMaps, NEW d \in [Path -> Node], NEW S
    PROVE  Add(m, d, S) \in LayeredMaps
<1>1. \A p \in Path : hasher(m.mode, d[p]) \in Hash
  BY DEF Hash, LayeredMaps
<1>2. \A p \in Path : m.layerHashCache[p] \in Hash /\ m.adds[p] \in Hash
  BY DEF LayeredMaps
<1>. DEFINE a == [p \in Path |-> IF p \notin S THEN m.adds[p]
                    ELSE IF m.layerHashCache[p] # NoHash THEN m.layerHashCache[p]
                    ELSE hasher(m.mode, d[p])]
<1>3. a \in [Path -> Hash]
  BY <1>1, <1>2
<1>4. Add(m, d, S) = [m EXCEPT !.isCurrentImageValid = @ /\ S = {}, !.adds = a]
  BY DEF Add
<1>. HIDE DEF a
<1>. QED
  BY <1>3, <1>4 DEF LayeredMaps

(***************************************************************************)
(* LayeredMap.AddDelete gives a layered map.                               *)
(***************************************************************************)
LEMMA AddDeleteType ==
    ASSUME NEW m \in LayeredMaps, NEW S \in SUBSET Path
    PROVE  AddDelete(m, S) \in LayeredMaps
BY DEF AddDelete, LayeredMaps

(***************************************************************************)
(* Edits keep the file system a tree: the parents of the path edited are   *)
(* directories, and a directory is not turned into something else.         *)
(***************************************************************************)
LEMMA EditTree ==
    ASSUME NEW d \in [Path -> Node], IsTree(d), NEW p \in Path, NEW node \in Node,
           \A q \in ParentDirectories(p) : d[q].kind = "dir",
           node.kind = "dir" \/ d[p].kind # "dir",
           node.kind = "none" => node = Absent
    PROVE  [d EXCEPT ![p] = node] \in [Path -> Node] /\ IsTree([d EXCEPT ![p] = node])
<1>. DEFINE e == [d EXCEPT ![p] = node]
<1>1. e \in [Path -> Node] /\ \A q \in Path : e[q] = IF q = p THEN node ELSE d[q]
  OBVIOUS
<1>. HIDE DEF e
<1>2. e[Root].kind = "dir"
  BY <1>1, PathAssumption DEF IsTree
<1>3. \A q \in Path : e[q].kind = "none" => e[q] = Absent
  BY <1>1 DEF IsTree
<1>4. ASSUME NEW q \in Path, Exists(e, q), NEW r \in ParentDirectories(q)
      PROVE  e[r].kind = "dir"
  <2>. r \in Path
    BY PathAssumption
  <2>1. d[r].kind = "dir"
    BY <1>1, <1>4 DEF IsTree, Exists
  <2>. QED
    BY <1>1, <2>1
<1>. QED
  BY <1>1, <1>2, <1>3, <1>4 DEF IsTree, e

(***************************************************************************)
(* Removing a path with everything below it leaves a tree.                 *)
(***************************************************************************)
LEMMA RemoveTree ==
    ASSUME NEW d \in [Path -> Node], IsTree(d), NEW p \in Path, p # Root, NEW e,
           e = [q \in Path |-> IF q \in {r \in Path : HasPrefix(r, p) /\ Exists(d, r)}
                               THEN Absent ELSE d[q]]
    PROVE  e \in [Path -> Node] /\ IsTree(e)
<1>1. e \in [Path -> Node]
  BY AbsentNode
<1>2. \A q \in Path : e[q] = IF HasPrefix(q, p) THEN Absent ELSE d[q]
  BY DEF IsTree, Exists
<1>3. ~HasPrefix(Root, p)
  BY DEF HasPrefix, ParentDirectories
<1>4. ASSUME NEW q \in Path, Exists(e, q), NEW r \in ParentDirectories(q)
      PROVE  e[r].kind = "dir"
  <2>1. r \in Path /\ ~HasPrefix(q, p) /\ Exists(d, q)
    BY <1>2, <1>4, PathAssumption, AbsentNode DEF Exists
  <2>2. ~HasPrefix(r, p)
    BY <2>1, HasPrefixTransitive DEF HasPrefix
  <2>. QED
    BY <1>2, <2>1, <2>2 DEF IsTree
<1>. QED
  BY <1>1, <1>2, <1>3, <1>4, PathAssumption DEF IsTree

(***************************************************************************)
(* Where something can be created, all the parents are directories.        *)
(***************************************************************************)
LEMMA CanCreateParents ==
    ASSUME IsTree(fs), NEW p \in Path, CanCreate(p)
    PROVE  \A q \in ParentDirectories(p) : fs[q].kind = "dir"
<1>1. p # Root /\ Dir(p) \in Path /\ fs[Dir(p)].kind = "dir"
  BY DirIsParent DEF CanCreate
<1>2. \A q \in ParentDirectories(Dir(p)) : fs[q].kind = "dir"
  BY <1>1 DEF IsTree, Exists
<1>. QED
  BY <1>1, <1>2, ParentsOfDir

-----------------------------------------------------------------------------
(***************************************************************************)
(* Type correctness, which includes that the file system and the image are *)
(* trees.  The inductive invariant adds what WriteTar needs: the root is   *)
(* never whited out.                                                       *)
(***************************************************************************)
TInv == TypeOK /\ Root \notin snap.whiteouts

(***************************************************************************)
(* ResolvePaths adds only paths that exist.                                *)
(***************************************************************************)
LEMMA ResolvePathType ==
    ASSUME NEW d, NEW p \in Path
    PROVE  /\ ResolvePath(d, p) \subseteq Path
           /\ \A q \in ResolvePath(d, p) : Exists(d, q)
BY DEF ResolvePath

(***************************************************************************)
(* What ResolvePaths returns exists, whether it went through all the paths *)
(* or stopped early.                                                       *)
(***************************************************************************)
LEMMA ResolvePathsType ==
    ASSUME NEW d \in [Path -> Node], IsTree(d), NEW S \in SUBSET Path, NEW R \in ResolvePaths(d, S)
    PROVE  R \subseteq Path /\ \A q \in R : Exists(d, q)
<1>. DEFINE bad == {p \in S : EvalFails(d, p)}
            resolved(T) == UNION {ResolvePath(d, p) : p \in T}
<1>1. \A T \in SUBSET S : resolved(T) \subseteq Path /\ \A q \in resolved(T) : Exists(d, q)
  BY ResolvePathType
<1>2. CASE bad = {}
  <2>1. R = filesWithParentDirs(resolved(S))
    BY <1>2 DEF ResolvePaths
  <2>2. \A p \in resolved(S) : \A q \in ParentDirectories(p) : q \in Path /\ Exists(d, q)
    BY <1>1, PathAssumption DEF IsTree, Exists
  <2>. QED
    BY <1>1, <2>1, <2>2 DEF filesWithParentDirs
<1>3. CASE bad # {}
  <2>1. PICK T \in SUBSET (S \ bad), p \in bad : R = resolved(T) \cup {p}
    BY <1>3 DEF ResolvePaths
  <2>2. p \in Path /\ Exists(d, p)
    BY DEF EvalFails
  <2>. QED
    BY <1>1, <2>1, <2>2
<1>. QED
  BY <1>2, <1>3

(***************************************************************************)
(* removeObsoleteWhiteouts gives some of the deleted paths, never the root.*)
(***************************************************************************)
LEMMA ObsoleteWhiteouts ==
    ASSUME NEW D \in SUBSET Path
    PROVE  removeObsoleteWhiteouts(D) \subseteq D /\ Root \notin removeObsoleteWhiteouts(D)
<1>1. Dir(Root) = Root
  <2>1. Len(Root) = 0
    BY EmptySeq DEF Root
  <2>2. Len(Root) - 1 \in Int /\ Len(Root) - 1 < 1
    BY <2>1, SMT
  <2>. QED
    BY <2>2, SubSeqEmpty, SMT DEF Dir, Root
<1>. QED
  BY <1>1 DEF removeObsoleteWhiteouts

(***************************************************************************)
(* No snapshot under way is a state of the snapshot.                       *)
(***************************************************************************)
LEMMA NoSnapType == NoSnap \in Snap /\ NoSnap.whiteouts = {}
BY DEF NoSnap, Snap

(***************************************************************************)
(* An edit of one path keeps the types.                                    *)
(***************************************************************************)
LEMMA EditType ==
    ASSUME TInv, NEW p \in Path, NEW node \in Node, clock' \in 0 .. MaxTime, Edit(p, node),
           \A q \in ParentDirectories(p) : fs[q].kind = "dir",
           node.kind = "dir" \/ fs[p].kind # "dir",
           node.kind = "none" => node = Absent
    PROVE  TInv'
<1>1. fs' \in [Path -> Node] /\ IsTree(fs')
  BY EditTree DEF Edit, TInv, TypeOK
<1>2. touched' \subseteq Path
  BY DEF Edit, TInv, TypeOK
<1>. QED
  BY <1>1, <1>2 DEF Edit, TInv, TypeOK, IsTree, Exists

(***************************************************************************)
(* The clock stays within its bound.                                       *)
(***************************************************************************)
LEMMA TickType ==
    ASSUME TypeOK, Tick
    PROVE  clock' \in 0 .. MaxTime
BY PathAssumption, SMT DEF TypeOK, Tick

(***************************************************************************)
(* The parents of a path that exists are directories.                      *)
(***************************************************************************)
LEMMA ParentsOfExisting ==
    ASSUME TypeOK, NEW p \in Path, Exists(fs, p)
    PROVE  \A q \in ParentDirectories(p) : fs[q].kind = "dir"
BY DEF TypeOK, IsTree

(***************************************************************************)
(* What is created has permissions.                                        *)
(***************************************************************************)
LEMMA UmaskType == Umask \in Perm
BY PathAssumption DEF Umask

(***************************************************************************)
(* The commands of a Dockerfile, and processes left over from RUN.         *)
(***************************************************************************)
LEMMA CommandType ==
    ASSUME TInv, Command
    PROVE  TInv'
<1>. USE DEF TInv
<1>0. Root \in Data \cup Path /\ Path \subseteq Data \cup Path
  BY PathAssumption
<1>1. ASSUME NEW p \in Path, NEW x \in Data, WriteFile(p, x) PROVE TInv'
  <2>1. clock' \in 0 .. MaxTime
    BY <1>1, TickType DEF WriteFile
  <2>2. \A q \in ParentDirectories(p) : fs[q].kind = "dir"
    BY <1>1, CanCreateParents, ParentsOfExisting DEF WriteFile, TypeOK, Exists
  <2>3. (IF Exists(fs, p) THEN fs[p].perm ELSE Umask) \in Perm
    BY UmaskType DEF TypeOK, Node
  <2>4. fs[p].kind # "dir"
    BY <1>1 DEF WriteFile, CanCreate, Exists
  <2>. DEFINE node == [kind |-> "file", perm |-> IF Exists(fs, p) THEN fs[p].perm ELSE Umask,
                       mtime |-> clock', data |-> x]
  <2>5. node \in Node /\ node.kind = "file"
    BY <2>1, <2>3 DEF Node, Kind
  <2>6. Edit(p, node)
    BY <1>1 DEF WriteFile
  <2>. HIDE DEF node
  <2>. QED
    BY <2>1, <2>2, <2>4, <2>5, <2>6, EditType
<1>2. ASSUME NEW p \in Path, Mkdir(p) PROVE TInv'
  <2>1. clock' \in 0 .. MaxTime
    BY <1>2, TickType DEF Mkdir
  <2>2. \A q \in ParentDirectories(p) : fs[q].kind = "dir"
    BY <1>2, CanCreateParents DEF Mkdir, TypeOK
  <2>. DEFINE node == [kind |-> "dir", perm |-> Umask, mtime |-> clock', data |-> Root]
  <2>3. node \in Node /\ node.kind = "dir"
    BY <1>0, <2>1, UmaskType DEF Node, Kind
  <2>4. Edit(p, node)
    BY <1>2 DEF Mkdir
  <2>. HIDE DEF node
  <2>. QED
    BY <2>1, <2>2, <2>3, <2>4, EditType
<1>3. ASSUME NEW p \in Path, NEW t \in Path, Symlink(p, t) PROVE TInv'
  <2>1. clock' \in 0 .. MaxTime
    BY <1>3, TickType DEF Symlink
  <2>2. (\A q \in ParentDirectories(p) : fs[q].kind = "dir") /\ fs[p].kind # "dir"
    BY <1>3, CanCreateParents DEF Symlink, TypeOK, CanCreate, Exists
  <2>. DEFINE node == [kind |-> "link", perm |-> Umask, mtime |-> clock', data |-> t]
  <2>3. node \in Node /\ node.kind = "link"
    BY <2>1, UmaskType DEF Node, Kind
  <2>4. Edit(p, node)
    BY <1>3 DEF Symlink
  <2>. HIDE DEF node
  <2>. QED
    BY <2>1, <2>2, <2>3, <2>4, EditType
<1>4. ASSUME NEW p \in Path, NEW m \in Perm, Chmod(p, m) PROVE TInv'
  <2>1. clock' \in 0 .. MaxTime
    BY <1>4, TickType DEF Chmod
  <2>2. \A q \in ParentDirectories(p) : fs[q].kind = "dir"
    BY <1>4, ParentsOfExisting DEF Chmod, Exists
  <2>. DEFINE node == [fs[p] EXCEPT !.perm = m]
  <2>3. node \in Node /\ node.kind = fs[p].kind
    BY DEF TypeOK, Node
  <2>4. Edit(p, node) /\ fs[p].kind \in {"file", "dir"}
    BY <1>4 DEF Chmod
  <2>. HIDE DEF node
  <2>. QED
    BY <2>1, <2>2, <2>3, <2>4, EditType
<1>5. ASSUME NEW p \in Path, Remove(p) PROVE TInv'
  <2>1. clock' \in 0 .. MaxTime
    BY <1>5, TickType DEF Remove
  <2>2. fs' \in [Path -> Node] /\ IsTree(fs')
    BY <1>5, RemoveTree DEF Remove, TypeOK
  <2>3. touched' \subseteq Path
    BY <1>5 DEF Remove, TypeOK
  <2>. QED
    BY <1>5, <2>1, <2>2, <2>3 DEF Remove, TypeOK, IsTree, Exists
<1>6. ASSUME NEW p \in Path, Volume(p) PROVE TInv'
  <2>1. clock' \in 0 .. MaxTime
    BY <1>6, TickType DEF Volume
  <2>2. fs' \in [Path -> Node] /\ IsTree(fs')
    <3>1. CASE UNCHANGED fs
      BY <3>1 DEF TypeOK, IsTree, Exists
    <3>2. CASE CanCreate(p) /\ fs' = [fs EXCEPT ![p] = [kind |-> "dir", perm |-> Umask,
                                                        mtime |-> clock', data |-> Root]]
      <4>. DEFINE node == [kind |-> "dir", perm |-> Umask, mtime |-> clock', data |-> Root]
      <4>1. node \in Node /\ node.kind = "dir"
        BY <1>0, <2>1, UmaskType DEF Node, Kind
      <4>2. \A q \in ParentDirectories(p) : fs[q].kind = "dir"
        BY <3>2, CanCreateParents DEF TypeOK
      <4>3. fs' = [fs EXCEPT ![p] = node]
        BY <3>2
      <4>. HIDE DEF node
      <4>. QED
        BY <4>1, <4>2, <4>3, EditTree DEF TypeOK
    <3>. QED
      BY <1>6, <3>1, <3>2 DEF Volume
  <2>3. touched' \subseteq Path /\ volumes' \subseteq Path
    BY <1>6 DEF Volume, TypeOK
  <2>. QED
    BY <1>6, <2>1, <2>2, <2>3 DEF Volume, TypeOK, IsTree, Exists
<1>. QED
  BY <1>1, <1>2, <1>3, <1>4, <1>5, <1>6 DEF Command

(***************************************************************************)
(* Writes and removals by a process left over from RUN keep the types.     *)
(***************************************************************************)
LEMMA InterferenceType ==
    ASSUME TInv, Interference
    PROVE  TInv'
<1>. USE DEF TInv
<1>1. ASSUME NEW p \in Path, NEW x \in Data, DaemonWrite(p, x) PROVE TInv'
  <2>1. clock' \in 0 .. MaxTime
    BY <1>1, TickType DEF DaemonWrite
  <2>2. \A q \in ParentDirectories(p) : fs[q].kind = "dir"
    BY <1>1, ParentsOfExisting DEF DaemonWrite, Exists
  <2>. DEFINE node == [fs[p] EXCEPT !.mtime = clock', !.data = x]
  <2>3. node \in Node /\ node.kind = fs[p].kind
    <3>1. fs[p] \in Node /\ x \in Data \cup Path
      BY DEF TypeOK
    <3>2. \A n \in Node, t \in 0 .. MaxTime, y \in Data \cup Path :
            /\ [n EXCEPT !.mtime = t, !.data = y] \in Node
            /\ [n EXCEPT !.mtime = t, !.data = y].kind = n.kind
      BY DEF Node
    <3>. QED
      BY <2>1, <3>1, <3>2
  <2>4. Edit(p, node) /\ fs[p].kind = "file"
    BY <1>1 DEF DaemonWrite
  <2>. HIDE DEF node
  <2>. QED
    BY <2>1, <2>2, <2>3, <2>4, EditType
<1>2. ASSUME NEW p \in Path, DaemonRemove(p) PROVE TInv'
  <2>1. clock' \in 0 .. MaxTime
    BY <1>2, TickType DEF DaemonRemove
  <2>2. \A q \in ParentDirectories(p) : fs[q].kind = "dir"
    BY <1>2, ParentsOfExisting DEF DaemonRemove, Exists
  <2>3. Edit(p, Absent) /\ fs[p].kind = "file"
    BY <1>2 DEF DaemonRemove
  <2>. QED
    BY <2>1, <2>2, <2>3, EditType, AbsentNode
<1>3. ASSUME NEW p \in Path, NEW V \in SUBSET Walked(fs), WalkBreaksOff(p, V) PROVE TInv'
  <2>1. clock' \in 0 .. MaxTime
    BY <1>3, TickType DEF WalkBreaksOff
  <2>2. fs' \in [Path -> Node] /\ IsTree(fs')
    <3>1. \A q \in ParentDirectories(p) : fs[q].kind = "dir"
      BY <1>3, ParentsOfExisting DEF WalkBreaksOff, Exists
    <3>2. fs' = [fs EXCEPT ![p] = Absent] /\ fs[p].kind = "file"
      BY <1>3 DEF WalkBreaksOff
    <3>3. fs \in [Path -> Node] /\ IsTree(fs)
      BY DEF TypeOK
    <3>. QED
      BY <3>1, <3>2, <3>3, EditTree, AbsentNode
  <2>3. l' \in LayeredMaps
    BY <1>3, SnapshotType, CheckFileChangesType DEF WalkBreaksOff, Walk, TypeOK
  <2>4. /\ ChangedFiles(Snapshot(l), fs, V) \in SUBSET Path
        /\ GetCurrentPaths(Snapshot(l)) \ (V \cup {p}) \in SUBSET Path
    BY DEF Walked, ChangedFiles, GetCurrentPaths
  <2>5. snap' \in Snap /\ snap'.whiteouts = {}
    BY <1>3, <2>4, NoSnapType DEF WalkBreaksOff, Walk, Snap, NoSnap
  <2>. QED
    BY <1>3, <2>1, <2>2, <2>3, <2>5 DEF WalkBreaksOff, Walk, TypeOK, IsTree, Exists
<1>. QED
  BY <1>1, <1>2, <1>3 DEF Interference

(***************************************************************************)
(* The steps of a snapshot.                                                *)
(***************************************************************************)
LEMMA ScanType ==
    ASSUME TInv, NEW b \in BOOLEAN, Scan(b)
    PROVE  TInv'
<1>. USE DEF TInv
<1>1. l' \in LayeredMaps
  BY SnapshotType, CheckFileChangesType DEF Scan, Walk, TypeOK
<1>2. /\ Walked(fs) \subseteq Path
      /\ ChangedFiles(Snapshot(l), fs, Walked(fs)) \in SUBSET Path
      /\ GetCurrentPaths(Snapshot(l)) \ Walked(fs) \in SUBSET Path
  BY DEF Walked, ChangedFiles, GetCurrentPaths
<1>3. snap' \in Snap /\ snap'.whiteouts = {}
  BY <1>2, NoSnapType DEF Scan, Walk, Snap, NoSnap
<1>. QED
  BY <1>1, <1>3 DEF Scan, Walk, TypeOK, IsTree, Exists

(***************************************************************************)
(* Recording additions and deletions keeps the types (scanFullFilesystem). *)
(***************************************************************************)
LEMMA RecordType ==
    ASSUME TInv, Record
    PROVE  TInv'
<1>. USE DEF TInv
<1>1. PICK resolved \in ResolvePaths(fs, snap.changed) :
         /\ l' = AddDelete(Add(l, fs, {p \in resolved : ~CheckIgnoreList(p)}), snap.deleted)
         /\ snap' = IF ~snap.toTar THEN NoSnap
                    ELSE [snap EXCEPT !.files = {p \in resolved : ~CheckIgnoreList(p)},
                              !.whiteouts = removeObsoleteWhiteouts(snap.deleted)]
  BY DEF Record
<1>2. snap.changed \in SUBSET Path /\ snap.deleted \in SUBSET Path
  BY DEF TypeOK, Snap
<1>3. resolved \subseteq Path
  BY <1>2, ResolvePathsType DEF TypeOK
<1>4. l' \in LayeredMaps
  BY <1>1, <1>2, AddType, AddDeleteType DEF TypeOK
<1>5. /\ removeObsoleteWhiteouts(snap.deleted) \in SUBSET Path
      /\ Root \notin removeObsoleteWhiteouts(snap.deleted)
  BY <1>2, ObsoleteWhiteouts
<1>6. {p \in resolved : ~CheckIgnoreList(p)} \in SUBSET Path
  BY <1>3
<1>7. snap' \in Snap /\ Root \notin snap'.whiteouts
  <2>1. CASE ~snap.toTar
    BY <1>1, <2>1, NoSnapType
  <2>2. CASE snap.toTar
    BY <1>1, <1>5, <1>6, <2>2 DEF Snap, TypeOK
  <2>. QED
    BY <2>1, <2>2
<1>. QED
  BY <1>4, <1>7 DEF Record, TypeOK, IsTree, Exists

(***************************************************************************)
(* A snapshot of listed files keeps the types (TakeSnapshot).              *)
(***************************************************************************)
LEMMA TakeSnapshotType ==
    ASSUME TInv, NEW files \in SUBSET Path, NEW b \in BOOLEAN, NEW force \in BOOLEAN,
           TakeSnapshot(files, b, force)
    PROVE  TInv'
<1>. USE DEF TInv
<1>1. CASE files = {} /\ ~force
  BY <1>1, SnapshotType DEF TakeSnapshot, TypeOK, IsTree, Exists
<1>2. CASE ~(files = {} /\ ~force)
  <2>1. PICK resolved \in ResolvePaths(fs, files) :
          LET l2 == Add(Snapshot(l), fs, resolved)
              deleted == IF b THEN GetCurrentPaths(l2) \ Walked(fs) ELSE {}
          IN /\ l' = AddDelete(l2, deleted)
             /\ snap' = [NoSnap EXCEPT !.toTar = TRUE, !.files = resolved,
                    !.deleted = deleted,
                    !.whiteouts = removeObsoleteWhiteouts(deleted)]
             /\ pc' = "recorded"
    BY <1>2 DEF TakeSnapshot
  <2>. DEFINE l2 == Add(Snapshot(l), fs, resolved)
              deleted == IF b THEN GetCurrentPaths(l2) \ Walked(fs) ELSE {}
  <2>2. resolved \subseteq Path
    BY ResolvePathsType DEF TypeOK
  <2>3. l2 \in LayeredMaps
    BY SnapshotType, AddType DEF TypeOK
  <2>4. deleted \in SUBSET Path
    BY DEF GetCurrentPaths
  <2>5. l' = AddDelete(l2, deleted) /\ pc' = "recorded"
        /\ snap' = [NoSnap EXCEPT !.toTar = TRUE, !.files = resolved, !.deleted = deleted,
                        !.whiteouts = removeObsoleteWhiteouts(deleted)]
    BY <2>1
  <2>. HIDE DEF l2, deleted
  <2>6. l' \in LayeredMaps
    BY <2>3, <2>4, <2>5, AddDeleteType
  <2>7. snap' \in Snap /\ Root \notin snap'.whiteouts
    <3>1. /\ removeObsoleteWhiteouts(deleted) \in SUBSET Path
          /\ Root \notin removeObsoleteWhiteouts(deleted)
      BY <2>4, ObsoleteWhiteouts
    <3>. QED
      BY <2>2, <2>4, <2>5, <3>1 DEF Snap, NoSnap
  <2>. QED
    BY <2>5, <2>6, <2>7 DEF TakeSnapshot, TypeOK, IsTree, Exists
<1>. QED
  BY <1>1, <1>2

(***************************************************************************)
(* The tarball takes its entries from the file system, parents included.   *)
(***************************************************************************)
LEMMA TarLayerFacts ==
    ASSUME TInv
    PROVE  /\ TarLayer.nodes = fs /\ TarLayer.adds \subseteq Path
           /\ \A p \in TarLayer.adds : ParentDirectories(p) \subseteq TarLayer.adds
           /\ \A w \in TarLayer.whiteouts : w \in snap.whiteouts /\ w \in Path /\ w # Root
<1>. DEFINE whiteouts == {p \in snap.whiteouts : ~parentPathIncludesNonDirectory(fs, p)}
            up == snap.files \cup whiteouts
<1>1. /\ TarLayer.nodes = fs /\ TarLayer.whiteouts = whiteouts
      /\ TarLayer.adds = snap.files \cup UNION {ParentDirectories(p) : p \in up}
  BY DEF TarLayer, writeToTar
<1>2. snap.files \subseteq Path /\ snap.whiteouts \subseteq Path
  BY DEF TInv, TypeOK, Snap
<1>3. TarLayer.adds \subseteq Path
  BY <1>1, <1>2, PathAssumption
<1>4. ASSUME NEW p \in TarLayer.adds, NEW q \in ParentDirectories(p)
      PROVE  q \in TarLayer.adds
  <2>1. CASE p \in snap.files
    BY <1>1, <1>4, <2>1
  <2>2. CASE p \notin snap.files
    <3>1. PICK r \in up : p \in ParentDirectories(r)
      BY <1>1, <1>4, <2>2
    <3>2. q \in ParentDirectories(r)
      BY <1>2, <1>4, <3>1, ParentsTransitive
    <3>. QED
      BY <1>1, <3>1, <3>2
  <2>. QED
    BY <2>1, <2>2
<1>. QED
  BY <1>1, <1>2, <1>3, <1>4 DEF TInv

(***************************************************************************)
(* Laying the tarball over the image keeps it a tree (writeToTar).         *)
(***************************************************************************)
LEMMA WriteTarType ==
    ASSUME TInv, WriteTar
    PROVE  TInv'
<1>. USE DEF TInv
<1>1. CASE pc' = "failed" /\ UNCHANGED <<image, snap>>
  BY <1>1 DEF WriteTar, AddFileToTarFails, TypeOK, IsTree, Exists
<1>2. CASE /\ \A p \in TarLayer.adds : Exists(fs, p)
           /\ image' = ApplyLayer(image, TarLayer) /\ snap' = NoSnap /\ pc' = "idle"
  <2>1. image' \in [Path -> Node] /\ IsTree(image')
    BY <1>2, TarLayerFacts, ApplyLayerTree DEF TypeOK
  <2>. QED
    BY <1>2, <2>1, NoSnapType DEF WriteTar, AddFileToTarFails, TypeOK, IsTree, Exists
<1>. QED
  BY <1>1, <1>2 DEF WriteTar, AddFileToTarFails

(***************************************************************************)
(* Every step keeps the types.                                             *)
(***************************************************************************)
LEMMA TypeStep ==
    ASSUME TInv, [Next]_vars
    PROVE  TInv'
<1>1. CASE Command
  BY <1>1, CommandType
<1>2. CASE Interference
  BY <1>2, InterferenceType
<1>3. CASE InitSnapshot
  BY <1>3, ScanType DEF InitSnapshot
<1>4. CASE CommandSnapshot
  <2>1. CASE TakeSnapshotFS
    BY <2>1, ScanType DEF TakeSnapshotFS
  <2>2. ASSUME NEW b \in BOOLEAN, NEW force \in BOOLEAN,
               TakeSnapshot(FilesToSnapshot \cup volumes, b, force)
        PROVE  TInv'
    <3>1. touched \subseteq Path /\ Removed \subseteq touched /\ volumes \subseteq Path
      BY DEF TInv, TypeOK, Removed
    <3>2. \A q \in Removed : Dir(q) \in Path
      <4>1. Root \notin Removed
        BY DEF Removed, TInv, TypeOK, IsTree, Exists
      <4>. QED
        BY <3>1, <4>1, DirIsParent
    <3>3. FilesToSnapshot \cup volumes \in SUBSET Path
      BY <3>1, <3>2 DEF FilesToSnapshot
    <3>. QED
      BY <2>2, <3>3, TakeSnapshotType
  <2>. QED
    BY <1>4, <2>1, <2>2 DEF CommandSnapshot
<1>5. CASE Record
  BY <1>5, RecordType
<1>6. CASE WriteTar
  BY <1>6, WriteTarType
<1>7. CASE UNCHANGED vars
  BY <1>7 DEF vars, TInv, TypeOK, IsTree, Exists
<1>. QED
  BY <1>1, <1>2, <1>3, <1>4, <1>5, <1>6, <1>7 DEF Next

(***************************************************************************)
(* In every behaviour, whatever the commands do and whatever processes are *)
(* left behind, the file system and the image built from the layers stay   *)
(* trees and the snapshotter's state stays well formed.                    *)
(***************************************************************************)
THEOREM TypeCorrect == Spec => []TypeOK
<1>1. Init => TInv
  <2>. SUFFICES ASSUME Init PROVE TInv
    OBVIOUS
  <2>1. fs \in [Path -> Node] /\ IsTree(fs) /\ image = fs
    BY SnapshotterAssumption DEF Init
  <2>2. l \in LayeredMaps
    BY EmptyMapType DEF Init, NewLayeredMap, LayeredMaps
  <2>3. 0 \in 0 .. MaxTime
    BY PathAssumption, SMT
  <2>. QED
    BY <2>1, <2>2, <2>3, NoSnapType DEF Init, TInv, TypeOK
<1>2. TInv /\ [Next]_vars => TInv'
  BY TypeStep
<1>3. TInv => TypeOK
  BY DEF TInv
<1>. QED
  BY <1>1, <1>2, <1>3, PTL DEF Spec

-----------------------------------------------------------------------------
(***************************************************************************)
(* Why layers reproduce the file system.  Cur is what the layered map says *)
(* of the image.  An entry is outdated when a path was written after it,   *)
(* or is gone: the next scan will not be fooled by it.                     *)
(***************************************************************************)
Cur == getCurrentImage(l)

Outdated(h, p) ==
    h # NoHash /\ h[3] <= clock /\ (Exists(fs, p) => fs[p].mtime > h[3])

IgnoredBelow(p) == \E e \in Ignored : HasPrefix(p, e)

(***************************************************************************)
(* Time: nothing is stamped later than now, so that what is written next   *)
(* differs from all there is; two nodes of one path with the same mtime    *)
(* have the same contents.                                                 *)
(***************************************************************************)
ClockInv == \A p \in Path : fs[p].mtime <= clock /\ image[p].mtime <= clock

StampInv ==
    \A p \in Path : Exists(fs, p) /\ Exists(image, p) /\ fs[p].mtime = image[p].mtime
        => fs[p].kind = image[p].kind /\ fs[p].data = image[p].data

LinkInv == \A p \in Path : ~EvalFails(fs, p)

(***************************************************************************)
(* What lies above an edited path is a directory or was edited itself;     *)
(* during a snapshot only regular files are edited.                        *)
(***************************************************************************)
TouchedInv ==
    \A p \in touched :
        /\ \A q \in ParentDirectories(p) : fs[q].kind = "dir" \/ (pc = "idle" /\ q \in touched)
        /\ pc \in {"scanned", "recorded"} => fs[p].kind # "dir"

(***************************************************************************)
(* The map has the parents of every path it has.                           *)
(***************************************************************************)
ClosureInv ==
    \A p \in Path : Cur[p] # NoHash => \A q \in ParentDirectories(p) : Cur[q] # NoHash

(***************************************************************************)
(* Between snapshots: an entry of the map is that of the image, or is      *)
(* outdated; before the base is scanned it may be missing.                 *)
(***************************************************************************)
MapInv(p) ==
    \/ Cur[p] = HashIn(image, p)
    \/ Outdated(Cur[p], p)
    \/ ~inited /\ Cur[p] = NoHash

MissingInv(p) == ~Exists(fs, p) /\ p \notin touched => Cur[p] = NoHash

IdleInv ==
    \A p \in Path : Visible(p) =>
        /\ p \notin touched => image[p] = fs[p]
        /\ MapInv(p)
        /\ MissingInv(p)

(***************************************************************************)
(* What a snapshot has found, as long as it is under way: S are the paths  *)
(* found changed, D those found deleted.  A change that is not in S came   *)
(* after the scan.                                                         *)
(***************************************************************************)
FoundInv(S, D) ==
    /\ \A p \in S : Exists(fs, p) \/ p \in touched
    /\ \A w \in D : (~Exists(fs, w) /\ w \notin touched) \/ IgnoredBelow(w)
    /\ \A w \in removeObsoleteWhiteouts(D) : Exists(fs, Dir(w)) \/ Dir(w) \in touched
    /\ \A p \in Path \ S : Visible(p) /\ Exists(fs, p) =>
          image[p].kind = fs[p].kind /\ (p \notin touched => image[p] = fs[p])

(***************************************************************************)
(* After the walk: the map is still that of before the snapshot, the cache *)
(* of hashes is ahead of it.                                               *)
(***************************************************************************)
ScannedInv ==
    /\ l.hasLayer /\ l.isCurrentImageValid /\ l.adds = EmptyMap /\ l.deletes = {}
    /\ FoundInv(snap.changed, snap.deleted)
    /\ \A p \in snap.changed : ~IgnoredBelow(p)
    /\ \A p \in Path : Cur[p] # NoHash =>
          /\ ~Exists(fs, p) /\ p \notin touched => p \in snap.deleted
          /\ \A w \in ParentDirectories(p) : w \in snap.deleted => p \in snap.deleted
    /\ \A p \in Path : Visible(p) =>
          /\ Exists(fs, p) => \/ l.layerHashCache[p] = HashIn(fs, p)
                              \/ Outdated(l.layerHashCache[p], p)
          /\ \/ Cur[p] = HashIn(image, p)
             \/ Outdated(Cur[p], p)
             \/ ~snap.toTar /\ p \in snap.changed
          /\ ~snap.toTar => image[p] = fs[p]
    /\ ~snap.toTar => touched = {}
    /\ snap.toTar => inited

(***************************************************************************)
(* With the map brought up to date and the tarball still to be written:    *)
(* the map is ahead of the image by the files and whiteouts to write.      *)
(***************************************************************************)
RecordedInv ==
    /\ snap.whiteouts = removeObsoleteWhiteouts(snap.deleted)
    /\ FoundInv(snap.files, snap.deleted)
    /\ \A p \in Path : Visible(p) =>
          /\ MissingInv(p)
          /\ ~Exists(fs, p) /\ p \notin touched /\ Exists(image, p) => p \in snap.deleted
          /\ IF p \in snap.files THEN Cur[p] = HashIn(fs, p) \/ Outdated(Cur[p], p)
             ELSE p \in snap.deleted \/ MapInv(p)

FailsInv == pc = "failed" => Removed # {}

IInv ==
    /\ TInv /\ ClockInv /\ StampInv /\ LinkInv /\ TouchedInv /\ ClosureInv
    /\ pc = "idle" => IdleInv
    /\ pc = "scanned" => ScannedInv
    /\ pc = "recorded" => RecordedInv
    /\ FailsInv

(***************************************************************************)
(* All of this as long as no walk has broken off; the types always.        *)
(***************************************************************************)
Inv == TInv /\ (broke = "no" => IInv)

(***************************************************************************)
(* The theorems below are about hashes with the mtime and the permissions  *)
(* in them (the modes "full" and "redo"), and commands that make no link   *)
(* EvalSymlinks fails on: with such a link ResolvePaths loses files, and   *)
(* in mode "time" a chmod goes unnoticed.                                  *)
(***************************************************************************)
Precise == ~BadLinks /\ SnapshotModes \subseteq {"full", "redo"}

(***************************************************************************)
(* A hash tells its mtime, and equal hashes are of nodes with the same     *)
(* kind, permissions and mtime.                                            *)
(***************************************************************************)
LEMMA HashFacts ==
    ASSUME Precise, NEW mode \in SnapshotModes, NEW n \in Node, NEW m \in Node
    PROVE  /\ hasher(mode, n) # NoHash /\ hasher(mode, n)[3] = n.mtime
           /\ hasher(mode, n) = hasher(mode, m) =>
                n.kind = m.kind /\ n.perm = m.perm /\ n.mtime = m.mtime
<1>1. CASE mode = "full"
  BY <1>1 DEF hasher, Hasher, RedoHasher, NoHash
<1>2. CASE mode = "redo"
  BY <1>2 DEF hasher, Hasher, RedoHasher, NoHash
<1>. QED
  BY <1>1, <1>2 DEF Precise

(***************************************************************************)
(* The mtime in a hash is a time.                                          *)
(***************************************************************************)
LEMMA HashTime ==
    ASSUME Precise, NEW h \in Hash, h # NoHash
    PROVE  h[3] \in Nat
<1>1. PICK mode \in SnapshotModes, n \in Node : h = hasher(mode, n)
  BY DEF Hash
<1>2. h[3] = n.mtime
  BY <1>1, HashFacts
<1>3. n.mtime \in 0 .. MaxTime
  BY DEF Node
<1>. QED
  BY <1>2, <1>3, PathAssumption, SMT

(***************************************************************************)
(* Nodes with the same kind, permissions, mtime and data are the same.     *)
(***************************************************************************)
LEMMA SameNode ==
    ASSUME NEW n \in Node, NEW m \in Node,
           n.kind = m.kind, n.perm = m.perm, n.mtime = m.mtime, n.data = m.data
    PROVE  n = m
BY DEF Node

(***************************************************************************)
(* HashIn is a hash, none exactly for what is missing.                     *)
(***************************************************************************)
LEMMA HashInFacts ==
    ASSUME Precise, l \in LayeredMaps, NEW d \in [Path -> Node], NEW p \in Path
    PROVE  /\ HashIn(d, p) = NoHash <=> ~Exists(d, p)
           /\ Exists(d, p) => HashIn(d, p) = hasher(l.mode, d[p]) /\ HashIn(d, p)[3] = d[p].mtime
<1>1. l.mode \in SnapshotModes /\ d[p] \in Node
  BY DEF LayeredMaps
<1>. QED
  BY <1>1, HashFacts DEF HashIn

(***************************************************************************)
(* What is above a path that snapshots see, or that is not ignored, is     *)
(* seen too, or not ignored.                                               *)
(***************************************************************************)
LEMMA VisibleUp ==
    ASSUME NEW p \in Path, NEW q \in ParentDirectories(p)
    PROVE  /\ q \in Path /\ (Visible(p) => Visible(q))
           /\ IgnoredBelow(q) => IgnoredBelow(p)
           /\ TypeOK /\ ~CheckIgnoreList(p) => ~CheckIgnoreList(q)
<1>1. q \in Path /\ HasPrefix(p, q)
  BY PathAssumption DEF HasPrefix
<1>2. \A e : HasPrefix(q, e) => HasPrefix(p, e)
  BY <1>1, HasPrefixTransitive
<1>3. ASSUME NEW v \in Path, Below(q, v) PROVE Below(p, v)
  <2>1. v \in ParentDirectories(p) /\ v # q /\ v \in ParentDirectories(q)
    BY <1>3, ParentsTransitive DEF Below
  <2>2. v # p
    <3>. SUFFICES ASSUME v = p PROVE FALSE
      OBVIOUS
    <3>1. CASE p = Root
      BY <2>1, <3>1 DEF ParentDirectories
    <3>2. CASE p # Root
      BY <2>1, <3>2, ParentsShorter
    <3>. QED
      BY <3>1, <3>2
  <2>. QED
    BY <2>1, <2>2 DEF Below
<1>. QED
  BY <1>1, <1>2, <1>3 DEF Visible, IgnoredBelow, CheckIgnoreList, TypeOK

(***************************************************************************)
(* A path that snapshots see is not ignored in any way.                    *)
(***************************************************************************)
LEMMA VisibleNotIgnored ==
    ASSUME NEW p \in Path, Visible(p)
    PROVE  ~CheckIgnoreList(p) /\ p \notin Ignored /\ ~IgnoredBelow(p)
BY DEF Visible, CheckIgnoreList, IgnoredBelow, HasPrefix, Below

(***************************************************************************)
(* ResolvePaths without a failing link: everything that exists and is not  *)
(* an ignored path is in the result, and so are its parents.               *)
(***************************************************************************)
LEMMA ResolvePathsComplete ==
    ASSUME TypeOK, LinkInv, NEW S \in SUBSET Path, NEW R \in ResolvePaths(fs, S)
    PROVE  /\ R \subseteq Path /\ \A q \in R : Exists(fs, q)
           /\ \A q \in R : ParentDirectories(q) \subseteq R
           /\ \A p \in S : Exists(fs, p) /\ p \notin Ignored => p \in R
<1>. DEFINE X == UNION {ResolvePath(fs, p) : p \in S}
<1>1. R = filesWithParentDirs(X)
  <2>1. {p \in S : EvalFails(fs, p)} = {}
    BY DEF LinkInv
  <2>. QED
    BY <2>1 DEF ResolvePaths
<1>2. R \subseteq Path /\ \A q \in R : Exists(fs, q)
  BY ResolvePathsType DEF TypeOK
<1>3. \A p \in S : Exists(fs, p) /\ p \notin Ignored => p \in X
  BY DEF ResolvePath
<1>. HIDE DEF X
<1>4. ASSUME NEW q \in R, NEW r \in ParentDirectories(q) PROVE r \in R
  <2>1. CASE q \in X
    BY <1>1, <1>4, <2>1 DEF filesWithParentDirs
  <2>2. CASE q \notin X
    <3>1. PICK p \in X : q \in ParentDirectories(p)
      BY <1>1, <1>4, <2>2 DEF filesWithParentDirs
    <3>2. p \in Path
      BY <1>1, <1>2 DEF filesWithParentDirs
    <3>3. r \in ParentDirectories(p)
      BY <1>4, <3>1, <3>2, ParentsTransitive
    <3>. QED
      BY <1>1, <3>3 DEF filesWithParentDirs
  <2>. QED
    BY <2>1, <2>2
<1>. QED
  BY <1>1, <1>2, <1>3, <1>4 DEF filesWithParentDirs

(***************************************************************************)
(* What a map just opened for a layer says after additions and deletions.  *)
(***************************************************************************)
LEMMA CurAfterLayer ==
    ASSUME Precise, NEW m \in LayeredMaps, m.hasLayer, m.isCurrentImageValid,
           m.adds = EmptyMap, m.deletes = {}, NEW d \in [Path -> Node],
           NEW S \in SUBSET Path, NEW D \in SUBSET Path, NEW r,
           r = AddDelete(Add(m, d, S), D)
    PROVE  /\ r.mode = m.mode /\ getCurrentImage(m) = m.currentImage
           /\ \A p \in Path : getCurrentImage(r)[p] =
                IF p \in D THEN NoHash
                ELSE IF p \notin S THEN m.currentImage[p]
                ELSE IF m.layerHashCache[p] # NoHash THEN m.layerHashCache[p]
                ELSE hasher(m.mode, d[p])
<1>. DEFINE a == [p \in Path |-> IF p \notin S THEN NoHash
                    ELSE IF m.layerHashCache[p] # NoHash THEN m.layerHashCache[p]
                    ELSE hasher(m.mode, d[p])]
<1>1. r = [m EXCEPT !.isCurrentImageValid = (S = {} /\ D = {}), !.adds = a, !.deletes = D]
  <2>1. [p \in Path |-> IF p \notin S THEN m.adds[p]
                    ELSE IF m.layerHashCache[p] # NoHash THEN m.layerHashCache[p]
                    ELSE hasher(m.mode, d[p])] = a
    BY DEF EmptyMap
  <2>2. Add(m, d, S) = [m EXCEPT !.isCurrentImageValid = @ /\ S = {}, !.adds = a]
    BY <2>1 DEF Add
  <2>. HIDE DEF a
  <2>. QED
    BY <2>2 DEF AddDelete, LayeredMaps
<1>2. \A p \in S : hasher(m.mode, d[p]) # NoHash
  BY HashFacts DEF LayeredMaps
<1>3. \A p \in Path : a[p] = NoHash <=> p \notin S
  BY <1>2
<1>4. \A p \in Path : p \in S => a[p] = IF m.layerHashCache[p] # NoHash THEN m.layerHashCache[p]
                                        ELSE hasher(m.mode, d[p])
  OBVIOUS
<1>. HIDE DEF a
<1>5. /\ r.mode = m.mode /\ r.hasLayer /\ (r.isCurrentImageValid <=> S = {} /\ D = {})
      /\ r.adds = a /\ r.deletes = D /\ r.currentImage = m.currentImage
  BY <1>1 DEF LayeredMaps
<1>6. getCurrentImage(m) = m.currentImage
  BY DEF getCurrentImage
<1>. QED
  BY <1>3, <1>4, <1>5, <1>6 DEF getCurrentImage

(***************************************************************************)
(* Opening a layer does not change what the map says.                      *)
(***************************************************************************)
LEMMA CurAfterSnapshot ==
    ASSUME NEW m \in LayeredMaps
    PROVE  getCurrentImage(Snapshot(m)) = getCurrentImage(m) /\ Snapshot(m).mode = m.mode
<1>1. Snapshot(m).mode = m.mode
  BY DEF Snapshot, updateCurrentImage, LayeredMaps
<1>. QED
  BY <1>1, SnapshotType DEF getCurrentImage

(***************************************************************************)
(* MapNeverVouchesWrongly, from the state between snapshots.               *)
(***************************************************************************)
LEMMA MapVouches ==
    ASSUME Precise, IInv, pc = "idle", NEW p \in Path, Visible(p),
           Cur[p] = HashIn(fs, p), inited \/ Exists(fs, p)
    PROVE  image[p] = fs[p]
<1>1. /\ l \in LayeredMaps /\ fs \in [Path -> Node] /\ image \in [Path -> Node]
      /\ IsTree(fs) /\ IsTree(image)
  BY DEF IInv, TInv, TypeOK
<1>2. MapInv(p)
  BY DEF IInv, IdleInv
<1>3. CASE Exists(fs, p)
  <2>1. HashIn(fs, p) # NoHash /\ HashIn(fs, p)[3] = fs[p].mtime /\ fs[p].mtime \in Nat
    <3>1. fs[p] \in Node
      BY <1>1
    <3>2. fs[p].mtime \in Nat
      BY <3>1, PathAssumption DEF Node
    <3> QED
      BY <1>1, <1>3, <3>2, HashInFacts, Zenon
  <2>2. ~Outdated(Cur[p], p)
    BY <1>3, <2>1, SMT DEF Outdated
  <2>3. HashIn(image, p) = HashIn(fs, p)
    BY <1>2, <2>1, <2>2 DEF MapInv
  <2>4. Exists(image, p) /\ hasher(l.mode, image[p]) = hasher(l.mode, fs[p])
    BY <1>1, <1>3, <2>1, <2>3, HashInFacts
  <2>5. fs[p].kind = image[p].kind /\ fs[p].perm = image[p].perm /\ fs[p].mtime = image[p].mtime
    BY <1>1, <2>4, HashFacts DEF LayeredMaps
  <2>6. fs[p].data = image[p].data
    BY <1>3, <2>4, <2>5 DEF IInv, StampInv
  <2>. QED
    BY <1>1, <2>5, <2>6, SameNode
<1>4. CASE ~Exists(fs, p)
  <2>1. HashIn(image, p) = NoHash
    BY <1>1, <1>2, <1>4, HashInFacts DEF MapInv, Outdated
  <2>2. ~Exists(image, p)
    BY <1>1, <2>1, HashInFacts
  <2>. QED
    BY <1>1, <1>4, <2>2 DEF IsTree, Exists
<1>. QED
  BY <1>3, <1>4

(***************************************************************************)
(* What an edit may do to the node of a path: leave it, remove it, stamp   *)
(* it with the time, or change its permissions only.                       *)
(***************************************************************************)
Edited(p) ==
    \/ fs'[p] = fs[p]
    \/ fs'[p].kind = "none"
    \/ fs'[p].mtime = clock'
    \/ /\ fs[p].kind # "none" /\ fs'[p].kind = fs[p].kind
       /\ fs'[p].mtime = fs[p].mtime /\ fs'[p].data = fs[p].data

(***************************************************************************)
(* Time goes on with an edit: an entry of the map that is outdated stays   *)
(* so, and so does the entry of what is written or removed.                *)
(***************************************************************************)
LEMMA EditTime ==
    ASSUME Precise, IInv, TInv', Tick, UNCHANGED <<image, l>>, \A p \in Path : Edited(p)
    PROVE  /\ ClockInv' /\ StampInv' /\ ClosureInv' /\ Cur' = Cur
           /\ \A p \in Path : HashIn(image, p)' = HashIn(image, p)
           /\ \A p \in Path, h \in Hash : Outdated(h, p) => Outdated(h, p)'
           /\ \A p \in Path, h \in Hash :
                /\ Exists(fs, p) /\ (fs'[p].kind = "none" \/ fs'[p].mtime = clock')
                /\ h = HashIn(fs, p)
                => Outdated(h, p)'
<1>1. /\ fs \in [Path -> Node] /\ image \in [Path -> Node] /\ clock \in Nat
      /\ fs' \in [Path -> Node] /\ clock' = clock + 1 /\ l \in LayeredMaps
  BY PathAssumption, SMT DEF IInv, TInv, TypeOK, Tick
<1>2. \A p \in Path : fs[p].mtime \in Nat /\ fs'[p].mtime \in Nat /\ image[p].mtime \in Nat
  BY <1>1, PathAssumption, SMT DEF Node
<1>3. \A p \in Path : fs'[p].kind = "none" => fs'[p].mtime = 0
  <2>1. Absent.mtime = 0
    BY DEF Absent
  <2>2. \A p \in Path : fs'[p].kind = "none" => fs'[p] = Absent
    BY DEF TInv, TypeOK, IsTree
  <2>. QED
    BY <2>1, <2>2
<1>4. \A p \in Path : fs[p].mtime <= clock /\ image[p].mtime <= clock
  BY DEF IInv, ClockInv
<1>5. ClockInv'
  <2>1. ASSUME NEW p \in Path PROVE fs'[p].mtime <= clock' /\ image[p].mtime <= clock'
    <3>1. CASE fs'[p] = fs[p]
      BY <1>1, <1>2, <1>4, <3>1, SMT
    <3>2. CASE fs'[p].kind = "none"
      BY <1>1, <1>2, <1>3, <1>4, <3>2, SMT
    <3>3. CASE fs'[p].mtime = clock'
      BY <1>1, <1>2, <1>4, <3>3, SMT
    <3>4. CASE fs'[p].mtime = fs[p].mtime
      BY <1>1, <1>2, <1>4, <3>4, SMT
    <3>. QED
      BY <3>1, <3>2, <3>3, <3>4 DEF Edited
  <2>. QED
    BY <2>1 DEF ClockInv
<1>6. StampInv'
  <2>1. ASSUME NEW p \in Path, fs'[p].kind # "none", image[p].kind # "none",
               fs'[p].mtime = image[p].mtime
        PROVE  fs'[p].kind = image[p].kind /\ fs'[p].data = image[p].data
    <3>1. fs'[p].mtime # clock'
      BY <1>1, <1>2, <1>4, <2>1, SMT
    <3>2. fs[p].kind # "none" /\ fs'[p].kind = fs[p].kind
          /\ fs'[p].mtime = fs[p].mtime /\ fs'[p].data = fs[p].data
      BY <2>1, <3>1 DEF Edited
    <3>. QED
      BY <2>1, <3>2 DEF IInv, StampInv, Exists
  <2>. QED
    BY <2>1 DEF StampInv, Exists
<1>7. Cur' = Cur
  BY DEF Cur
<1>8. ClosureInv'
  BY <1>7 DEF IInv, ClosureInv
<1>9. \A p \in Path : HashIn(image, p)' = HashIn(image, p)
  BY DEF HashIn, Exists
<1>10. ASSUME NEW p \in Path, NEW h \in Hash, Outdated(h, p) PROVE Outdated(h, p)'
  <2>1. h # NoHash /\ h[3] \in Nat /\ h[3] <= clock
    BY <1>10, HashTime DEF Outdated
  <2>2. h[3] <= clock' /\ h[3] < clock'
    BY <1>1, <2>1, SMT
  <2>3. ASSUME fs'[p].kind # "none" PROVE fs'[p].mtime > h[3]
    <3>1. CASE fs'[p].mtime = clock'
      BY <1>1, <2>1, <3>1, SMT
    <3>2. CASE fs[p].kind # "none" /\ fs'[p].mtime = fs[p].mtime
      BY <1>10, <3>2 DEF Outdated, Exists
    <3>. QED
      BY <2>3, <3>1, <3>2 DEF Edited
  <2>. QED
    BY <2>1, <2>2, <2>3 DEF Outdated, Exists
<1>11. ASSUME NEW p \in Path, NEW h \in Hash, h = HashIn(fs, p), Exists(fs, p),
              fs'[p].kind = "none" \/ fs'[p].mtime = clock'
       PROVE  Outdated(h, p)'
  <2>1. h # NoHash /\ h[3] = fs[p].mtime
    BY <1>1, <1>11, HashInFacts
  <2>2. h # NoHash /\ h[3] <= clock' /\ (fs'[p].kind # "none" => fs'[p].mtime > h[3])
    BY <1>1, <1>2, <1>4, <1>11, <2>1, SMT
  <2>. QED
    BY <2>2 DEF Outdated, Exists
<1>. QED
  BY <1>5, <1>6, <1>7, <1>8, <1>9, <1>10, <1>11

(***************************************************************************)
(* An edit between snapshots keeps the invariant.                          *)
(***************************************************************************)
LEMMA IdleEdit ==
    ASSUME Precise, IInv, pc = "idle", TInv', Tick, UNCHANGED <<image, l, pc, snap, inited>>,
           \A p \in Path : Edited(p), \A p \in Path \ touched' : fs'[p] = fs[p],
           volumes \subseteq volumes', touched \subseteq touched', LinkInv', TouchedInv'
    PROVE  IInv'
<1>1. /\ ClockInv' /\ StampInv' /\ ClosureInv' /\ Cur' = Cur
      /\ \A p \in Path : HashIn(image, p)' = HashIn(image, p)
      /\ \A p \in Path, h \in Hash : Outdated(h, p) => Outdated(h, p)'
  BY EditTime
<1>2. Cur \in [Path -> Hash]
  BY CurrentImageType DEF Cur, IInv, TInv, TypeOK
<1>3. ASSUME NEW p \in Path, Visible(p)'
      PROVE  /\ p \notin touched' => image[p]' = fs'[p]
             /\ MapInv(p)' /\ MissingInv(p)'
  <2>1. Visible(p)
    BY <1>3 DEF Visible
  <2>2. (p \notin touched => image[p] = fs[p]) /\ MapInv(p) /\ MissingInv(p)
    BY <2>1 DEF IInv, IdleInv
  <2>3. p \notin touched' => image[p]' = fs'[p]
    BY <2>2
  <2>4. MapInv(p)'
    <3>1. CASE Cur[p] = HashIn(image, p)
      BY <1>1, <3>1 DEF MapInv
    <3>2. CASE Outdated(Cur[p], p)
      <4>1. PICK h \in Hash : h = Cur[p]
        BY <1>2
      <4>2. Outdated(h, p)'
        BY <1>1, <3>2, <4>1
      <4>. QED
        BY <1>1, <4>1, <4>2 DEF MapInv, Outdated
    <3>3. CASE ~inited /\ Cur[p] = NoHash
      BY <1>1, <3>3 DEF MapInv
    <3>. QED
      BY <2>2, <3>1, <3>2, <3>3 DEF MapInv
  <2>5. MissingInv(p)'
    BY <1>1, <2>2 DEF MissingInv, Exists
  <2>. QED
    BY <2>3, <2>4, <2>5
<1>4. IdleInv'
  BY <1>3 DEF IdleInv
<1>. QED
  BY <1>1, <1>4 DEF IInv, FailsInv

(***************************************************************************)
(* An edit of one path between snapshots.                                  *)
(***************************************************************************)
LEMMA IdleEditOne ==
    ASSUME Precise, IInv, pc = "idle", TInv', Tick, NEW p \in Path, NEW node,
           fs' = [fs EXCEPT ![p] = node], Allowed(fs'),
           touched' = touched \cup {p}, volumes \subseteq volumes',
           UNCHANGED <<image, l, pc, snap, inited>>,
           \A q \in ParentDirectories(p) : fs[q].kind = "dir",
           node.kind = "dir" \/ fs[p].kind # "dir",
           \/ node.mtime = clock'
           \/ /\ fs[p].kind # "none" /\ node.kind = fs[p].kind
              /\ node.mtime = fs[p].mtime /\ node.data = fs[p].data
    PROVE  IInv'
<1>1. \A q \in Path : fs'[q] = IF q = p THEN node ELSE fs[q]
  BY DEF IInv, TInv, TypeOK
<1>2. \A q \in Path : Edited(q)
  BY <1>1 DEF Edited
<1>3. LinkInv'
  BY DEF Allowed, Precise, LinkInv
<1>4. TouchedInv'
  <2>1. \A q \in Path : fs[q].kind = "dir" => fs'[q].kind = "dir"
    BY <1>1
  <2>2. \A x \in touched : \A q \in ParentDirectories(x) : fs[q].kind = "dir" \/ q \in touched
    BY DEF IInv, TouchedInv
  <2>3. \A x \in touched' : ParentDirectories(x) \subseteq Path
    BY PathAssumption DEF TInv, TypeOK
  <2>. QED
    BY <2>1, <2>2, <2>3 DEF TouchedInv
<1>. QED
  BY <1>1, <1>2, <1>3, <1>4, IdleEdit

(***************************************************************************)
(* The commands of a Dockerfile keep the invariant.                        *)
(***************************************************************************)
LEMMA CommandInv ==
    ASSUME Precise, IInv, Command
    PROVE  IInv'
<1>0. TInv' /\ TypeOK /\ IsTree(fs)
  BY CommandType DEF IInv, TInv, TypeOK
<1>1. ASSUME NEW p \in Path, NEW x \in Data, WriteFile(p, x) PROVE IInv'
  <2>1. \A q \in ParentDirectories(p) : fs[q].kind = "dir"
    BY <1>0, <1>1, CanCreateParents, ParentsOfExisting DEF WriteFile, Exists
  <2>2. fs[p].kind # "dir"
    BY <1>1 DEF WriteFile, CanCreate, Exists
  <2>3. PICK node : node.kind = "file" /\ node.mtime = clock' /\ Edit(p, node)
    BY <1>1 DEF WriteFile
  <2>. QED
    BY <1>0, <1>1, <2>1, <2>2, <2>3, IdleEditOne DEF WriteFile, Edit
<1>2. ASSUME NEW p \in Path, Mkdir(p) PROVE IInv'
  <2>1. \A q \in ParentDirectories(p) : fs[q].kind = "dir"
    BY <1>0, <1>2, CanCreateParents DEF Mkdir
  <2>2. PICK node : node.kind = "dir" /\ node.mtime = clock' /\ Edit(p, node)
    BY <1>2 DEF Mkdir
  <2>. QED
    BY <1>0, <1>2, <2>1, <2>2, IdleEditOne DEF Mkdir, Edit
<1>3. ASSUME NEW p \in Path, NEW t \in Path, Symlink(p, t) PROVE IInv'
  <2>1. (\A q \in ParentDirectories(p) : fs[q].kind = "dir") /\ fs[p].kind # "dir"
    BY <1>0, <1>3, CanCreateParents DEF Symlink, CanCreate, Exists
  <2>2. PICK node : node.kind = "link" /\ node.mtime = clock' /\ Edit(p, node)
    BY <1>3 DEF Symlink
  <2>. QED
    BY <1>0, <1>3, <2>1, <2>2, IdleEditOne DEF Symlink, Edit
<1>4. ASSUME NEW p \in Path, NEW m \in Perm, Chmod(p, m) PROVE IInv'
  <2>1. \A q \in ParentDirectories(p) : fs[q].kind = "dir"
    BY <1>0, <1>4, ParentsOfExisting DEF Chmod, Exists
  <2>2. fs[p] \in Node /\ fs[p].kind # "none"
    BY <1>0, <1>4 DEF TypeOK, Chmod
  <2>. DEFINE n == [fs[p] EXCEPT !.perm = m]
  <2>3. n.kind = fs[p].kind /\ n.mtime = fs[p].mtime /\ n.data = fs[p].data
    BY <2>2 DEF Node
  <2>4. Edit(p, n)
    BY <1>4 DEF Chmod
  <2>. HIDE DEF n
  <2>. QED
    BY <1>0, <1>4, <2>1, <2>2, <2>3, <2>4, IdleEditOne DEF Chmod, Edit
<1>5. ASSUME NEW p \in Path, Remove(p) PROVE IInv'
  <2>. DEFINE gone == {q \in Path : HasPrefix(q, p) /\ Exists(fs, q)}
  <2>1. \A q \in Path : fs'[q] = IF q \in gone THEN Absent ELSE fs[q]
    BY <1>5 DEF Remove
  <2>2. touched' = touched \cup gone /\ gone \subseteq Path
    BY <1>5 DEF Remove
  <2>3. \A q \in gone : \A r \in ParentDirectories(q) : r \in Path /\ fs[r].kind = "dir"
    BY <1>0, PathAssumption DEF IsTree
  <2>. HIDE DEF gone
  <2>4. \A q \in Path : Edited(q)
    BY <2>1, AbsentNode DEF Edited
  <2>5. LinkInv'
    BY <1>5 DEF Remove, Allowed, Precise, LinkInv
  <2>6. pc = "idle" /\ pc' = "idle"
    BY <1>5 DEF Remove
  <2>7. TouchedInv'
    <3>1. \A q \in Path : fs[q].kind = "dir" => fs'[q].kind = "dir" \/ q \in touched'
      BY <2>1, <2>2
    <3>2. ASSUME NEW x \in touched', NEW q \in ParentDirectories(x)
          PROVE  fs'[q].kind = "dir" \/ q \in touched'
      <4>1. q \in Path /\ (fs[q].kind = "dir" \/ q \in touched)
        BY <2>2, <2>3, <2>6, <3>2, <1>0, PathAssumption DEF IInv, TouchedInv, TypeOK
      <4>. QED
        BY <2>2, <3>1, <4>1
    <3>. QED
      BY <2>6, <3>2 DEF TouchedInv
  <2>8. \A q \in Path \ touched' : fs'[q] = fs[q]
    BY <2>1, <2>2
  <2>. QED
    BY <1>0, <1>5, <2>2, <2>4, <2>5, <2>7, <2>8, IdleEdit DEF Remove
<1>6. ASSUME NEW p \in Path, Volume(p) PROVE IInv'
  <2>1. CASE UNCHANGED <<fs, touched>>
    <3>1. \A q \in Path : Edited(q)
      BY <2>1 DEF Edited
    <3>2. LinkInv' /\ TouchedInv'
      <4>1. LinkInv'
        BY <2>1 DEF IInv, LinkInv, EvalFails, Exists
      <4>2. TouchedInv'
        BY <1>6, <2>1 DEF Volume, IInv, TouchedInv
      <4>. QED
        BY <4>1, <4>2
    <3>. QED
      BY <1>0, <1>6, <2>1, <3>1, <3>2, IdleEdit DEF Volume
  <2>2. CASE CanCreate(p) /\ \E node : /\ node.kind = "dir" /\ node.mtime = clock'
                                       /\ fs' = [fs EXCEPT ![p] = node]
                                       /\ Allowed(fs') /\ touched' = touched \cup {p}
    <3>1. \A q \in ParentDirectories(p) : fs[q].kind = "dir"
      BY <1>0, <2>2, CanCreateParents
    <3>2. PICK node : /\ node.kind = "dir" /\ node.mtime = clock'
                      /\ fs' = [fs EXCEPT ![p] = node]
                      /\ Allowed(fs') /\ touched' = touched \cup {p}
      BY <2>2
    <3>. QED
      BY <1>0, <1>6, <3>1, <3>2, IdleEditOne DEF Volume
  <2>. QED
    BY <1>6, <2>1, <2>2 DEF Volume
<1>. QED
  BY <1>1, <1>2, <1>3, <1>4, <1>5, <1>6 DEF Command

(***************************************************************************)
(* A process left over from RUN writes or removes a file while a snapshot  *)
(* is under way: the snapshot's findings stay right but for that file, and *)
(* the map's entry for it is outdated from now on.                         *)
(***************************************************************************)
LEMMA BusyEdit ==
    ASSUME Precise, IInv, TInv', Tick, pc \in {"scanned", "recorded"}, snap.toTar,
           NEW p \in Path, NEW node, Edit(p, node), fs[p].kind = "file",
           node.kind = "none" \/ (node.kind = "file" /\ node.mtime = clock')
    PROVE  IInv'
<1>0. TypeOK /\ IsTree(fs) /\ l \in LayeredMaps /\ fs \in [Path -> Node]
  BY DEF IInv, TInv, TypeOK
<1>1. /\ \A q \in Path : fs'[q] = IF q = p THEN node ELSE fs[q]
      /\ touched' = touched \cup {p} /\ UNCHANGED <<image, l, volumes, pc, snap, inited>>
  BY <1>0 DEF Edit
<1>2. \A q \in Path : Edited(q)
  BY <1>1 DEF Edited
<1>3. LinkInv'
  BY DEF Edit, Allowed, Precise, LinkInv
<1>4. TouchedInv'
  <2>1. \A q \in Path : fs[q].kind = "dir" <=> fs'[q].kind = "dir"
    BY <1>1
  <2>2. \A q \in ParentDirectories(p) : fs[q].kind = "dir"
    BY <1>0 DEF IsTree, Exists
  <2>3. \A x \in touched' : x \in Path /\ ParentDirectories(x) \subseteq Path
    BY PathAssumption DEF TInv, TypeOK
  <2>. QED
    BY <1>1, <2>1, <2>2, <2>3 DEF TouchedInv, IInv
<1>5. /\ ClockInv' /\ StampInv' /\ ClosureInv' /\ Cur' = Cur
      /\ \A q \in Path : HashIn(image, q)' = HashIn(image, q)
      /\ \A q \in Path, h \in Hash : Outdated(h, q) => Outdated(h, q)'
      /\ \A q \in Path, h \in Hash :
                /\ Exists(fs, q) /\ (fs'[q].kind = "none" \/ fs'[q].mtime = clock')
                /\ h = HashIn(fs, q)
                => Outdated(h, q)'
  BY <1>1, <1>2, EditTime
<1>6. Cur \in [Path -> Hash] /\ l.layerHashCache \in [Path -> Hash]
  BY <1>0, CurrentImageType DEF Cur, LayeredMaps
<1>7. ASSUME NEW S \in SUBSET Path, NEW D \in SUBSET Path, FoundInv(S, D)
      PROVE  FoundInv(S, D)'
  <2>1. \A q \in S : fs'[q].kind # "none" \/ q \in touched'
    BY <1>1, <1>7 DEF FoundInv, Exists
  <2>2. \A w \in D : (fs'[w].kind = "none" /\ w \notin touched') \/ IgnoredBelow(w)
    BY <1>1, <1>7 DEF FoundInv, Exists
  <2>3. \A w \in removeObsoleteWhiteouts(D) : fs'[Dir(w)].kind # "none" \/ Dir(w) \in touched'
    <3>1. \A w \in removeObsoleteWhiteouts(D) : Dir(w) \in Path
      BY ObsoleteWhiteouts, DirIsParent
    <3>. QED
      BY <1>1, <1>7, <3>1 DEF FoundInv, Exists
  <2>4. \A q \in Path \ S : Visible(q) /\ fs'[q].kind # "none" =>
          image[q].kind = fs'[q].kind /\ (q \notin touched' => image[q] = fs'[q])
    BY <1>1, <1>7 DEF FoundInv, Exists
  <2>5. \A q \in Path : Visible(q)' <=> Visible(q)
    BY <1>1 DEF Visible
  <2>. QED
    BY <1>1, <2>1, <2>2, <2>3, <2>4, <2>5 DEF FoundInv, Exists, IgnoredBelow
<1>8. ASSUME NEW q \in Path, NEW h \in Hash, h = HashIn(fs, q) \/ Outdated(h, q),
             Exists(fs, q) \/ h # NoHash
      PROVE  (q # p /\ h = HashIn(fs, q)') \/ Outdated(h, q)'
  <2>1. CASE Outdated(h, q)
    BY <1>5, <2>1
  <2>2. CASE h = HashIn(fs, q) /\ q = p
    BY <1>1, <1>5, <2>2 DEF Exists
  <2>3. CASE h = HashIn(fs, q) /\ q # p
    BY <1>1, <2>3 DEF HashIn, Exists
  <2>. QED
    BY <1>8, <2>1, <2>2, <2>3
<1>9. CASE pc = "scanned"
  <2>1. ScannedInv
    BY <1>9 DEF IInv
  <2>2. FoundInv(snap.changed, snap.deleted)'
    <3>1. PICK S \in SUBSET Path, D \in SUBSET Path : S = snap.changed /\ D = snap.deleted
      BY <1>0 DEF TypeOK, Snap
    <3>2. FoundInv(S, D)'
      BY <1>7, <2>1, <3>1 DEF ScannedInv
    <3>. QED
      BY <1>1, <3>1, <3>2 DEF FoundInv
  <2>3. \A q \in snap'.changed : ~IgnoredBelow(q)'
    BY <1>1, <2>1 DEF ScannedInv, IgnoredBelow
  <2>4. ASSUME NEW q \in Path, Cur'[q] # NoHash
        PROVE /\ ~Exists(fs, q)' /\ q \notin touched' => q \in snap'.deleted
              /\ \A w \in ParentDirectories(q) : w \in snap'.deleted => q \in snap'.deleted
    BY <1>1, <1>5, <2>1, <2>4 DEF ScannedInv, Exists
  <2>5. ASSUME NEW q \in Path, Visible(q)'
        PROVE  /\ Exists(fs, q)' => \/ (l.layerHashCache[q] = HashIn(fs, q))'
                                    \/ Outdated(l.layerHashCache[q], q)'
               /\ \/ (Cur[q] = HashIn(image, q))'
                  \/ Outdated(Cur[q], q)'
    <3>1. Visible(q)
      BY <1>1, <2>5 DEF Visible
    <3>2. /\ Exists(fs, q) => \/ l.layerHashCache[q] = HashIn(fs, q)
                              \/ Outdated(l.layerHashCache[q], q)
          /\ Cur[q] = HashIn(image, q) \/ Outdated(Cur[q], q)
      BY <2>1, <3>1 DEF ScannedInv
    <3>3. ASSUME Exists(fs, q)'
          PROVE (l.layerHashCache[q] = HashIn(fs, q))' \/ Outdated(l.layerHashCache[q], q)'
      <4>1. Exists(fs, q)
        BY <1>1, <3>3 DEF Exists
      <4>2. PICK h \in Hash : h = l.layerHashCache[q]
        BY <1>6
      <4>3. h = HashIn(fs, q)' \/ Outdated(h, q)'
        BY <1>8, <3>2, <4>1, <4>2
      <4>. QED
        BY <1>1, <4>2, <4>3 DEF Outdated
    <3>4. (Cur[q] = HashIn(image, q))' \/ Outdated(Cur[q], q)'
      <4>1. PICK h \in Hash : h = Cur[q]
        BY <1>6
      <4>2. h = HashIn(image, q) \/ Outdated(h, q)'
        BY <1>5, <3>2, <4>1
      <4>. QED
        BY <1>5, <4>1, <4>2 DEF Outdated
    <3>. QED
      BY <3>3, <3>4
  <2>6. ScannedInv'
    BY <1>1, <2>1, <2>2, <2>3, <2>4, <2>5 DEF ScannedInv
  <2>. QED
    BY <1>1, <1>3, <1>4, <1>5, <1>9, <2>6 DEF IInv, FailsInv
<1>10. CASE pc = "recorded"
  <2>1. RecordedInv
    BY <1>10 DEF IInv
  <2>2. FoundInv(snap.files, snap.deleted)'
    <3>1. PICK S \in SUBSET Path, D \in SUBSET Path : S = snap.files /\ D = snap.deleted
      BY <1>0 DEF TypeOK, Snap
    <3>2. FoundInv(S, D)'
      BY <1>7, <2>1, <3>1 DEF RecordedInv
    <3>. QED
      BY <1>1, <3>1, <3>2 DEF FoundInv
  <2>3. ASSUME NEW q \in Path, Visible(q)'
        PROVE  /\ MissingInv(q)'
               /\ (~Exists(fs, q) /\ q \notin touched /\ Exists(image, q) => q \in snap.deleted)'
               /\ (IF q \in snap.files THEN Cur[q] = HashIn(fs, q) \/ Outdated(Cur[q], q)
                   ELSE q \in snap.deleted \/ MapInv(q))'
    <3>1. Visible(q)
      BY <1>1, <2>3 DEF Visible
    <3>2. /\ MissingInv(q)
          /\ ~Exists(fs, q) /\ q \notin touched /\ Exists(image, q) => q \in snap.deleted
          /\ IF q \in snap.files THEN Cur[q] = HashIn(fs, q) \/ Outdated(Cur[q], q)
             ELSE q \in snap.deleted \/ MapInv(q)
      BY <2>1, <3>1 DEF RecordedInv
    <3>3. /\ MissingInv(q)'
          /\ (~Exists(fs, q) /\ q \notin touched /\ Exists(image, q) => q \in snap.deleted)'
      BY <1>1, <1>5, <3>2 DEF MissingInv, Exists
    <3>4. PICK h \in Hash : h = Cur[q]
      BY <1>6
    <3>5. CASE q \in snap.files
      <4>1. h = HashIn(fs, q) \/ Outdated(h, q)
        BY <3>2, <3>4, <3>5
      <4>2. CASE Exists(fs, q) \/ h # NoHash
        <5>1. h = HashIn(fs, q)' \/ Outdated(h, q)'
          BY <1>8, <4>1, <4>2
        <5>. QED
          BY <1>1, <1>5, <3>3, <3>4, <3>5, <5>1 DEF Outdated
      <4>3. CASE ~Exists(fs, q) /\ h = NoHash
        <5>1. HashIn(fs, q)' = NoHash
          BY <1>1, <4>3 DEF HashIn, Exists
        <5>. QED
          BY <1>1, <1>5, <3>3, <3>4, <3>5, <4>3, <5>1
      <4>. QED
        BY <4>2, <4>3
    <3>6. CASE q \notin snap.files
      <4>1. q \in snap.deleted \/ h = HashIn(image, q) \/ Outdated(h, q) \/ (~inited /\ h = NoHash)
        BY <3>2, <3>4, <3>6 DEF MapInv
      <4>2. q \in snap.deleted \/ h = HashIn(image, q) \/ Outdated(h, q)' \/ (~inited /\ h = NoHash)
        BY <1>5, <4>1
      <4>. QED
        BY <1>1, <1>5, <3>3, <3>4, <3>6, <4>2 DEF MapInv, Outdated
    <3>. QED
      BY <3>5, <3>6
  <2>4. RecordedInv'
    BY <1>1, <2>1, <2>2, <2>3 DEF RecordedInv
  <2>. QED
    BY <1>1, <1>3, <1>4, <1>5, <1>10, <2>4 DEF IInv, FailsInv
<1>. QED
  BY <1>9, <1>10

(***************************************************************************)
(* Processes left over from RUN keep the invariant.                        *)
(***************************************************************************)
LEMMA InterferenceInv ==
    ASSUME Precise, IInv, Interference, broke' = "no"
    PROVE  IInv'
<1>0. TInv' /\ TypeOK
  BY InterferenceType DEF IInv, TInv
<1>1. ASSUME NEW p \in Path, NEW x \in Data, DaemonWrite(p, x) PROVE IInv'
  <2>1. fs[p] \in Node
    BY <1>0 DEF TypeOK
  <2>. DEFINE n == [fs[p] EXCEPT !.mtime = clock', !.data = x]
  <2>2. n.kind = fs[p].kind /\ n.mtime = clock'
    <3>1. \A y \in Node, t \in {clock'} : /\ [y EXCEPT !.mtime = t, !.data = x].kind = y.kind
                                          /\ [y EXCEPT !.mtime = t, !.data = x].mtime = t
      BY DEF Node
    <3>. QED
      BY <2>1, <3>1
  <2>3. Edit(p, n)
    BY <1>1 DEF DaemonWrite
  <2>. HIDE DEF n
  <2>. QED
    BY <1>0, <1>1, <2>2, <2>3, BusyEdit DEF DaemonWrite
<1>2. ASSUME NEW p \in Path, DaemonRemove(p) PROVE IInv'
  BY <1>0, <1>2, BusyEdit, AbsentNode DEF DaemonRemove
<1>. QED
  BY <1>1, <1>2 DEF Interference, WalkBreaksOff

(***************************************************************************)
(* The walk finds everything that changed, by the hashes of the map, and   *)
(* everything that is gone.                                                *)
(***************************************************************************)
LEMMA ScanInv ==
    ASSUME Precise, IInv, NEW b \in BOOLEAN, Scan(b), b => inited, ~b => touched \subseteq volumes
    PROVE  IInv'
<1>. DEFINE l1 == Snapshot(l)
            W == Walked(fs)
            C == ChangedFiles(l1, fs, W)
            D == GetCurrentPaths(l1) \ W
<1>0. TypeOK /\ IsTree(fs) /\ l \in LayeredMaps /\ fs \in [Path -> Node] /\ image \in [Path -> Node]
  BY DEF IInv, TInv, TypeOK
<1>1. TInv'
  BY ScanType DEF IInv
<1>2. /\ l1 \in LayeredMaps /\ l1.hasLayer /\ l1.isCurrentImageValid /\ l1.adds = EmptyMap
      /\ l1.deletes = {} /\ l1.currentImage = Cur /\ l1.mode = l.mode
      /\ getCurrentImage(l1) = Cur
  BY <1>0, SnapshotType, CurAfterSnapshot DEF Cur
<1>3. pc = "idle" /\ UNCHANGED <<fs, clock, image, volumes, inited>> /\ pc' = "scanned"
      /\ touched' = {} /\ l' = CheckFileChanges(l1, fs, W)
  BY DEF Scan, Walk
<1>4. snap'.toTar = b /\ snap'.changed = C /\ snap'.deleted = D
  BY DEF Scan, Walk, NoSnap
<1>. HIDE DEF l1
<1>5. \A p \in Path : p \in W <=> Exists(fs, p) /\ ~IgnoredBelow(p)
  BY DEF Walked, IgnoredBelow
<1>6. \A p \in Path : p \in D <=> Cur[p] # NoHash /\ p \notin W
  BY <1>2 DEF GetCurrentPaths
<1>7. \A p \in Path : p \in C <=> p \in W /\ Cur[p] # hasher(l.mode, fs[p])
  <2>1. W \subseteq Path
    BY DEF Walked
  <2>. QED
    BY <1>2, <2>1 DEF ChangedFiles
<1>8. C \subseteq Path /\ D \subseteq Path /\ C \subseteq W
  BY DEF ChangedFiles, GetCurrentPaths, Walked
<1>. HIDE DEF W, C, D
<1>9. /\ l'.hasLayer /\ l'.isCurrentImageValid /\ l'.adds = EmptyMap /\ l'.deletes = {}
      /\ l'.mode = l.mode /\ Cur' = Cur
      /\ \A p \in W : p \in Path => l'.layerHashCache[p] = hasher(l.mode, fs[p])
  <2>. DEFINE a == [p \in Path |-> IF p \in W THEN hasher(l1.mode, fs[p]) ELSE l1.layerHashCache[p]]
  <2>1. l' = [l1 EXCEPT !.layerHashCache = a]
    BY <1>3 DEF CheckFileChanges
  <2>2. \A p \in W : p \in Path => a[p] = hasher(l.mode, fs[p])
    BY <1>2
  <2>. HIDE DEF a
  <2>3. /\ l'.hasLayer /\ l'.isCurrentImageValid /\ l'.adds = EmptyMap /\ l'.deletes = {}
        /\ l'.mode = l.mode /\ l'.currentImage = Cur /\ l'.layerHashCache = a
    BY <1>2, <2>1 DEF LayeredMaps
  <2>4. Cur' = Cur
    BY <2>3 DEF Cur, getCurrentImage
  <2>. QED
    BY <2>2, <2>3, <2>4
<1>10. \A p \in Path : HashIn(fs, p)' = HashIn(fs, p) /\ HashIn(image, p)' = HashIn(image, p)
  BY <1>3, <1>9 DEF HashIn, Exists
<1>11. \A p \in Path : Visible(p)' <=> Visible(p)
  BY <1>3 DEF Visible
<1>12. \A p \in Path : Visible(p) => ~IgnoredBelow(p)
  BY VisibleNotIgnored
<1>13. ASSUME NEW p \in Path, Visible(p), Exists(fs, p), p \notin C PROVE image[p] = fs[p]
  <2>1. Cur[p] = HashIn(fs, p)
    BY <1>5, <1>7, <1>12, <1>13 DEF HashIn
  <2>. QED
    BY <1>3, <1>13, <2>1, MapVouches
<1>14. (\A p \in Path : ~EvalFails(fs, p))' /\ TouchedInv' /\ ClosureInv' /\ ClockInv' /\ StampInv'
  <2>1. (\A p \in Path : ~EvalFails(fs, p))'
    BY <1>3 DEF IInv, LinkInv, EvalFails, Exists
  <2>2. TouchedInv'
    BY <1>3 DEF TouchedInv
  <2>3. ClosureInv'
    BY <1>9 DEF IInv, ClosureInv
  <2>4. ClockInv' /\ StampInv'
    BY <1>3 DEF IInv, ClockInv, StampInv, Exists
  <2>. QED
    BY <2>1, <2>2, <2>3, <2>4
<1>15. FoundInv(snap.changed, snap.deleted)'
  <2>1. \A p \in C : Exists(fs, p)
    BY <1>5, <1>8
  <2>2. \A w \in D : ~Exists(fs, w) \/ IgnoredBelow(w)
    BY <1>5, <1>6, <1>8
  <2>3. ASSUME NEW w \in removeObsoleteWhiteouts(D) PROVE Exists(fs, Dir(w))
    <3>1. w # Root /\ w \in D /\ Dir(w) \notin D
      BY <1>8, <2>3, ObsoleteWhiteouts DEF removeObsoleteWhiteouts
    <3>2. Dir(w) \in Path /\ Dir(w) \in ParentDirectories(w) /\ w \in Path
      BY <1>8, <3>1, DirIsParent
    <3>3. Cur[Dir(w)] # NoHash
      BY <1>6, <3>1, <3>2 DEF IInv, ClosureInv
    <3>. QED
      BY <1>5, <1>6, <3>1, <3>2, <3>3
  <2>4. \A p \in Path \ C : Visible(p) /\ Exists(fs, p) =>
           image[p].kind = fs[p].kind /\ image[p] = fs[p]
    BY <1>13
  <2>. QED
    BY <1>3, <1>4, <1>11, <2>1, <2>2, <2>3, <2>4 DEF FoundInv, Exists, IgnoredBelow
<1>16. ASSUME NEW p \in Path, Cur[p] # NoHash
       PROVE  /\ ~Exists(fs, p) => p \in D
              /\ \A w \in ParentDirectories(p) : w \in D => p \in D
  <2>1. ~Exists(fs, p) => p \in D
    BY <1>5, <1>6, <1>16
  <2>2. ASSUME NEW w \in ParentDirectories(p), w \in D PROVE p \in D
    <3>1. w \in Path /\ w \notin W
      BY <1>6, <2>2, PathAssumption
    <3>2. ~Exists(fs, w) \/ IgnoredBelow(w)
      BY <1>5, <3>1
    <3>3. ~Exists(fs, p) \/ IgnoredBelow(p)
      BY <1>0, <3>2, <2>2, VisibleUp DEF IsTree, Exists
    <3>. QED
      BY <1>5, <1>6, <1>16, <3>3
  <2>. QED
    BY <2>1, <2>2
<1>17. ASSUME NEW p \in Path, Visible(p)
       PROVE  /\ Exists(fs, p) => l'.layerHashCache[p] = HashIn(fs, p)
              /\ \/ Cur[p] = HashIn(image, p)
                 \/ Outdated(Cur[p], p)
                 \/ ~b /\ p \in C
              /\ ~b => image[p] = fs[p]
  <2>1. Exists(fs, p) => l'.layerHashCache[p] = HashIn(fs, p)
    BY <1>5, <1>9, <1>12, <1>17 DEF HashIn
  <2>2. ~b => image[p] = fs[p]
    <3>1. p \notin volumes
      BY <1>17 DEF Visible, HasPrefix
    <3>. QED
      BY <1>3, <1>17, <3>1 DEF IInv, IdleInv
  <2>3. MapInv(p)
    BY <1>3, <1>17 DEF IInv, IdleInv
  <2>4. CASE ~inited /\ Cur[p] = NoHash
    <3>1. CASE Exists(fs, p)
      <4>1. Cur[p] # hasher(l.mode, fs[p])
        BY <1>0, <2>4, HashFacts DEF LayeredMaps
      <4>. QED
        BY <1>5, <1>7, <1>12, <1>17, <2>1, <2>2, <2>4, <3>1, <4>1
    <3>2. CASE ~Exists(fs, p)
      <4>1. HashIn(image, p) = NoHash
        BY <2>2, <2>4, <3>2 DEF HashIn, Exists
      <4>. QED
        BY <2>1, <2>2, <2>4, <4>1
    <3>. QED
      BY <3>1, <3>2
  <2>. QED
    BY <2>1, <2>2, <2>3, <2>4 DEF MapInv
<1>18. \A p \in Path : Outdated(Cur[p], p)' <=> Outdated(Cur[p], p)
  BY <1>3, <1>9 DEF Outdated, Exists
<1>19. (\A p \in Path : Visible(p) =>
          /\ Exists(fs, p) => \/ l.layerHashCache[p] = HashIn(fs, p)
                              \/ Outdated(l.layerHashCache[p], p)
          /\ \/ Cur[p] = HashIn(image, p)
             \/ Outdated(Cur[p], p)
             \/ ~snap.toTar /\ p \in snap.changed
          /\ ~snap.toTar => image[p] = fs[p])'
  <2>. SUFFICES ASSUME NEW p \in Path, Visible(p)'
       PROVE  (/\ Exists(fs, p) => l.layerHashCache[p] = HashIn(fs, p)
               /\ \/ Cur[p] = HashIn(image, p)
                  \/ Outdated(Cur[p], p)
                  \/ ~snap.toTar /\ p \in snap.changed
               /\ ~snap.toTar => image[p] = fs[p])'
    OBVIOUS
  <2>1. Visible(p)
    BY <1>11
  <2>2. Exists(fs, p)' <=> Exists(fs, p)
    BY <1>3 DEF Exists
  <2>. QED
    BY <1>3, <1>4, <1>9, <1>10, <1>17, <1>18, <2>1, <2>2
<1>20. ScannedInv'
  <2>1. (\A p \in snap.changed : ~IgnoredBelow(p))'
    BY <1>4, <1>5, <1>8 DEF IgnoredBelow
  <2>2. (\A p \in Path : Cur[p] # NoHash =>
          /\ ~Exists(fs, p) /\ p \notin touched => p \in snap.deleted
          /\ \A w \in ParentDirectories(p) : w \in snap.deleted => p \in snap.deleted)'
    BY <1>3, <1>4, <1>9, <1>16 DEF Exists
  <2>. QED
    BY <1>3, <1>4, <1>9, <1>15, <1>19, <2>1, <2>2 DEF ScannedInv
<1>. QED
  BY <1>1, <1>3, <1>14, <1>20 DEF IInv, LinkInv, FailsInv

(***************************************************************************)
(* Recording what the walk found brings the map up to date: with the disk  *)
(* for the files of the layer, but for what was written since the walk.    *)
(***************************************************************************)
LEMMA RecordInv ==
    ASSUME Precise, IInv, Record
    PROVE  IInv'
<1>. DEFINE C == snap.changed
            D == snap.deleted
<1>0. /\ TypeOK /\ IsTree(fs) /\ l \in LayeredMaps
      /\ fs \in [Path -> Node] /\ image \in [Path -> Node]
      /\ C \in SUBSET Path /\ D \in SUBSET Path
  BY DEF IInv, TInv, TypeOK, Snap
<1>1. TInv'
  BY RecordType DEF IInv
<1>2. PICK R \in ResolvePaths(fs, C) :
         /\ l' = AddDelete(Add(l, fs, {p \in R : ~CheckIgnoreList(p)}), D)
         /\ snap' = IF ~snap.toTar THEN NoSnap
                    ELSE [snap EXCEPT !.files = {p \in R : ~CheckIgnoreList(p)},
                              !.whiteouts = removeObsoleteWhiteouts(D)]
  BY DEF Record
<1>3. /\ pc = "scanned" /\ pc' = (IF snap.toTar THEN "recorded" ELSE "idle") /\ inited' = TRUE
      /\ UNCHANGED <<fs, clock, image, volumes, touched>>
  BY DEF Record
<1>4. ScannedInv /\ LinkInv
  BY <1>3 DEF IInv
<1>. DEFINE F == {p \in R : ~CheckIgnoreList(p)}
<1>5. /\ R \subseteq Path /\ \A q \in R : Exists(fs, q)
      /\ \A q \in R : ParentDirectories(q) \subseteq R
      /\ \A p \in C : Exists(fs, p) /\ p \notin Ignored => p \in R
  BY <1>0, <1>2, <1>4, ResolvePathsComplete
<1>6. /\ F \in SUBSET Path /\ \A q \in F : Exists(fs, q)
      /\ \A p \in C : Visible(p) /\ Exists(fs, p) => p \in F
  BY <1>0, <1>5, VisibleNotIgnored
<1>7. \A q \in F : ParentDirectories(q) \subseteq F
  BY <1>0, <1>5, VisibleUp
<1>8. \A q \in F : ~IgnoredBelow(q)
  BY DEF CheckIgnoreList, IgnoredBelow
<1>9. snap.toTar => snap'.files = F /\ snap'.deleted = D
                    /\ snap'.whiteouts = removeObsoleteWhiteouts(D)
  BY <1>0, <1>2 DEF TypeOK, Snap
<1>10. l' = AddDelete(Add(l, fs, F), D)
  BY <1>2
<1>. HIDE DEF F, C, D
<1>11. /\ l'.mode = l.mode
       /\ \A p \in Path : Cur'[p] = IF p \in D THEN NoHash
                                    ELSE IF p \notin F THEN Cur[p]
                                    ELSE IF l.layerHashCache[p] # NoHash THEN l.layerHashCache[p]
                                    ELSE hasher(l.mode, fs[p])
  BY <1>0, <1>4, <1>6, <1>10, CurAfterLayer DEF ScannedInv, Cur
<1>12. \A p \in Path : HashIn(fs, p)' = HashIn(fs, p) /\ HashIn(image, p)' = HashIn(image, p)
  BY <1>3, <1>11 DEF HashIn, Exists
<1>13. \A p \in Path : Visible(p)' <=> Visible(p)
  BY <1>3 DEF Visible
<1>14. \A p \in Path, h \in Hash : Outdated(h, p)' <=> Outdated(h, p)
  BY <1>3 DEF Outdated, Exists
<1>15. FoundInv(C, D)
  BY <1>4 DEF ScannedInv, C, D
<1>16. \A p \in F : p \notin D
  BY <1>6, <1>8, <1>15 DEF FoundInv
<1>17. Cur \in [Path -> Hash] /\ Cur' \in [Path -> Hash] /\ l.layerHashCache \in [Path -> Hash]
  BY <1>0, <1>1, CurrentImageType DEF Cur, LayeredMaps, TInv, TypeOK
<1>18. ASSUME NEW p \in Path, Visible(p), p \in F
       PROVE  Cur'[p] = HashIn(fs, p) \/ Outdated(Cur'[p], p)
  <2>1. Exists(fs, p) /\ p \notin D
    BY <1>6, <1>16, <1>18
  <2>2. l.layerHashCache[p] = HashIn(fs, p) \/ Outdated(l.layerHashCache[p], p)
    BY <1>4, <1>18, <2>1 DEF ScannedInv
  <2>3. HashIn(fs, p) # NoHash
    BY <1>0, <2>1, HashInFacts
  <2>4. l.layerHashCache[p] # NoHash
    BY <2>2, <2>3 DEF Outdated
  <2>. QED
    BY <1>11, <1>18, <2>1, <2>2, <2>4
<1>19. \A p \in Path : ~Exists(fs, p) /\ p \notin touched => Cur'[p] = NoHash
  BY <1>4, <1>6, <1>11 DEF ScannedInv, D
<1>20. ClosureInv'
  <2>1. ASSUME NEW p \in Path, Cur'[p] # NoHash, NEW q \in ParentDirectories(p)
        PROVE  Cur'[q] # NoHash
    <3>0. q \in Path /\ p \notin D
      BY <1>11, <2>1, PathAssumption
    <3>1. \A x \in F : Cur'[x] # NoHash
      <4>1. \A x \in F : hasher(l.mode, fs[x]) # NoHash
        BY <1>0, <1>6, HashFacts DEF LayeredMaps
      <4>. QED
        BY <1>6, <1>11, <1>16, <4>1
    <3>2. CASE p \in F
      BY <1>7, <2>1, <3>1, <3>2
    <3>3. CASE p \notin F
      <4>1. Cur[p] # NoHash
        BY <1>11, <2>1, <3>0, <3>3
      <4>2. Cur[q] # NoHash
        BY <2>1, <4>1 DEF IInv, ClosureInv
      <4>3. q \notin D
        BY <1>4, <2>1, <3>0, <4>1 DEF ScannedInv, D
      <4>. QED
        BY <1>11, <3>0, <3>1, <4>2, <4>3
    <3>. QED
      BY <3>2, <3>3
  <2>. QED
    BY <2>1 DEF ClosureInv
<1>21. ClockInv' /\ StampInv' /\ LinkInv' /\ TouchedInv'
  <2>1. ClockInv' /\ StampInv'
    BY <1>3 DEF IInv, ClockInv, StampInv, Exists
  <2>2. LinkInv'
    BY <1>3, <1>4 DEF LinkInv, EvalFails, Exists
  <2>3. TouchedInv'
    BY <1>3 DEF IInv, TouchedInv
  <2>. QED
    BY <2>1, <2>2, <2>3
<1>22. CASE snap.toTar
  <2>1. \A p \in Path \ F : Visible(p) /\ Exists(fs, p) =>
          image[p].kind = fs[p].kind /\ (p \notin touched => image[p] = fs[p])
    BY <1>6, <1>15 DEF FoundInv
  <2>2. FoundInv(snap.files, snap.deleted)'
    BY <1>3, <1>6, <1>9, <1>13, <1>15, <1>22, <2>1 DEF FoundInv, Exists, IgnoredBelow
  <2>3. ASSUME NEW p \in Path, Visible(p)
        PROVE  ~Exists(fs, p) /\ p \notin touched /\ Exists(image, p) => p \in D
    <3>. SUFFICES ASSUME ~Exists(fs, p), p \notin touched, Exists(image, p) PROVE p \in D
      OBVIOUS
    <3>1. Cur[p] # NoHash
      <4>1. HashIn(image, p) # NoHash
        BY <1>0, HashInFacts
      <4>. QED
        BY <1>4, <1>22, <2>3, <4>1 DEF ScannedInv, Outdated
    <3>. QED
      BY <1>4, <3>1 DEF ScannedInv, D
  <2>4. ASSUME NEW p \in Path, Visible(p), p \notin F, p \notin D
        PROVE  Cur'[p] = HashIn(image, p) \/ Outdated(Cur'[p], p)
    BY <1>4, <1>11, <1>22, <2>4 DEF ScannedInv
  <2>5. ASSUME NEW p \in Path, Visible(p)'
        PROVE  /\ MissingInv(p)'
               /\ (~Exists(fs, p) /\ p \notin touched /\ Exists(image, p) => p \in snap.deleted)'
               /\ (IF p \in snap.files THEN Cur[p] = HashIn(fs, p) \/ Outdated(Cur[p], p)
                   ELSE p \in snap.deleted \/ MapInv(p))'
    <3>1. Visible(p)
      BY <1>13, <2>5
    <3>2. MissingInv(p)'
      BY <1>3, <1>19 DEF MissingInv, Exists
    <3>3. (~Exists(fs, p) /\ p \notin touched /\ Exists(image, p) => p \in snap.deleted)'
      BY <1>3, <1>9, <1>22, <2>3, <3>1 DEF Exists
    <3>4. Outdated(Cur'[p], p) => Outdated(Cur[p], p)'
      BY <1>3 DEF Outdated, Exists
    <3>5. CASE p \in F
      BY <1>9, <1>12, <1>18, <1>22, <3>1, <3>2, <3>3, <3>4, <3>5
    <3>6. CASE p \notin F
      BY <1>9, <1>12, <1>22, <2>4, <3>1, <3>2, <3>3, <3>4, <3>6 DEF MapInv
    <3>. QED
      BY <3>5, <3>6
  <2>6. RecordedInv'
    BY <1>9, <1>22, <2>2, <2>5 DEF RecordedInv
  <2>. QED
    BY <1>1, <1>3, <1>20, <1>21, <1>22, <2>6 DEF IInv, FailsInv
<1>23. CASE ~snap.toTar
  <2>1. touched = {} /\ \A p \in Path : Visible(p) => image[p] = fs[p]
    BY <1>4, <1>23 DEF ScannedInv
  <2>2. ASSUME NEW p \in Path, Visible(p)
        PROVE  Cur'[p] = HashIn(image, p) \/ Outdated(Cur'[p], p)
    <3>0. HashIn(image, p) = HashIn(fs, p)
      BY <2>1, <2>2 DEF HashIn, Exists
    <3>1. CASE p \in F
      BY <1>18, <2>2, <3>0, <3>1
    <3>2. CASE p \in D
      <4>1. ~Exists(fs, p)
        BY <1>15, <2>2, <3>2, VisibleNotIgnored DEF FoundInv
      <4>. QED
        BY <1>11, <3>0, <3>2, <4>1 DEF HashIn
    <3>3. CASE p \notin F /\ p \notin D
      <4>1. p \notin C
        BY <1>6, <1>15, <2>1, <2>2, <3>3 DEF FoundInv
      <4>. QED
        BY <1>4, <1>11, <2>2, <3>3, <4>1 DEF ScannedInv, C
    <3>. QED
      BY <3>1, <3>2, <3>3
  <2>3. ASSUME NEW p \in Path, Visible(p)'
        PROVE  (p \notin touched => image[p] = fs[p])' /\ MapInv(p)' /\ MissingInv(p)'
    <3>1. Visible(p)
      BY <1>13, <2>3
    <3>2. Outdated(Cur'[p], p) => Outdated(Cur[p], p)'
      BY <1>3 DEF Outdated, Exists
    <3>3. MapInv(p)'
      BY <1>12, <2>2, <3>1, <3>2 DEF MapInv
    <3>4. MissingInv(p)'
      BY <1>3, <1>19 DEF MissingInv, Exists
    <3>. QED
      BY <1>3, <2>1, <3>1, <3>3, <3>4
  <2>4. IdleInv'
    BY <2>3 DEF IdleInv
  <2>. QED
    BY <1>1, <1>3, <1>20, <1>21, <1>23, <2>4 DEF IInv, FailsInv
<1>. QED
  BY <1>22, <1>23

(***************************************************************************)
(* With nothing to snapshot nothing was edited: what is missing has a      *)
(* topmost missing directory, and that one's parent would be listed.       *)
(***************************************************************************)
LEMMA NothingToSnapshot ==
    ASSUME IInv, pc = "idle", FilesToSnapshot = {}
    PROVE  touched = {}
<1>0. touched \subseteq Path /\ IsTree(fs) /\ TouchedInv
  BY DEF IInv, TInv, TypeOK
<1>. SUFFICES ASSUME NEW p \in touched PROVE FALSE
  OBVIOUS
<1>1. p \in Path /\ ~Exists(fs, p)
  BY <1>0 DEF FilesToSnapshot
<1>2. PICK w \in {q \in Path : ~Exists(fs, q)} :
         /\ HasPrefix(p, w)
         /\ \A r \in {q \in Path : ~Exists(fs, q)} : r \in ParentDirectories(w) => r = w
  <2>. DEFINE S == {q \in Path : ~Exists(fs, q)}
  <2>1. S \in SUBSET Path /\ p \in S /\ HasPrefix(p, p)
    BY <1>1 DEF HasPrefix
  <2>. HIDE DEF S
  <2>2. \E w \in S : HasPrefix(p, w) /\ \A r \in S : r \in ParentDirectories(w) => r = w
    BY <1>1, <2>1, TopmostPrefix
  <2>. QED
    BY <2>2 DEF S
<1>3. w \in touched
  BY <1>0, <1>1, <1>2 DEF HasPrefix, TouchedInv, Exists
<1>4. w # Root
  BY <1>0, <1>2 DEF IsTree, Exists
<1>5. Dir(w) \in Path /\ Dir(w) \in ParentDirectories(w) /\ Dir(w) # w
  <2>1. Dir(w) \in Path /\ Dir(w) \in ParentDirectories(w)
    BY <1>2, <1>4, DirIsParent
  <2>. QED
    BY <1>2, <1>4, <2>1, ParentsShorter
<1>6. Exists(fs, Dir(w))
  BY <1>2, <1>5
<1>7. Dir(w) \in FilesToSnapshot
  BY <1>2, <1>3, <1>6 DEF FilesToSnapshot, Removed
<1>. QED
  BY <1>7

(***************************************************************************)
(* A snapshot of listed files covers all that was edited, since the list   *)
(* does, and finds what was removed when asked to look for it.             *)
(***************************************************************************)
LEMMA TakeSnapshotInv ==
    ASSUME Precise, IInv, NEW b \in BOOLEAN, NEW force \in BOOLEAN, Removed # {} => inited /\ b,
           TakeSnapshot(FilesToSnapshot \cup volumes, b, force)
    PROVE  IInv'
<1>. DEFINE files == FilesToSnapshot \cup volumes
            l1 == Snapshot(l)
<1>0. /\ TypeOK /\ IsTree(fs) /\ IsTree(image) /\ l \in LayeredMaps
      /\ fs \in [Path -> Node] /\ image \in [Path -> Node] /\ touched \subseteq Path
  BY DEF IInv, TInv, TypeOK
<1>1. files \in SUBSET Path
  <2>1. Root \notin Removed /\ Removed \subseteq Path /\ volumes \subseteq Path
    BY <1>0 DEF Removed, TypeOK, IsTree, Exists
  <2>2. \A q \in Removed : Dir(q) \in Path
    BY <2>1, DirIsParent
  <2>. QED
    BY <1>0, <2>1, <2>2 DEF FilesToSnapshot
<1>2. TInv'
  BY <1>1, TakeSnapshotType DEF IInv
<1>3. /\ pc = "idle" /\ touched' = {} /\ UNCHANGED <<fs, clock, image, volumes, inited>>
  BY DEF TakeSnapshot
<1>4. /\ l1 \in LayeredMaps /\ l1.hasLayer /\ l1.isCurrentImageValid /\ l1.adds = EmptyMap
      /\ l1.deletes = {} /\ l1.currentImage = Cur /\ l1.mode = l.mode
      /\ l1.layerHashCache = EmptyMap /\ getCurrentImage(l1) = Cur
  BY <1>0, SnapshotType, CurAfterSnapshot DEF Cur
<1>5. LinkInv' /\ TouchedInv' /\ ClockInv' /\ StampInv'
  <2>1. LinkInv'
    BY <1>3 DEF IInv, LinkInv, EvalFails, Exists
  <2>2. TouchedInv'
    BY <1>3 DEF TouchedInv
  <2>3. ClockInv' /\ StampInv'
    BY <1>3 DEF IInv, ClockInv, StampInv, Exists
  <2>. QED
    BY <2>1, <2>2, <2>3
<1>6. \A p \in Path : Visible(p)' <=> Visible(p)
  BY <1>3 DEF Visible
<1>7. \A p \in Path : Visible(p) => /\ p \notin touched => image[p] = fs[p]
                                    /\ MapInv(p) /\ MissingInv(p)
  BY <1>3 DEF IInv, IdleInv
<1>8. CASE files = {} /\ ~force
  <2>1. l' = l1 /\ UNCHANGED <<snap, pc>>
    BY <1>8 DEF TakeSnapshot
  <2>2. touched = {}
    BY <1>3, <1>8, NothingToSnapshot
  <2>3. Cur' = Cur /\ l'.mode = l.mode
    BY <1>4, <2>1 DEF Cur
  <2>4. \A p \in Path : HashIn(image, p)' = HashIn(image, p)
    BY <1>3, <2>3 DEF HashIn, Exists
  <2>5. ClosureInv'
    BY <2>3 DEF IInv, ClosureInv
  <2>6. IdleInv'
    <3>1. \A p \in Path : Visible(p) => (MapInv(p) /\ MissingInv(p))'
      BY <1>3, <1>7, <2>2, <2>3, <2>4 DEF MapInv, MissingInv, Outdated, Exists
    <3>. QED
      BY <1>3, <1>6, <1>7, <2>2, <3>1 DEF IdleInv
  <2>. QED
    BY <1>2, <1>3, <1>5, <2>1, <2>5, <2>6 DEF IInv, FailsInv
<1>9. CASE ~(files = {} /\ ~force)
  <2>1. PICK F \in ResolvePaths(fs, files) :
          LET l2 == Add(Snapshot(l), fs, F)
              deleted == IF b THEN GetCurrentPaths(l2) \ Walked(fs) ELSE {}
          IN /\ l' = AddDelete(l2, deleted)
             /\ snap' = [NoSnap EXCEPT !.toTar = TRUE, !.files = F,
                    !.deleted = deleted,
                    !.whiteouts = removeObsoleteWhiteouts(deleted)]
             /\ pc' = "recorded"
    BY <1>9 DEF TakeSnapshot
  <2>. DEFINE l2 == Add(l1, fs, F)
              W == Walked(fs)
              D == IF b THEN GetCurrentPaths(l2) \ W ELSE {}
  <2>2. /\ l' = AddDelete(l2, D) /\ pc' = "recorded" /\ snap'.files = F /\ snap'.deleted = D
        /\ snap'.whiteouts = removeObsoleteWhiteouts(D)
    BY <2>1 DEF NoSnap
  <2>3. /\ F \subseteq Path /\ \A q \in F : Exists(fs, q)
        /\ \A q \in F : ParentDirectories(q) \subseteq F
        /\ \A p \in files : Exists(fs, p) /\ p \notin Ignored => p \in F
    BY <1>0, <1>1, <2>1, ResolvePathsComplete DEF IInv
  <2>4. \A p \in touched : Visible(p) /\ Exists(fs, p) => p \in F
    BY <1>0, <2>3, VisibleNotIgnored DEF FilesToSnapshot
  <2>. HIDE DEF l1
  <2>5. \A p \in Path : getCurrentImage(l2)[p] = IF p \in F THEN hasher(l.mode, fs[p]) ELSE Cur[p]
    <3>1. l2 = AddDelete(l2, {})
      <4>1. l2 \in LayeredMaps
        BY <1>0, <1>4, AddType
      <4>. HIDE DEF l2
      <4>. QED
        BY <4>1 DEF AddDelete, LayeredMaps
    <3>2. \A p \in Path : getCurrentImage(l2)[p] =
                IF p \in {} THEN NoHash
                ELSE IF p \notin F THEN l1.currentImage[p]
                ELSE IF l1.layerHashCache[p] # NoHash THEN l1.layerHashCache[p]
                ELSE hasher(l1.mode, fs[p])
      BY <1>0, <1>4, <2>3, <3>1, CurAfterLayer
    <3>. QED
      BY <1>4, <3>2 DEF EmptyMap
  <2>6. \A p \in F : hasher(l.mode, fs[p]) # NoHash
    BY <1>0, <2>3, HashFacts DEF LayeredMaps
  <2>7. \A p \in Path : p \in W <=> Exists(fs, p) /\ ~IgnoredBelow(p)
    BY DEF Walked, IgnoredBelow
  <2>8. D \subseteq Path
        /\ \A p \in Path : p \in D <=> b /\ (p \in F \/ Cur[p] # NoHash) /\ p \notin W
    BY <2>5, <2>6 DEF GetCurrentPaths
  <2>. HIDE DEF W, D
  <2>9. /\ l'.mode = l.mode
        /\ \A p \in Path : Cur'[p] = IF p \in D THEN NoHash
                                     ELSE IF p \notin F THEN Cur[p] ELSE hasher(l.mode, fs[p])
    <3>1. l'.mode = l1.mode /\ \A p \in Path : getCurrentImage(l')[p] =
                IF p \in D THEN NoHash
                ELSE IF p \notin F THEN l1.currentImage[p]
                ELSE IF l1.layerHashCache[p] # NoHash THEN l1.layerHashCache[p]
                ELSE hasher(l1.mode, fs[p])
      BY <1>0, <1>4, <2>2, <2>3, <2>8, CurAfterLayer
    <3>. QED
      BY <1>4, <3>1 DEF EmptyMap, Cur
  <2>10. \A p \in Path : HashIn(fs, p)' = HashIn(fs, p) /\ HashIn(image, p)' = HashIn(image, p)
    BY <1>3, <2>9 DEF HashIn, Exists
  <2>11. ASSUME NEW p \in Path, p \in F \/ Cur[p] # NoHash, NEW q \in ParentDirectories(p)
         PROVE  /\ q \in Path /\ (q \in F \/ Cur[q] # NoHash)
                /\ q \in D => p \in D
    <3>1. q \in Path /\ (q \in F \/ Cur[q] # NoHash)
      BY <2>3, <2>11, PathAssumption DEF IInv, ClosureInv
    <3>2. p \in W => q \in W
      BY <1>0, <2>7, <2>11, <3>1, VisibleUp DEF IsTree, Exists
    <3>. QED
      BY <2>8, <2>11, <3>1, <3>2
  <2>12. ClosureInv'
    <3>1. ASSUME NEW p \in Path, Cur'[p] # NoHash, NEW q \in ParentDirectories(p)
          PROVE  Cur'[q] # NoHash
      <4>1. p \notin D /\ (p \in F \/ Cur[p] # NoHash)
        BY <2>9, <3>1
      <4>2. q \in Path /\ (q \in F \/ Cur[q] # NoHash) /\ q \notin D
        BY <2>11, <3>1, <4>1
      <4>. QED
        BY <2>6, <2>9, <4>2
    <3>. QED
      BY <3>1 DEF ClosureInv
  <2>13. FoundInv(snap.files, snap.deleted)'
    <3>1. \A w \in D : ~Exists(fs, w) \/ IgnoredBelow(w)
      BY <2>7, <2>8
    <3>2. ASSUME NEW w \in removeObsoleteWhiteouts(D) PROVE Exists(fs, Dir(w))
      <4>1. w # Root /\ w \in D /\ Dir(w) \notin D
        BY <2>8, <3>2, ObsoleteWhiteouts DEF removeObsoleteWhiteouts
      <4>2. Dir(w) \in Path /\ Dir(w) \in ParentDirectories(w) /\ w \in Path
        BY <2>8, <4>1, DirIsParent
      <4>3. b /\ (Dir(w) \in F \/ Cur[Dir(w)] # NoHash)
        BY <2>8, <2>11, <4>1, <4>2
      <4>. QED
        BY <2>7, <2>8, <4>1, <4>2, <4>3
    <3>3. \A p \in Path \ F : Visible(p) /\ Exists(fs, p) => image[p] = fs[p]
      BY <1>7, <2>4
    <3>. QED
      BY <1>3, <1>6, <2>2, <2>3, <3>1, <3>2, <3>3 DEF FoundInv, Exists, IgnoredBelow
  <2>14. ASSUME NEW p \in Path, Visible(p), ~Exists(fs, p)
         PROVE  Cur'[p] = NoHash /\ (Exists(image, p) => p \in D)
    <3>1. p \notin F /\ p \notin W
      BY <2>3, <2>7, <2>14
    <3>2. CASE b /\ Cur[p] # NoHash
      BY <2>8, <2>9, <3>1, <3>2
    <3>3. CASE b /\ Cur[p] = NoHash
      <4>1. CASE inited
        <5>1. HashIn(image, p) = NoHash
          BY <1>7, <2>14, <3>3, <4>1 DEF MapInv, Outdated
        <5>2. ~Exists(image, p)
          BY <1>0, <5>1, HashInFacts
        <5>. QED
          BY <2>9, <3>1, <3>3, <5>2
      <4>2. CASE ~inited
        <5>1. p \notin touched
          BY <2>14, <4>2 DEF Removed
        <5>2. ~Exists(image, p)
          BY <1>7, <2>14, <5>1 DEF Exists
        <5>. QED
          BY <2>9, <3>1, <3>3, <5>2
      <4>. QED
        BY <4>1, <4>2
    <3>4. CASE ~b
      <4>1. p \notin touched
        BY <2>14, <3>4 DEF Removed
      <4>2. ~Exists(image, p) /\ Cur[p] = NoHash
        BY <1>7, <2>14, <4>1 DEF Exists, MissingInv
      <4>. QED
        BY <2>9, <3>1, <4>2
    <3>. QED
      BY <3>2, <3>3, <3>4
  <2>15. ASSUME NEW p \in Path, Visible(p)'
         PROVE  /\ MissingInv(p)'
                /\ (~Exists(fs, p) /\ p \notin touched /\ Exists(image, p) => p \in snap.deleted)'
                /\ (IF p \in snap.files THEN Cur[p] = HashIn(fs, p) \/ Outdated(Cur[p], p)
                    ELSE p \in snap.deleted \/ MapInv(p))'
    <3>1. Visible(p)
      BY <1>6, <2>15
    <3>2. MissingInv(p)'
      BY <1>3, <2>14, <3>1 DEF MissingInv, Exists
    <3>3. (~Exists(fs, p) /\ p \notin touched /\ Exists(image, p) => p \in snap.deleted)'
      BY <1>3, <2>2, <2>14, <3>1 DEF Exists
    <3>4. CASE p \in F
      <4>1. p \notin D
        BY <2>3, <2>7, <2>8, <3>1, <3>4, VisibleNotIgnored
      <4>2. Cur'[p] = HashIn(fs, p)
        BY <2>3, <2>9, <3>4, <4>1 DEF HashIn
      <4>. QED
        BY <2>2, <2>10, <3>2, <3>3, <3>4, <4>2
    <3>5. CASE p \notin F
      <4>1. p \notin D => MapInv(p)'
        BY <1>3, <1>7, <2>9, <2>10, <3>1, <3>5 DEF MapInv, Outdated, Exists
      <4>. QED
        BY <2>2, <3>2, <3>3, <3>5, <4>1
    <3>. QED
      BY <3>4, <3>5
  <2>16. RecordedInv'
    BY <2>2, <2>13, <2>15 DEF RecordedInv
  <2>. QED
    BY <1>2, <1>5, <2>2, <2>12, <2>16 DEF IInv, FailsInv
<1>. QED
  BY <1>8, <1>9

(***************************************************************************)
(* Unless a file was removed during the snapshot, all that goes into the   *)
(* tarball is there: the parents of a whiteout that was not pruned exist.  *)
(***************************************************************************)
LEMMA NothingMissing ==
    ASSUME IInv, pc = "recorded", Removed = {}
    PROVE  /\ \A p \in snap.whiteouts : ~parentPathMissing(p)
           /\ \A p \in TarLayer.adds : ~AddFileToTarFails(p)
<1>0. /\ TypeOK /\ IsTree(fs) /\ touched \subseteq Path
      /\ snap.files \in SUBSET Path /\ snap.deleted \in SUBSET Path
  BY DEF IInv, TInv, TypeOK, Snap
<1>1. snap.whiteouts = removeObsoleteWhiteouts(snap.deleted) /\ FoundInv(snap.files, snap.deleted)
  BY DEF IInv, RecordedInv
<1>2. \A p \in snap.files : Exists(fs, p)
  BY <1>1 DEF FoundInv, Removed
<1>3. \A w \in snap.whiteouts : w \in Path /\ w # Root /\ Exists(fs, Dir(w))
  BY <1>0, <1>1, ObsoleteWhiteouts DEF FoundInv, Removed
<1>4. \A w \in snap.whiteouts : \A q \in ParentDirectories(w) : Exists(fs, q)
  BY <1>0, <1>3, ParentsOfDir, DirIsParent DEF IsTree, Exists
<1>5. \A p \in snap.files : \A q \in ParentDirectories(p) : Exists(fs, q)
  BY <1>0, <1>2 DEF IsTree, Exists
<1>. QED
  BY <1>2, <1>4, <1>5 DEF parentPathMissing, AddFileToTarFails, TarLayer, writeToTar

(***************************************************************************)
(* The tarball brings the image up to date with the disk, but for what was *)
(* edited since the scan.                                                  *)
(***************************************************************************)
LEMMA WriteTarInv ==
    ASSUME Precise, IInv, WriteTar
    PROVE  IInv'
<1>. DEFINE F == snap.files
            D == snap.deleted
            A == TarLayer.adds
            K == TarLayer.whiteouts
<1>0. /\ TypeOK /\ IsTree(fs) /\ IsTree(image) /\ l \in LayeredMaps
      /\ fs \in [Path -> Node] /\ image \in [Path -> Node] /\ touched \subseteq Path
      /\ F \in SUBSET Path /\ D \in SUBSET Path
  BY DEF IInv, TInv, TypeOK, Snap
<1>1. TInv'
  BY WriteTarType DEF IInv
<1>2. pc = "recorded" /\ UNCHANGED <<fs, clock, l, volumes, inited, touched>>
  BY DEF WriteTar
<1>3. LinkInv' /\ ClosureInv' /\ Cur' = Cur
  <2>1. Cur' = Cur
    BY <1>2 DEF Cur
  <2>2. LinkInv'
    BY <1>2 DEF IInv, LinkInv, EvalFails, Exists
  <2>. QED
    BY <2>1, <2>2 DEF IInv, ClosureInv
<1>4. RecordedInv /\ FoundInv(F, D) /\ TouchedInv
  BY <1>2 DEF IInv, RecordedInv
<1>5. CASE pc' = "failed" /\ UNCHANGED <<image, snap>>
           /\ (\/ \E p \in snap.whiteouts : parentPathMissing(p)
               \/ \E p \in A : AddFileToTarFails(p))
  <2>1. Removed # {}
    BY <1>2, <1>5, NothingMissing
  <2>2. Removed' # {}
    BY <1>2, <2>1 DEF Removed, Exists
  <2>3. ClockInv' /\ StampInv'
    BY <1>2, <1>5 DEF IInv, ClockInv, StampInv, Exists
  <2>4. TouchedInv'
    BY <1>2, <1>4, <1>5 DEF TouchedInv
  <2>. QED
    BY <1>1, <1>3, <1>5, <2>2, <2>3, <2>4 DEF IInv, FailsInv
<1>6. CASE /\ pc' = "idle" /\ image' = ApplyLayer(image, TarLayer) /\ snap' = NoSnap
           /\ \A p \in snap.whiteouts : ~parentPathMissing(p)
           /\ \A p \in A : ~AddFileToTarFails(p)
  <2>1. /\ TarLayer.nodes = fs /\ A \subseteq Path
        /\ K = {w \in snap.whiteouts : ~parentPathIncludesNonDirectory(fs, w)}
        /\ A = F \cup UNION {ParentDirectories(p) : p \in F \cup K}
    BY TarLayerFacts DEF IInv, TarLayer, writeToTar
  <2>2. \A p \in A : Exists(fs, p)
    BY <1>6 DEF AddFileToTarFails
  <2>. DEFINE over(p) == (\E w \in K : HasPrefix(p, w))
                         \/ (\E q \in A : Below(p, q) /\ fs[q].kind # "dir")
  <2>3. \A p \in Path : image'[p] = IF p \in A THEN fs[p] ELSE IF over(p) THEN Absent ELSE image[p]
    <3>1. image' = [p \in Path |->
             IF p \in A THEN fs[p]
             ELSE IF \/ \E w \in K : HasPrefix(p, w)
                     \/ \E q \in A : Below(p, q) /\ fs[q].kind # "dir"
             THEN Absent ELSE image[p]]
      BY <1>6, <2>1 DEF ApplyLayer
    <3>. QED
      BY <3>1
  <2>4. K \subseteq D /\ K \subseteq Path
        /\ snap.whiteouts = removeObsoleteWhiteouts(D)
    BY <1>0, <1>4, <2>1, ObsoleteWhiteouts DEF RecordedInv
  <2>. HIDE DEF A, K, F, D
  <2>5. \A p \in A \ F : fs[p].kind = "dir"
    <3>1. ASSUME NEW p \in A, p \notin F PROVE fs[p].kind = "dir"
      <4>1. PICK x \in F \cup K : p \in ParentDirectories(x)
        BY <2>1, <3>1
      <4>2. x \in Path /\ p \in Path
        BY <1>0, <2>4, <4>1, PathAssumption
      <4>3. CASE x \in F
        <5>1. Exists(fs, x)
          BY <2>1, <2>2, <4>3
        <5>. QED
          BY <1>0, <4>1, <4>2, <5>1 DEF IsTree
      <4>4. CASE x \in K
        <5>1. ~parentPathIncludesNonDirectory(fs, x) /\ Exists(fs, p) /\ fs[p] \in Node
          BY <1>0, <2>1, <2>2, <3>1, <4>2, <4>4
        <5>2. \A r \in ParentDirectories(x) : Below(p, r) => fs[r].kind = "dir"
          BY <1>0, <4>2, <5>1 DEF IsTree, Below
        <5>3. fs[p].kind \notin {"file", "link"}
          BY <4>1, <5>1, <5>2 DEF parentPathIncludesNonDirectory
        <5>. QED
          BY <5>1, <5>3 DEF Exists, Node, Kind
      <4>. QED
        BY <4>1, <4>3, <4>4
    <3>. QED
      BY <3>1
  <2>6. ASSUME NEW p \in Path, Visible(p), over(p)
        PROVE  ~Exists(fs, p) /\ p \notin touched
    <3>1. ASSUME NEW w \in K, HasPrefix(p, w) PROVE ~Exists(fs, p) /\ p \notin touched
      <4>1. w \in D /\ w \in Path /\ Visible(w)
        BY <2>4, <2>6, <3>1, VisibleUp DEF HasPrefix
      <4>2. ~Exists(fs, w) /\ w \notin touched
        BY <1>4, <4>1, VisibleNotIgnored DEF FoundInv
      <4>. QED
        BY <1>0, <1>2, <1>4, <3>1, <4>2 DEF HasPrefix, IsTree, Exists, TouchedInv
    <3>2. ASSUME NEW q \in A, Below(p, q), fs[q].kind # "dir" PROVE ~Exists(fs, p) /\ p \notin touched
      BY <1>0, <1>2, <1>4, <3>2 DEF Below, IsTree, TouchedInv
    <3>. QED
      BY <2>6, <3>1, <3>2
  <2>7. ASSUME NEW p \in Path, Visible(p), p \in D, Exists(image, p)
        PROVE  over(p)
    <3>1. PICK w \in D : HasPrefix(p, w) /\ \A r \in D : r \in ParentDirectories(w) => r = w
      BY <1>0, <2>7, TopmostPrefix DEF HasPrefix
    <3>2. w \in Path /\ Visible(w)
      BY <1>0, <2>7, <3>1, VisibleUp DEF HasPrefix
    <3>3. ~Exists(fs, w)
      BY <1>4, <3>1, <3>2, VisibleNotIgnored DEF FoundInv
    <3>4. w # Root
      BY <1>0, <3>3 DEF IsTree, Exists
    <3>5. Dir(w) \notin D
      <4>1. Dir(w) \in ParentDirectories(w) /\ Dir(w) # w
        BY <3>2, <3>4, DirIsParent, ParentsShorter
      <4>. QED
        BY <3>1, <4>1
    <3>6. w \in snap.whiteouts
      BY <2>4, <3>1, <3>5 DEF removeObsoleteWhiteouts
    <3>7. CASE w \in K
      BY <3>1, <3>7
    <3>8. CASE w \notin K
      <4>1. PICK q \in ParentDirectories(w) : fs[q].kind \in {"file", "link"}
        BY <2>1, <3>6, <3>8 DEF parentPathIncludesNonDirectory
      <4>2. q \in Path /\ Visible(q) /\ q \in ParentDirectories(p)
        <5>1. q \in Path /\ Visible(q)
          BY <3>2, <4>1, VisibleUp
        <5>. QED
          BY <3>1, <4>1, <5>1, ParentsTransitive DEF HasPrefix
      <4>3. image[q].kind = "dir"
        BY <1>0, <2>7, <4>2 DEF IsTree
      <4>4. q \in F
        BY <1>4, <4>1, <4>2, <4>3 DEF FoundInv, Exists
      <4>5. q # p
        <5>1. ~Exists(fs, p)
          BY <1>4, <2>7, VisibleNotIgnored DEF FoundInv
        <5>. QED
          BY <4>1, <5>1 DEF Exists
      <4>. QED
        BY <2>1, <4>1, <4>2, <4>4, <4>5 DEF Below
    <3>. QED
      BY <3>7, <3>8
  <2>. HIDE DEF over
  <2>8. \A p \in Path : Absent.kind = "none" /\ (~Exists(fs, p) => fs[p] = Absent)
                        /\ (~Exists(image, p) => image[p] = Absent)
    BY <1>0, AbsentNode DEF IsTree, Exists
  <2>9. ASSUME NEW p \in Path, Visible(p), p \notin touched PROVE image'[p] = fs[p]
    <3>1. CASE Exists(fs, p)
      <4>1. ~over(p)
        BY <2>6, <2>9, <3>1
      <4>2. p \notin F => image[p] = fs[p]
        BY <1>4, <2>9, <3>1 DEF FoundInv
      <4>. QED
        BY <2>1, <2>3, <4>1, <4>2
    <3>2. CASE ~Exists(fs, p)
      <4>1. p \notin A
        BY <2>2, <3>2
      <4>2. CASE Exists(image, p)
        <5>1. p \in D
          BY <1>4, <2>9, <3>2, <4>2 DEF RecordedInv, D
        <5>. QED
          BY <2>3, <2>7, <2>8, <2>9, <3>2, <4>1, <4>2, <5>1
      <4>3. CASE ~Exists(image, p)
        BY <2>3, <2>8, <3>2, <4>1, <4>3
      <4>. QED
        BY <4>2, <4>3
    <3>. QED
      BY <3>1, <3>2
  <2>10. \A d : \A p \in Path : d[p] = Absent => HashIn(d, p) = NoHash
    BY AbsentNode DEF HashIn, Exists
  <2>11. ASSUME NEW p \in Path, Visible(p) PROVE MapInv(p)'
    <3>. DEFINE h == IF image'[p].kind # "none" THEN hasher(l.mode, image'[p]) ELSE NoHash
    <3>0. HashIn(image, p)' = h
      BY <1>2 DEF HashIn, Exists
    <3>1. (Outdated(Cur[p], p) => Outdated(Cur[p], p)') /\ Cur'[p] = Cur[p]
      BY <1>2, <1>3 DEF Outdated, Exists
    <3>2. \A d \in {fs, image} : image'[p] = d[p] => HashIn(image, p)' = HashIn(d, p)
      BY <3>0 DEF HashIn, Exists
    <3>3. image'[p] = Absent => HashIn(image, p)' = NoHash
      BY <2>8, <3>0
    <3>. HIDE DEF h
    <3>4. CASE p \in F
      <4>1. image'[p] = fs[p]
        BY <2>1, <2>3, <3>4
      <4>2. Cur[p] = HashIn(fs, p) \/ Outdated(Cur[p], p)
        BY <1>4, <2>11, <3>4 DEF RecordedInv, F
      <4>. QED
        BY <3>1, <3>2, <4>1, <4>2 DEF MapInv
    <3>5. CASE p \notin F /\ p \in A
      <4>1. fs[p].kind = "dir" /\ Exists(fs, p)
        BY <2>5, <3>5 DEF Exists
      <4>2. p \notin touched
        BY <1>2, <1>4, <4>1 DEF TouchedInv
      <4>3. image[p] = fs[p]
        BY <1>4, <2>11, <3>5, <4>1, <4>2 DEF FoundInv
      <4>4. p \notin D
        BY <1>4, <2>11, <4>1, VisibleNotIgnored DEF FoundInv
      <4>5. MapInv(p)
        BY <1>4, <2>11, <3>5, <4>4 DEF RecordedInv, F, D
      <4>6. HashIn(image, p)' = HashIn(image, p)
        BY <2>3, <3>2, <3>5, <4>3
      <4>. QED
        BY <1>2, <3>1, <4>5, <4>6 DEF MapInv
    <3>6. CASE p \notin A /\ over(p)
      <4>1. Cur[p] = NoHash
        BY <1>4, <2>6, <2>11, <3>6 DEF RecordedInv, MissingInv
      <4>. QED
        BY <2>3, <3>1, <3>3, <3>6, <4>1 DEF MapInv
    <3>7. CASE p \notin A /\ ~over(p) /\ p \in D
      <4>1. ~Exists(image, p) /\ image'[p] = Absent
        BY <2>3, <2>7, <2>8, <2>11, <3>7
      <4>2. Cur[p] = NoHash
        <5>1. ~Exists(fs, p) /\ p \notin touched
          BY <1>4, <2>11, <3>7, VisibleNotIgnored DEF FoundInv
        <5>. QED
          BY <1>4, <2>11, <5>1 DEF RecordedInv, MissingInv
      <4>. QED
        BY <3>1, <3>3, <4>1, <4>2 DEF MapInv
    <3>8. CASE p \notin A /\ ~over(p) /\ p \notin D
      <4>1. MapInv(p) /\ image'[p] = image[p]
        BY <1>4, <2>1, <2>3, <2>11, <3>8 DEF RecordedInv, F, D
      <4>2. HashIn(image, p)' = HashIn(image, p)
        BY <3>2, <4>1
      <4>. QED
        BY <1>2, <3>1, <4>1, <4>2 DEF MapInv
    <3>. QED
      BY <2>1, <3>4, <3>5, <3>6, <3>7, <3>8
  <2>12. IdleInv'
    <3>1. ASSUME NEW p \in Path, Visible(p)'
          PROVE  (p \notin touched => image[p] = fs[p])' /\ MapInv(p)' /\ MissingInv(p)'
      <4>1. Visible(p)
        BY <1>2, <3>1 DEF Visible
      <4>2. MissingInv(p)'
        BY <1>2, <1>3, <1>4, <4>1 DEF RecordedInv, MissingInv, Exists
      <4>. QED
        BY <1>2, <2>9, <2>11, <4>1, <4>2
    <3>. QED
      BY <3>1 DEF IdleInv
  <2>13. TouchedInv'
    BY <1>2, <1>4, <1>6 DEF TouchedInv
  <2>14. \A p \in Path : image'[p] = fs[p] \/ image'[p] = image[p] \/ image'[p] = Absent
    BY <2>3
  <2>15. ClockInv'
    <3>1. Absent.mtime = 0 /\ 0 <= clock
      BY <1>0, SMT DEF TypeOK, Absent
    <3>2. \A p \in Path : fs[p].mtime <= clock /\ image[p].mtime <= clock
      BY DEF IInv, ClockInv
    <3>. QED
      BY <1>2, <2>14, <3>1, <3>2 DEF ClockInv
  <2>16. StampInv'
    BY <1>2, <2>8, <2>14 DEF IInv, StampInv, Exists
  <2>. QED
    BY <1>1, <1>3, <1>6, <2>12, <2>13, <2>15, <2>16 DEF IInv, FailsInv
<1>. QED
  BY <1>5, <1>6 DEF WriteTar

(***************************************************************************)
(* The invariant holds in every state of every behaviour.                  *)
(***************************************************************************)
LEMMA IInvHolds ==
    ASSUME Precise
    PROVE  Spec => []Inv
<1>1. Init => Inv
  <2>. SUFFICES ASSUME Init PROVE Inv
    OBVIOUS
  <2>1. /\ fs \in [Path -> Node] /\ IsTree(fs) /\ image = fs /\ touched = {} /\ pc = "idle"
        /\ clock = 0 /\ \A p \in Path : fs[p].mtime = 0
    BY SnapshotterAssumption DEF Init
  <2>2. l \in LayeredMaps /\ Cur = EmptyMap
    BY EmptyMapType DEF Init, NewLayeredMap, LayeredMaps, Cur, getCurrentImage
  <2>3. TInv
    <3>1. 0 \in 0 .. MaxTime
      BY PathAssumption, SMT
    <3>. QED
      BY <2>1, <2>2, <3>1, NoSnapType DEF Init, TInv, TypeOK
  <2>4. ClockInv /\ StampInv
    BY <2>1, SMT DEF ClockInv, StampInv
  <2>5. LinkInv
    BY BaseLinksAssumption DEF Init, LinkInv, Precise
  <2>6. TouchedInv /\ ClosureInv
    BY <2>1, <2>2 DEF TouchedInv, ClosureInv, EmptyMap
  <2>7. IdleInv
    BY <2>1, <2>2 DEF IdleInv, MapInv, MissingInv, EmptyMap, Init
  <2>. QED
    BY <2>1, <2>3, <2>4, <2>5, <2>6, <2>7 DEF Inv, IInv, FailsInv
<1>2. Inv /\ [Next]_vars => Inv'
  <2>. SUFFICES ASSUME Inv, [Next]_vars, broke' = "no" PROVE IInv'
    BY TypeStep DEF Inv
  <2>0. broke = "no" /\ IInv
    <3>1. Command => UNCHANGED broke
      BY DEF Command, WriteFile, Mkdir, Symlink, Chmod, Remove, Volume, Edit
    <3>2. Interference => UNCHANGED broke \/ broke' = "last"
      BY DEF Interference, DaemonWrite, DaemonRemove, Edit, WalkBreaksOff
    <3>3. InitSnapshot \/ CommandSnapshot => broke = "no" \/ broke' = "before" \/ UNCHANGED broke
      BY DEF InitSnapshot, CommandSnapshot, TakeSnapshotFS, Scan, TakeSnapshot
    <3>4. Record \/ WriteTar => UNCHANGED broke
      BY DEF Record, WriteTar
    <3>. QED
      BY <3>1, <3>2, <3>3, <3>4 DEF Next, vars, Inv
  <2>1. CASE Command
    BY <2>0, <2>1, CommandInv
  <2>2. CASE Interference
    BY <2>0, <2>2, InterferenceInv
  <2>3. CASE InitSnapshot
    BY <2>0, <2>3, ScanInv DEF InitSnapshot
  <2>4. CASE CommandSnapshot
    BY <2>0, <2>4, ScanInv, TakeSnapshotInv DEF CommandSnapshot, TakeSnapshotFS
  <2>5. CASE Record
    BY <2>0, <2>5, RecordInv
  <2>6. CASE WriteTar
    BY <2>0, <2>6, WriteTarInv
  <2>7. CASE UNCHANGED vars
    <3>1. TInv' /\ ClockInv' /\ StampInv' /\ LinkInv' /\ TouchedInv' /\ ClosureInv'
      BY <2>0, <2>7 DEF vars, IInv, TInv, TypeOK, IsTree, Exists, ClockInv, StampInv, LinkInv, EvalFails,
                  TouchedInv, ClosureInv, Cur
    <3>2. (pc = "idle" => IdleInv)'
      BY <2>0, <2>7 DEF vars, IInv, IdleInv, Visible, MapInv, MissingInv, Exists, Cur, HashIn, Outdated
    <3>3. (pc = "scanned" => ScannedInv)'
      BY <2>0, <2>7 DEF vars, IInv, ScannedInv, FoundInv, Visible, Exists, Cur, HashIn, Outdated,
                  IgnoredBelow
    <3>4. (pc = "recorded" => RecordedInv)'
      BY <2>0, <2>7 DEF vars, IInv, RecordedInv, FoundInv, Visible, Exists, Cur, HashIn, Outdated,
                  IgnoredBelow, MapInv, MissingInv
    <3>. QED
      BY <2>0, <2>7, <3>1, <3>2, <3>3, <3>4 DEF vars, IInv, FailsInv, Removed, Exists
  <2>. QED
    BY <2>1, <2>2, <2>3, <2>4, <2>5, <2>6, <2>7 DEF Next
<1>. QED
  BY <1>1, <1>2, PTL DEF Spec

(***************************************************************************)
(* Base image plus layers reproduce the file system, however commands,     *)
(* snapshots of both kinds and left-over processes interleave, as long as  *)
(* none of these removes a file that a walk is about to hash.              *)
(***************************************************************************)
THEOREM LayersReproduceFS ==
    ASSUME Precise
    PROVE  Spec => []ImageReproducesFS
<1>1. Inv => ImageReproducesFS
  BY DEF Inv, IInv, IdleInv, ImageReproducesFS
<1>. QED
  BY <1>1, IInvHolds, PTL

(***************************************************************************)
(* The layered map never vouches for a file the image does not have: a     *)
(* change that a snapshot missed is found by the next one.  Walks that     *)
(* broke off are excluded.                                                 *)
(***************************************************************************)
THEOREM MapIsHonest ==
    ASSUME Precise
    PROVE  Spec => []MapNeverVouchesWrongly
<1>1. Inv => MapNeverVouchesWrongly
  BY MapVouches DEF Inv, MapNeverVouchesWrongly, Cur
<1>. QED
  BY <1>1, IInvHolds, PTL

(***************************************************************************)
(* Writing a layer fails only when a file was removed during the snapshot. *)
(* Walks that broke off are excluded.                                      *)
(***************************************************************************)
THEOREM FailureIsARace ==
    ASSUME Precise
    PROVE  Spec => []FailsOnlyOnRace
<1>1. Inv => FailsOnlyOnRace
  BY DEF Inv, IInv, FailsInv, FailsOnlyOnRace
<1>. QED
  BY <1>1, IInvHolds, PTL

=============================================================================
