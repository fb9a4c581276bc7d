----------------------------- MODULE LayeredMap -----------------------------
(***************************************************************************)
(* pkg/snapshot/layered_map.go: the hashes of the files the image holds,   *)
(* kept as a merged map of all layers but the last and the additions and   *)
(* deletions of the last layer, which are merged only when asked for.      *)
(*                                                                         *)
(* A LayeredMap is a record and each method a function from records to     *)
(* records.  The code keeps every layer's additions and deletions but only *)
(* ever reads the last; the record keeps the last one and whether there is *)
(* one at all.  The hasher a map is made with is named by its mode.        *)
(***************************************************************************)
EXTENDS FileTree

CONSTANT SnapshotModes   \* values of --snapshot-mode: "full", "redo" or "time"

ASSUME SnapshotModesAssumption == SnapshotModes \subseteq {"full", "redo", "time"}

(***************************************************************************)
(* The hash of a node, as the tuple of the fields the hash is computed     *)
(* from.  (Files whose size differs are taken to differ in mtime, so that  *)
(* "redo", which hashes size but not contents, is mtime and metadata.)     *)
(***************************************************************************)
Hasher(n) == <<n.kind, n.perm, n.mtime, n.data>>

\* Mutant: without the mtime.
RedoHasherWithoutTime(n) == <<n.kind, n.perm>>

RedoHasher(n) == <<n.kind, n.perm, n.mtime>>

MtimeHasher(n) == <<n.mtime>>

hasher(mode, n) ==
    CASE mode = "full" -> Hasher(n)
      [] mode = "redo" -> RedoHasher(n)
      [] mode = "time" -> MtimeHasher(n)

NoHash == << >>     \* the map has no entry for the path

Hash == {hasher(mode, n) : mode \in SnapshotModes, n \in Node} \cup {NoHash}

EmptyMap == [p \in Path |-> NoHash]

NewLayeredMap(mode) ==
    [mode |-> mode, hasLayer |-> FALSE, adds |-> EmptyMap, deletes |-> {},
     currentImage |-> EmptyMap, isCurrentImageValid |-> FALSE,
     layerHashCache |-> EmptyMap]

LayeredMaps ==
    [mode : SnapshotModes, hasLayer : BOOLEAN, adds : [Path -> Hash], deletes : SUBSET Path,
     currentImage : [Path -> Hash], isCurrentImageValid : BOOLEAN,
     layerHashCache : [Path -> Hash]]

(***************************************************************************)
(* The image with the last layer merged in; additions first, so that a     *)
(* path both added and deleted in one layer counts as deleted.             *)
(***************************************************************************)
getCurrentImage(l) ==
    IF l.isCurrentImageValid \/ ~l.hasLayer
    THEN l.currentImage
    ELSE [p \in Path |-> IF p \in l.deletes THEN NoHash
                         ELSE IF l.adds[p] # NoHash THEN l.adds[p]
                         ELSE l.currentImage[p]]

updateCurrentImage(l) ==
    [l EXCEPT !.currentImage = getCurrentImage(l), !.isCurrentImageValid = TRUE]

(***************************************************************************)
(* Snapshot opens a new layer.                                             *)
(***************************************************************************)
Snapshot(l) ==
    [updateCurrentImage(l) EXCEPT !.hasLayer = TRUE, !.adds = EmptyMap,
        !.deletes = {}, !.layerHashCache = EmptyMap]

GetCurrentPaths(l) == {p \in Path : getCurrentImage(l)[p] # NoHash}

(***************************************************************************)
(* CheckFileChange called on every path of S, on the file system d.        *)
(***************************************************************************)
CheckFileChanges(l, d, S) ==
    [l EXCEPT !.layerHashCache =
        [p \in Path |-> IF p \in S THEN hasher(l.mode, d[p]) ELSE @[p]]]

\* Mutant: every file counts as changed.
AllFiles(l, d, S) == S

ChangedFiles(l, d, S) == {p \in S : l.currentImage[p] # hasher(l.mode, d[p])}

(***************************************************************************)
(* Add called on every path of S: a hash kept by CheckFileChange is used   *)
(* before the file is read again.  One call marks the image out of date.   *)
(***************************************************************************)
Add(l, d, S) ==
    [l EXCEPT
        !.isCurrentImageValid = @ /\ S = {},
        !.adds = [p \in Path |->
            IF p \notin S THEN @[p]
            ELSE IF l.layerHashCache[p] # NoHash THEN l.layerHashCache[p]
            ELSE hasher(l.mode, d[p])]]

\* Mutant: the map keeps what is deleted.
AddDeleteNothing(l, S) == l

(***************************************************************************)
(* AddDelete called on every path of S.                                    *)
(***************************************************************************)
AddDelete(l, S) ==
    [l EXCEPT !.isCurrentImageValid = @ /\ S = {}, !.deletes = @ \cup S]

=============================================================================
