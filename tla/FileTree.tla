------------------------------ MODULE FileTree ------------------------------
(***************************************************************************)
(* The file system a build works on, and the layers it is cut into.        *)
(*                                                                         *)
(* A path is the sequence of its components below the root directory, so   *)
(* the root is <<>> and filepath.Dir drops the last component.  A file     *)
(* system maps every path of the universe to a node; Absent stands for a   *)
(* path that os.Lstat does not find.  A node keeps what the hash functions *)
(* of pkg/util/util.go tell apart: its kind, its permissions and owner     *)
(* (perm), its mtime, and its contents (data; the target, for a link).     *)
(***************************************************************************)
EXTENDS Naturals, Sequences, FiniteSets

CONSTANTS
    Path,       \* the paths a build may touch, closed under parents
    Data,       \* contents a regular file may have
    Perm,       \* mode, uid and gid of a node, as one value
    MaxTime     \* bound on the clock that stamps mtimes

Root == << >>

Dir(p) == SubSeq(p, 1, Len(p) - 1)

(***************************************************************************)
(* All the parents of p, the root included and p excluded.  (For the root  *)
(* itself the code returns the root.)                                      *)
(***************************************************************************)
ParentDirectories(p) ==
    IF p = Root THEN {Root} ELSE {SubSeq(p, 1, i) : i \in 0 .. Len(p) - 1}

(***************************************************************************)
(* q is p or lies above p: HasFilepathPrefix(p, q, false).                 *)
(***************************************************************************)
HasPrefix(p, q) == q = p \/ q \in ParentDirectories(p)

(***************************************************************************)
(* q lies strictly above p: HasFilepathPrefix(p, q, true).                 *)
(***************************************************************************)
Below(p, q) == q # p /\ q \in ParentDirectories(p)

ASSUME PathAssumption ==
    /\ Path \subseteq Seq(STRING)
    /\ Root \in Path
    /\ \A p \in Path : ParentDirectories(p) \subseteq Path
    /\ Perm # {}
    /\ MaxTime \in Nat

Kind == {"none", "dir", "file", "link"}

Node == [kind : Kind, perm : Perm, mtime : 0 .. MaxTime, data : Data \cup Path]

(***************************************************************************)
(* A fixed node of kind "none": every missing path looks the same.         *)
(***************************************************************************)
Absent == [kind |-> "none", perm |-> CHOOSE x \in Perm : TRUE,
           mtime |-> 0, data |-> Root]

Exists(d, p) == d[p].kind # "none"

(***************************************************************************)
(* Only directories have entries, and the root is always one.              *)
(***************************************************************************)
IsTree(d) ==
    /\ d[Root].kind = "dir"
    /\ \A p \in Path : d[p].kind = "none" => d[p] = Absent
    /\ \A p \in Path : Exists(d, p) =>
          \A q \in ParentDirectories(p) : d[q].kind = "dir"

(***************************************************************************)
(* filepath.EvalSymlinks(p): walk down from the root to the first part of  *)
(* p that is not a directory; a link there is replaced by its target.      *)
(* The number n stands for the limit on the links followed; there is       *)
(* nothing at a path outside the universe.                                 *)
(***************************************************************************)
Stops(d, p) == {a \in ParentDirectories(p) \cup {p} : d[a].kind # "dir"}

FirstStop(d, p) == CHOOSE a \in Stops(d, p) : \A b \in Stops(d, p) : Len(a) <= Len(b)

ThroughLink(d, p, a) == d[a].data \o SubSeq(p, Len(a) + 1, Len(p))

walkLinks(d) ==
    LET walk[n \in 0 .. Cardinality(Path)] == [p \in Path |->
            LET a == FirstStop(d, p)
            IN IF Stops(d, p) = {} THEN [err |-> "ok", path |-> p]
               ELSE IF d[a].kind = "none" THEN [err |-> "ENOENT", path |-> p]
               ELSE IF d[a].kind = "file" THEN [err |-> IF a = p THEN "ok" ELSE "ENOTDIR", path |-> p]
               ELSE IF n = 0 THEN [err |-> "ELOOP", path |-> p]
               ELSE IF ThroughLink(d, p, a) \in Path THEN walk[n - 1][ThroughLink(d, p, a)]
               ELSE [err |-> "ENOENT", path |-> p]]
    IN walk

evalSymlinks(d, p) ==
    IF p \in Path THEN walkLinks(d)[Cardinality(Path)][p] ELSE [err |-> "ENOENT", path |-> p]

(***************************************************************************)
(* Paths with all their parents, which a layer has to carry too.           *)
(***************************************************************************)
filesWithParentDirs(S) == S \cup UNION {ParentDirectories(p) : p \in S}

\* Mutants: no path counts as obsolete; a path does unless all others are deeper.
keepAllWhiteouts(deleted) == deleted
keepOneWhiteout(deleted) == {p \in deleted : \A q \in deleted \ {p} : Len(p) < Len(q)}

(***************************************************************************)
(* Deleted paths whose directory is deleted too need no whiteout.          *)
(***************************************************************************)
removeObsoleteWhiteouts(deleted) == {p \in deleted : Dir(p) \notin deleted}

(***************************************************************************)
(* A parent of p has been replaced by something that is no directory.      *)
(***************************************************************************)
parentPathIncludesNonDirectory(d, p) ==
    \E q \in ParentDirectories(p) :
        /\ d[q].kind \in {"file", "link"}
        /\ \A r \in ParentDirectories(p) : Below(q, r) => d[r].kind = "dir"

(***************************************************************************)
(* A layer: the nodes in the tarball and the paths it whites out.          *)
(***************************************************************************)
Layers == [adds : SUBSET Path, nodes : [Path -> Node], whiteouts : SUBSET Path]

(***************************************************************************)
(* The tarball of the files and whiteouts of a snapshot of d: whiteouts    *)
(* below what is no longer a directory are skipped, and the parents of     *)
(* every entry go in.                                                      *)
(***************************************************************************)
writeToTar(d, files, whiteouts) ==
    LET kept == {p \in whiteouts : ~parentPathIncludesNonDirectory(d, p)}
    IN [adds |-> files \cup UNION {ParentDirectories(p) : p \in files \cup kept},
        nodes |-> d, whiteouts |-> kept]

\* Mutant: a file that takes the place of a directory leaves its entries behind.
ApplyLayerKeepingSubtrees(img, layer) ==
    [p \in Path |-> IF p \in layer.adds THEN layer.nodes[p]
                    ELSE IF \E w \in layer.whiteouts : HasPrefix(p, w) THEN Absent
                    ELSE img[p]]

(***************************************************************************)
(* What a container runtime sees after a layer is laid over the image img: *)
(* an entry of the tarball replaces what was there; a whiteout removes the *)
(* path and all below it; an entry that is not a directory takes the place *)
(* of a whole subtree.                                                     *)
(***************************************************************************)
ApplyLayer(img, layer) ==
    [p \in Path |->
        IF p \in layer.adds THEN layer.nodes[p]
        ELSE IF \/ \E w \in layer.whiteouts : HasPrefix(p, w)
                \/ \E q \in layer.adds : Below(p, q) /\ layer.nodes[q].kind # "dir"
        THEN Absent
        ELSE img[p]]

=============================================================================
