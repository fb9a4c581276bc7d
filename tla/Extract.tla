------------------------------- MODULE Extract -------------------------------
(***************************************************************************)
(* pkg/util/fs_util.go, GetFSFromLayers and ExtractFile: unpacking the     *)
(* layers of an image under config.RootDir, entry by entry.                *)
(*                                                                         *)
(* An image is the sequence of the trees its layers add up to, chosen as   *)
(* they are read; a layer is what differs between two of them, its entries *)
(* in any order; links are relative, so that they mean the same with any   *)
(* config.RootDir.  Reading a layer may fail half-way; the stage builder   *)
(* then starts with the first layer again, on the disk as it was left.     *)
(*                                                                         *)
(* Left out: security xattrs, the mtimes of directories and links (which   *)
(* the code does not restore), the option to extract whiteouts as files,   *)
(* opaque whiteouts (which the code takes for the whiteout of a file of    *)
(* that name), and that under "/" os.MkdirAll fails on a link that leads   *)
(* nowhere, where with --sandbox it makes what the link leads to.          *)
(***************************************************************************)
EXTENDS FileTree

CONSTANTS
    Trees,          \* what images hold
    Follows(_, _),  \* may a layer make the second tree out of the first?
    Ignored,        \* mount points and /kaniko: the ignore list
    Mounted,        \* what lies at the ignored paths before anything is unpacked
    MaxLayers,      \* bound on the layers of all images
    ImageFSExtractRetry

Ignores(p) == \E e \in Ignored : HasPrefix(p, e)

ASSUME ExtractAssumption ==
    /\ IsFiniteSet(Path) /\ Ignored \subseteq Path
    /\ Trees \subseteq {d \in [Path -> Node] : IsTree(d)}
    /\ Mounted \in [Path -> Node] /\ IsTree(Mounted)
    /\ MaxLayers \in Nat /\ ImageFSExtractRetry \in Nat

VARIABLES
    rooted,     \* config.RootDir is not "/" (--sandbox)
    disk,       \* the file system under config.RootDir
    image,      \* the trees of the image, as far as it has been read
    read,       \* how many layers images have had
    layer,      \* the number of the current layer; 0 before the first
    todo,       \* the entries of the current layer still to come
    retries,    \* how often the extraction was started again
    status      \* "ok"; "refused" by the disk or "unread", and given up; "panicked"

vars == <<rooted, disk, image, read, layer, todo, retries, status>>

Nothing == [p \in Path |-> IF p = Root THEN Mounted[Root] ELSE Absent]

\* What the layers up to the current one add up to.
tree == IF layer = 0 THEN Nothing ELSE image[layer]

Entry == [type : {"whiteout", "reg", "dir", "symlink"}, path : Path, node : Node]

Init ==
    /\ rooted \in BOOLEAN
    /\ disk = Mounted
    /\ image = << >>
    /\ read = 0
    /\ layer = 0
    /\ todo = {}
    /\ retries = 0
    /\ status = "ok"

-----------------------------------------------------------------------------
(***************************************************************************)
(* The entries of the layer between two trees: a whiteout for what is gone *)
(* and whose directory is not, and an entry for everything that is new or  *)
(* different.                                                              *)
(***************************************************************************)
TypeOf(n) == CASE n.kind = "dir" -> "dir" [] n.kind = "file" -> "reg" [] n.kind = "link" -> "symlink"

Gone(d, t) == {p \in Path : Exists(d, p) /\ ~Exists(t, p) /\ t[Dir(p)].kind = "dir"}

LayerOf(d, t) ==
    {[type |-> "whiteout", path |-> p, node |-> Absent] : p \in Gone(d, t)}
    \cup {[type |-> TypeOf(t[p]), path |-> p, node |-> t[p]] : p \in {q \in Path : Exists(t, q) /\ d[q] # t[q]}}

NextLayer ==
    /\ status = "ok" /\ todo = {}
    /\ \/ layer < Len(image) /\ UNCHANGED <<image, read>>
       \/ /\ layer = Len(image) /\ read < MaxLayers
          /\ \E t \in Trees : Follows(tree, t) /\ image' = Append(image, t)
          /\ read' = read + 1
    /\ layer' = layer + 1
    /\ todo' = LayerOf(tree, image'[layer'])
    /\ UNCHANGED <<rooted, disk, retries, status>>

-----------------------------------------------------------------------------
(***************************************************************************)
(* ResolvePathInRoot follows all links of p, and does not mind what is     *)
(* missing; resolveLeafInRoot leaves the last component alone.  With "/"   *)
(* for a root the kernel does the latter.  A loop of links is an error.    *)
(***************************************************************************)
ResolvePathInRoot(p) == evalSymlinks(disk, p).path

LoopsInRoot(p) == rooted /\ evalSymlinks(disk, p).err = "ELOOP"

resolveLeafInRoot(p) ==
    IF p = Root THEN Root ELSE Append(ResolvePathInRoot(Dir(p)), p[Len(p)])

childDirInIgnoreList(p) == \E e \in Ignored : HasPrefix(e, p)

RemoveAll(d, p) == [q \in Path |-> IF HasPrefix(q, p) THEN Absent ELSE d[q]]

\* Directories that os.MkdirAll makes: 0755, and owned by root.
Made == Mounted[Root]

MkdirAll(d, p) == [q \in Path |-> IF HasPrefix(p, q) /\ ~Exists(d, q) THEN Made ELSE d[q]]

CanMkdirAll(d, p) == \A q \in Path : HasPrefix(p, q) => d[q].kind \in {"none", "dir"}

\* Mutants: ignored paths below are not looked for; a directory must be empty.
whiteoutOfParents(name, p) == IF Ignores(name) THEN disk ELSE RemoveAll(disk, p)
whiteoutOfEmpty(name, p) ==
    IF Ignores(name) \/ \E q \in Path : Below(q, p) /\ Exists(disk, q) THEN disk ELSE RemoveAll(disk, p)

(***************************************************************************)
(* A whiteout in GetFSFromLayers: name is looked up in the ignore list,    *)
(* and p is where that is.                                                 *)
(***************************************************************************)
whiteout(name, p) ==
    IF Ignores(name) \/ childDirInIgnoreList(name) THEN disk ELSE RemoveAll(disk, p)

\* os.RemoveAll fails where a file is in the place of a directory above.
whiteoutFails(name, p) ==
    /\ ~Ignores(name) /\ ~childDirInIgnoreList(name)
    /\ \E q \in ParentDirectories(p) : disk[q].kind = "file"

\* Mutant: an existing directory keeps its permissions.
MkdirAllKeepingPermissions(p, n) ==
    IF disk[p].kind = "dir" THEN disk
    ELSE [MkdirAll(RemoveAll(disk, p), p) EXCEPT ![p].perm = n.perm]

(***************************************************************************)
(* MkdirAllWithPermissions: what is not a directory, looked at through     *)
(* links, makes way for one.                                               *)
(***************************************************************************)
MkdirAllWithPermissions(p, n) ==
    LET stat == evalSymlinks(disk, p)
        seen == disk[stat.path].kind
        free == IF stat.err = "ok" /\ seen # "dir" THEN RemoveAll(disk, p) ELSE disk
    IN IF stat.err = "ok" /\ seen = "dir"
       THEN [disk EXCEPT ![stat.path].perm = n.perm]
       ELSE [MkdirAll(free, p) EXCEPT ![p].perm = n.perm]

\* Mutant: a file does not make way.
MkdirFailsOnFile(p) == ~CanMkdirAll(disk, p)

MkdirFails(p) ==
    LET stat == evalSymlinks(disk, p)
    IN \/ stat.err \in {"ENOTDIR", "ELOOP"}
       \/ stat.err = "ENOENT" /\ ~CanMkdirAll(disk, p)

(***************************************************************************)
(* Files and links: their directory is made if it is missing, and what is  *)
(* at their path is removed with all below it.                             *)
(***************************************************************************)
create(p, n) == [RemoveAll(MkdirAll(disk, Dir(p)), p) EXCEPT ![p] = n]

(***************************************************************************)
(* For a file, os.Stat(dir) comes first: "a file was copied over a         *)
(* directory prior to now".  If that file is dir itself os.MkdirAll fails; *)
(* if it is further up os.Stat does, with an error that is not IsNotExist, *)
(* and fi.IsDir() is called on nil.                                        *)
(***************************************************************************)
statIsNil(dir) == evalSymlinks(disk, dir).err \in {"ENOTDIR", "ELOOP"}

(***************************************************************************)
(* util.Retry around getFSFromImage in the stage builder: an error starts  *)
(* the extraction again, or ends the build.                                *)
(***************************************************************************)
Error(why) ==
    /\ UNCHANGED disk
    /\ IF retries < ImageFSExtractRetry
       THEN layer' = 0 /\ todo' = {} /\ retries' = retries + 1 /\ UNCHANGED status
       ELSE status' = why /\ UNCHANGED <<layer, todo, retries>>

\* Entry e turns the disk into d, or the disk refuses.
Write(e, refused, d) ==
    IF refused THEN Error("refused")
    ELSE disk' = d /\ todo' = todo \ {e} /\ UNCHANGED <<layer, retries, status>>

Panic == status' = "panicked" /\ UNCHANGED <<disk, layer, todo, retries>>

WhiteoutPath(e) == IF rooted THEN ResolvePathInRoot(e.path) ELSE resolveLeafInRoot(e.path)
WhiteoutName(e) == IF rooted THEN ResolvePathInRoot(e.path) ELSE e.path

Whiteout(e) ==
    /\ e.type = "whiteout"
    /\ Write(e, LoopsInRoot(e.path) \/ whiteoutFails(WhiteoutName(e), WhiteoutPath(e)),
             whiteout(WhiteoutName(e), WhiteoutPath(e)))

(***************************************************************************)
(* ExtractFile.  (A hard link is extracted like the file it is one of.)    *)
(***************************************************************************)
ExtractFile(e) ==
    LET p == resolveLeafInRoot(e.path)
        loops == LoopsInRoot(Dir(e.path))
        ignored == Ignores(IF rooted THEN p ELSE e.path)
    IN /\ e.type # "whiteout"
       /\ \/ (ignored \/ loops) /\ Write(e, loops, disk)
          \/ /\ ~ignored /\ ~loops /\ e.type = "dir"
             /\ Write(e, MkdirFails(p), MkdirAllWithPermissions(p, e.node))
          \/ /\ ~ignored /\ ~loops /\ e.type # "dir"
             /\ IF e.type = "reg" /\ statIsNil(Dir(p)) THEN Panic
                ELSE Write(e, ~CanMkdirAll(disk, Dir(p)), create(p, e.node))

GetFSFromLayers ==
    /\ status = "ok"
    /\ \E e \in todo : Whiteout(e) \/ ExtractFile(e)
    /\ UNCHANGED <<rooted, image, read>>

\* The registry, or the tarball, fails while a layer is read.
ReadFails ==
    /\ status = "ok" /\ todo # {}
    /\ Error("unread")
    /\ UNCHANGED <<rooted, image, read>>

(***************************************************************************)
(* DeleteFilesystem, between two stages: all but what is ignored and the   *)
(* directories above it.  The next stage unpacks its image.                *)
(***************************************************************************)
DeleteFilesystem ==
    /\ status = "ok" /\ todo = {} /\ layer > 0 /\ layer = Len(image)
    /\ disk' = [p \in Path |-> IF p = Root \/ Ignores(p) \/ childDirInIgnoreList(p)
                              THEN disk[p] ELSE Absent]
    /\ image' = << >> /\ layer' = 0 /\ retries' = 0
    /\ UNCHANGED <<rooted, read, todo, status>>

Next == NextLayer \/ GetFSFromLayers \/ ReadFails \/ DeleteFilesystem

Spec == Init /\ [][Next]_vars

-----------------------------------------------------------------------------
(***************************************************************************)
(* Properties.                                                             *)
(***************************************************************************)

(***************************************************************************)
(* The state has its types: the disk is a tree after every entry.          *)
(***************************************************************************)
TypeOK ==
    /\ rooted \in BOOLEAN
    /\ disk \in [Path -> Node] /\ IsTree(disk)
    /\ image \in Seq(Trees) /\ layer \in 0 .. Len(image) /\ Len(image) <= read
    /\ read \in 0 .. MaxLayers
    /\ todo \subseteq Entry
    /\ retries \in 0 .. ImageFSExtractRetry
    /\ status \in {"ok", "refused", "unread", "panicked"}

Same(m, n) ==
    /\ m.kind = n.kind
    /\ m.kind = "dir" => m.perm = n.perm
    /\ m.kind = "link" => m.data = n.data
    /\ m.kind = "file" => m = n

Extracted == status = "ok" /\ todo = {} /\ layer = Len(image)

(***************************************************************************)
(* README: "we extract the filesystem of the base image": when all layers  *)
(* have been read, everything of the image is on disk but what is ignored, *)
(* as the image has it, whatever the layers before had in its place, in    *)
(* whatever order the entries came, and wherever an earlier try broke off. *)
(***************************************************************************)
ImageIsOnDisk ==
    Extracted => \A p \in Path : Exists(tree, p) /\ ~Ignores(p) => Same(disk[p], tree[p])

(***************************************************************************)
(* What a layer removed is gone from the disk, except in directories that  *)
(* hold an ignored path: "Not deleting %s, as it contains a ignored path". *)
(* A try that broke off, and a stage before, leave nothing behind either.  *)
(***************************************************************************)
RemovedIsGone ==
    Extracted =>
        \A p \in Path : Exists(disk, p) /\ ~Exists(tree, p) =>
            \E e \in Ignored, q \in Path \ {Root} : HasPrefix(p, q) /\ HasPrefix(e, q)

(***************************************************************************)
(* No link of an image leads to an ignored path, to what is below it or to *)
(* a directory it is in, and what is above an ignored path is a directory. *)
(* MountsAreKept rests on this: ExtractFile looks for the path of an entry *)
(* in the ignore list as the tar file has it, not as the links on disk     *)
(* resolve it, and RemoveAll makes way for a file above an ignored path.   *)
(***************************************************************************)
Near(p) == Ignores(p) \/ childDirInIgnoreList(p)

Apart ==
    \A d \in Trees \cup {Mounted}, p \in Path :
        /\ d[p].kind = "link" => d[p].data \in Path /\ ~Near(d[p].data)
        /\ (\E e \in Ignored : Below(e, p)) => d[p].kind \in {"none", "dir"}

(***************************************************************************)
(* What OnlyDisorderFails, ImageIsOnDisk and RemovedIsGone rest on too.    *)
(* Only mounts, without links, are there before the first layer, and no    *)
(* layer changes the root, whose entry the first layer need not have.  No  *)
(* image has a directory and a link at the same path: MkdirAll would write *)
(* through a link that a broken try left.  And no link is removed: in a    *)
(* sandbox its whiteout removes what it leads to.                          *)
(***************************************************************************)
IsImage(s) == \A i \in DOMAIN s : Follows(IF i = 1 THEN Nothing ELSE s[i - 1], s[i])

Steady ==
    /\ Root \notin Ignored
    /\ \A p \in Path : Exists(Mounted, p) => (p = Root \/ Near(p)) /\ Mounted[p].kind # "link"
    /\ \A t \in Trees : t[Root] = Mounted[Root]
    /\ \A n \in 0 .. MaxLayers : \A s \in [1 .. n -> Trees] : IsImage(s) =>
         \A i, j \in 1 .. n, p \in Path : s[i][p].kind = "dir" => s[j][p].kind # "link"
    /\ \A d, t \in Trees : Follows(d, t) => \A p \in Gone(d, t) : d[p].kind # "link"

(***************************************************************************)
(* What was mounted or is kaniko's own stays what it was, whatever an      *)
(* image has, replaces or removes at and around these paths.               *)
(***************************************************************************)
MountsAreKept == \A p \in Path : Ignores(p) => disk[p] = Mounted[p]

(***************************************************************************)
(* What is on disk makes way for an entry, with one exception, of which    *)
(* ExtractFile says "It's possible a file is in the tar before its         *)
(* directory, or a file was copied over a directory prior to now": when    *)
(* both are so, and a file of a layer before, or of a try that broke off,  *)
(* is still in the place of a directory whose entry is to come.  Only then *)
(* is an entry refused, or does the executor panic.                        *)
(***************************************************************************)
Fails(e) ==
    LET p == resolveLeafInRoot(e.path)
    IN IF e.type = "whiteout"
       THEN LoopsInRoot(e.path) \/ whiteoutFails(WhiteoutName(e), WhiteoutPath(e))
       ELSE \/ LoopsInRoot(Dir(e.path))
            \/ /\ ~Ignores(IF rooted THEN p ELSE e.path)
               /\ IF e.type = "dir" THEN MkdirFails(p) ELSE ~CanMkdirAll(disk, Dir(p))

OnlyDisorderFails ==
    \A e \in todo : Fails(e) =>
        \E f \in todo : f.type = "dir" /\ Below(e.path, f.path) /\ disk[f.path].kind = "file"

=============================================================================
