-------------------------------- MODULE Copy --------------------------------
(***************************************************************************)
(* pkg/commands/copy.go and add.go with the helpers of pkg/util: COPY and  *)
(* ADD from a build context, or from the files saved of an earlier stage,  *)
(* into the image; the files they list for the snapshot; the cache key     *)
(* made of what they copy; and the cached layer that replaces a COPY.      *)
(*                                                                         *)
(* A build here is one command on a base image and a context; builds that  *)
(* follow each other share the cache.  config.RootDir is "/": context and  *)
(* saved stages lie on the same disk as the image, at paths that are       *)
(* ignored (a mount, or below /kaniko).  Every mtime is 0: the key leaves  *)
(* them out.  Variables in the arguments have been replaced.               *)
(***************************************************************************)
EXTENDS FileTree, SequencesExt, TLC

CONSTANTS
    Walk,        \* Path in the lexical order of filepath.Walk
    ContextRoot, \* the build context
    StageRoot,   \* what was saved of the stage that COPY --from names
    Ignored,     \* the ignore list: mounts and /kaniko
    Bases,       \* file systems of base images
    Contexts,    \* contexts with their .dockerignore: records tree, out, back
    Commands,    \* commands that builds may have
    Passwd,      \* the users that contents of PasswdFile define, with their ids
    PasswdFile,  \* /etc/passwd
    Archives,    \* the entries of those contents that are tar archives
    Remote,      \* contents that a URL may have
    MaxBuilds,   \* bound on the builds
    None         \* no value: no option, no entry; a nil list

ASSUME CopyAssumption ==
    /\ ToSet(Walk) = Path
    /\ {ContextRoot, StageRoot, PasswdFile} \subseteq Path
    /\ \A d \in Bases : d \in [Path -> Node] /\ IsTree(d)
    /\ \A cmd \in Commands : cmd.op \in {"COPY", "ADD"} /\ cmd.cwd \in Path
    /\ MaxBuilds \in Nat

VARIABLES
    n,           \* how many builds were started
    build,       \* the base, context and command of the current one
    pc,          \* "start", "cached", "resolve", "add", "copy", "snapshot", "done", "failed"
    fs,          \* the disk
    chown,       \* the user and group that --chown gives
    srcs,        \* the sources still to be copied
    unresolved,  \* the sources that ADD leaves to COPY
    snapshotFiles,
    layer,       \* the layer of the command; None if there is none
    hit,         \* history: the layer came from the cache
    cache        \* the cached layers, by key

vars == <<n, build, pc, fs, chown, srcs, unresolved, snapshotFiles, layer, hit, cache>>

-----------------------------------------------------------------------------
(***************************************************************************)
(* The kernel.  A call that cannot succeed is an err other than "ok".      *)
(***************************************************************************)
Ok(d) == [err |-> "ok", fs |-> d]

Err(d, why) == [err |-> why, fs |-> d]

\* The next call, unless the last one has failed.
Then(r, next(_)) == IF r.err = "ok" THEN next(r.fs) ELSE r

Stat(d, p) == evalSymlinks(d, p)

\* Links are followed but for the last component.
Lstat(d, p) ==
    LET below(dir, at) ==
            CASE dir.err # "ok" -> [err |-> dir.err, path |-> at]
              [] dir.err = "ok" /\ d[dir.path].kind # "dir" -> [err |-> "ENOTDIR", path |-> p]
              [] OTHER -> [err |-> IF Exists(d, at) THEN "ok" ELSE "ENOENT", path |-> at]
        in(dir) == below(dir, Append(dir.path, p[Len(p)]))
    IN IF p = Root THEN [err |-> "ok", path |-> Root] ELSE in(Stat(d, Dir(p)))

FilepathExists(d, p) == Lstat(d, p).err # "ENOENT"

IsDir(d, p) == LET s == Stat(d, p) IN s.err = "ok" /\ d[s.path].kind = "dir"

IsSymlink(fi) == fi.kind = "link"

NewNode(kind, mode, own, data) ==
    [kind |-> kind, perm |-> [mode |-> mode, own |-> own], mtime |-> 0, data |-> data]

root == <<"0", "0">>        \* the ids the executor runs with

RemoveAll(d, p) == [q \in Path |-> IF HasPrefix(q, p) THEN Absent ELSE d[q]]

\* Is there nothing at p, but a directory for it?
CanMake(d, p) == p # Root /\ Lstat(d, p).err = "ENOENT" /\ IsDir(d, Dir(p))

Mkdir(d, p, mode, own) ==
    IF CanMake(d, p) THEN [d EXCEPT ![Lstat(d, p).path] = NewNode("dir", mode, own, Root)] ELSE d

PartsOf(p) == [i \in 1 .. Len(p) |-> SubSeq(p, 1, i)]

MkdirAll(d, p, mode, own) ==
    FoldLeft(LAMBDA e, q : IF FilepathExists(e, q) THEN e ELSE Mkdir(e, q, mode, own), d, PartsOf(p))

\* What filepath.Walk calls back on, in its order.
WalkFrom(d, p) == SelectSeq(Walk, LAMBDA q : HasPrefix(q, p) /\ Exists(d, q))

-----------------------------------------------------------------------------
(***************************************************************************)
(* FileContext.                                                            *)
(***************************************************************************)
Rel(base, p) == SubSeq(p, Len(base) + 1, Len(p))

Excludes(c, rel) ==
    (\E e \in c.out : HasPrefix(rel, e)) /\ ~(\E e \in c.back : HasPrefix(rel, e))

\* Mutant: a path is matched as it stands.
ExcludesFullPath(c, p) == Excludes(c, p)

(***************************************************************************)
(* ExcludesFile of a path in or below the root of the context c.  .out are *)
(* the patterns of .dockerignore, .back those with an exclamation mark.    *)
(***************************************************************************)
ExcludesFile(c, p) == Excludes(c, IF HasPrefix(p, c.root) THEN Rel(c.root, p) ELSE p)

NewFileContext(b) ==
    [root |-> ContextRoot, out |-> b.ctx.out, back |-> b.ctx.back]

\* The context of a command: that of the build, or an earlier stage.
fileContext(b) ==
    IF b.cmd.from THEN [root |-> StageRoot, out |-> {}, back |-> {}] ELSE NewFileContext(b)

RelativeFiles(d, fp, base) ==
    LET walked == WalkFrom(d, base \o fp) IN [i \in DOMAIN walked |-> Rel(base, walked[i])]

-----------------------------------------------------------------------------
(***************************************************************************)
(* Resolving sources.  A source is a path, a pattern for all entries of    *)
(* a path, or a URL, whose path is its file name.                          *)
(***************************************************************************)
IsSrcRemoteFileURL(src) == src.type = "url"

ContainsWildcards(s) == \E i \in DOMAIN s : s[i].type = "wild"

Matches(src, file) ==
    \/ src.type = "path" /\ src.path = file
    \/ src.type = "wild" /\ Len(file) = Len(src.path) + 1 /\ HasPrefix(file, src.path)

AsPath(file) == [type |-> "path", path |-> file]

matchSources(s, files) ==
    LET matched(src) ==
            IF IsSrcRemoteFileURL(src) THEN <<src>>
            ELSE LET m == SelectSeq(files, LAMBDA f : Matches(src, f))
                 IN [i \in DOMAIN m |-> AsPath(m[i])]
    IN FlattenSeq([i \in DOMAIN s |-> matched(s[i])])

ResolveSources(d, s, c) ==
    IF ContainsWildcards(s) THEN matchSources(s, RelativeFiles(d, Root, c.root)) ELSE s

(***************************************************************************)
(* IsDestDir: the disk decides if it knows the path, the last character if *)
(* not.  A relative path is looked up from "/", where the executor is.     *)
(***************************************************************************)
IsDestDir(d, p, slash) ==
    LET s == Stat(d, p)
    IN IF s.err = "ok" /\ (slash => d[s.path].kind = "dir") THEN d[s.path].kind = "dir" ELSE slash

(***************************************************************************)
(* IsSrcsValid: many files need a directory to go to, and one source that  *)
(* is not a pattern must be there.                                         *)
(***************************************************************************)
IsSrcsValid(d, s, resolved, dest, c) ==
    LET included == {i \in DOMAIN s : IsSrcRemoteFileURL(s[i]) \/ ~Excludes(c, s[i].path)}
        destDir == IsDestDir(d, dest.path, dest.slash)
        only == c.root \o resolved[1].path
        files(src) == IF IsSrcRemoteFileURL(src) THEN <<src.path>>
                      ELSE SelectSeq(RelativeFiles(d, src.path, c.root), LAMBDA f : ~Excludes(c, f))
        all == FlattenSeq([i \in DOMAIN resolved |-> files(resolved[i])])
        present == \A i \in DOMAIN resolved :
                      IsSrcRemoteFileURL(resolved[i]) \/ Exists(d, c.root \o resolved[i].path)
    IN /\ ~ContainsWildcards(s) /\ Cardinality(included) > 1 => destDir
       /\ \/ Len(resolved) = 1 /\ (IsSrcRemoteFileURL(resolved[1]) \/ d[only].kind = "dir")
          \/ present /\ (destDir \/ Len(all) <= 1)

-----------------------------------------------------------------------------
(***************************************************************************)
(* Users.  --chown=user[:group], looked up on the disk of the image; a     *)
(* name that is not found must be a number, and the group is that of the   *)
(* same number if none is given.                                           *)
(***************************************************************************)
LookupUser(d, name) ==
    LET file == Stat(d, PasswdFile)
        users == IF file.err = "ok" /\ d[file.path].data \in DOMAIN Passwd
                 THEN Passwd[d[file.path].data] ELSE << >>
    IN CASE name.id # None -> name.id
         [] name.id = None /\ name.name \in DOMAIN users -> users[name.name]
         [] OTHER -> None

\* Users and groups are in one table here; None is an error.
getUIDAndGID(d, user, group) ==
    LET uid == LookupUser(d, user)
        gid == IF group = None THEN uid ELSE LookupUser(d, group)
    IN IF uid = None \/ gid = None THEN None ELSE <<uid, gid>>

DoNotChange == "unchanged"

GetUserGroup(d, cmd) ==
    IF cmd.chown = None THEN DoNotChange ELSE getUIDAndGID(d, cmd.chown.user, cmd.chown.group)

DetermineTargetFileOwnership(node, own) == IF own = DoNotChange THEN node.perm.own ELSE own

GetChmod(cmd, default) == IF cmd.chmod = None THEN default ELSE cmd.chmod

-----------------------------------------------------------------------------
(***************************************************************************)
(* Destinations.  A dest has a path, says if it is absolute, and if it     *)
(* ends in a slash.  The result is a path and whether it does.             *)
(***************************************************************************)
DestinationFilepath(d, srcFileName, dest, cwd) ==
    LET newDest == IF dest.abs THEN dest.path ELSE cwd \o dest.path
    IN IF IsDestDir(d, newDest, dest.slash) THEN newDest \o srcFileName ELSE newDest

URLDestinationFilepath(d, src, dest, cwd) ==
    LET newDest == IF dest.abs THEN dest.path ELSE cwd \o dest.path
    IN IF IsDestDir(d, dest.path, dest.slash) THEN newDest \o src.path ELSE newDest

(***************************************************************************)
(* resolveIfSymlink: the links of the part of p that exists are resolved.  *)
(***************************************************************************)
resolveIfSymlink(d, p, slash) ==
    LET there == {i \in 0 .. Len(p) : FilepathExists(d, SubSeq(p, 1, i))}
        k == CHOOSE i \in there : \A j \in there : j <= i
        old == SubSeq(p, 1, k)
        s == Stat(d, old)
    IN CASE k # 0 /\ Lstat(d, old).err # "ok" -> Lstat(d, old)
         [] s.err # "ok" -> s
         [] slash /\ k = Len(p) /\ d[s.path].kind # "dir" -> [err |-> "ENOTDIR", path |-> p]
         [] OTHER -> [err |-> "ok", path |-> s.path \o SubSeq(p, k + 1, Len(p))]

-----------------------------------------------------------------------------
(***************************************************************************)
(* Writing.                                                                *)
(***************************************************************************)

\* createParentDirectory: the directory may not be a link itself.
createParentDirectory(d, p, own) ==
    LET base == Lstat(d, Dir(p))
    IN CASE base.err = "ENOENT" -> Ok(MkdirAll(d, Dir(p), "755", own))
         [] base.err = "ok" -> IF IsSymlink(d[base.path])
                               THEN Err(d, "destination cannot be a symlink") ELSE Ok(d)
         [] OTHER -> Err(d, base.err)

\* chown, then chmod, through links.
setFilePermissions(d, p, mode, own) ==
    [d EXCEPT ![Stat(d, p).path].perm =
        [mode |-> mode, own |-> IF own = DoNotChange THEN @.own ELSE own]]

(***************************************************************************)
(* os.Create: through links, also to a target that is missing.             *)
(***************************************************************************)
osCreate(d, p, data) ==
    LET create(s) ==
            CASE s.err = "ENOENT" /\ d[s.path].kind = "none" /\ d[Dir(s.path)].kind = "dir" ->
                   Ok([d EXCEPT ![s.path] = NewNode("file", "644", root, data)])
              [] s.err = "ok" /\ d[s.path].kind = "file" -> Ok([d EXCEPT ![s.path].data = data])
              [] OTHER -> Err(d, "cannot create")
    IN create(Stat(d, p))

(***************************************************************************)
(* resetFileOwnershipIfNotMatching: it matches if either id does.          *)
(***************************************************************************)
resetFileOwnershipIfNotMatching(d, p) ==
    LET own == d[Lstat(d, p).path].perm.own
        s == Stat(d, p)
    IN IF own[1] # root[1] /\ own[2] # root[2] /\ s.err = "ok"
       THEN [d EXCEPT ![s.path].perm.own = root] ELSE d

CreateFile(d, p, data, mode, own) ==
    LET reset(e) == IF FilepathExists(e, p) THEN resetFileOwnershipIfNotMatching(e, p) ELSE e
    IN Then(createParentDirectory(d, p, IF own = DoNotChange THEN root ELSE own),
            LAMBDA d1 : Then(osCreate(reset(d1), p, data),
                             LAMBDA d2 : Ok(setFilePermissions(d2, p, mode, own))))

\* What is no directory, looked at through links, makes way for one.
MkdirAllWithPermissions(d, p, mode, own) ==
    LET s == Stat(d, p)
        cleared == IF s.err = "ok" /\ d[s.path].kind # "dir" THEN RemoveAll(d, Lstat(d, p).path) ELSE d
        make(e) == IF s.err \in {"ok", "ENOENT"} /\ IsDir(e, p)
                   THEN Ok(setFilePermissions(e, p, mode, own))
                   ELSE Err(d, "cannot make directory")
    IN make(MkdirAll(cleared, p, mode, root))

CopySymlink(d, src, p) ==
    LET cleared == IF FilepathExists(d, p) THEN RemoveAll(d, Lstat(d, p).path) ELSE d
        link(e) == IF CanMake(e, p)
                   THEN Ok([e EXCEPT ![Lstat(e, p).path] = NewNode("link", "777", root, d[src].data)])
                   ELSE Err(d, "cannot link")
    IN Then(createParentDirectory(cleared, p, root), link)

\* A file that would be copied onto itself is left alone.
CopyFile(d, src, p, own, cmd) ==
    IF src = p THEN Ok(d)
    ELSE CreateFile(d, p, d[src].data, GetChmod(cmd, d[src].perm.mode),
                    DetermineTargetFileOwnership(d[src], own))

\* The outcome of a call with the files it is to be listed with.
Listed(r, files) == [err |-> r.err, fs |-> r.fs, files |-> files]

(***************************************************************************)
(* CopyDir: the files of src, listed before the first of them is copied.   *)
(* An excluded directory does not keep out what the patterns take back.    *)
(***************************************************************************)
CopyDir(d, src, dest, c, own, cmd) ==
    LET put(e, from, to) ==
            CASE e[from].kind = "dir" ->
                   MkdirAllWithPermissions(e, to, GetChmod(cmd, e[from].perm.mode),
                                           DetermineTargetFileOwnership(e[from], own))
              [] IsSymlink(e[from]) -> CopySymlink(e, from, to)
              [] e[from].kind = "file" -> CopyFile(e, from, to, own, cmd)
              [] OTHER -> Err(e, "copying dir")
        copy(acc, rel) ==
            IF acc.err # "ok" \/ ExcludesFile(c, src \o rel) THEN acc
            ELSE Listed(put(acc.fs, src \o rel, dest \o rel), Append(acc.files, dest \o rel))
    IN FoldLeft(copy, Listed(Ok(d), << >>), RelativeFiles(d, Root, src))

(***************************************************************************)
(* One round of the loop of CopyCommand.ExecuteCommand.                    *)
(***************************************************************************)
CopySource(d, b, own, src) ==
    LET c == fileContext(b)
        full == c.root \o src.path
        isDir == d[full].kind = "dir"
        name == IF isDir THEN << >> ELSE <<full[Len(full)]>>
        copy(dest) ==
            CASE dest.err # "ok" -> Listed(Err(d, dest.err), << >>)
              [] isDir /\ dest.err = "ok" -> CopyDir(d, full, dest.path, c, own, b.cmd)
              [] ~isDir /\ dest.err = "ok" /\ ExcludesFile(c, full) -> Listed(Ok(d), << >>)
              [] OTHER -> Listed(IF IsSymlink(d[full]) THEN CopySymlink(d, full, dest.path)
                                 ELSE CopyFile(d, full, dest.path, own, b.cmd), <<dest.path>>)
    IN IF ~Exists(d, full) THEN Listed(Err(d, "could not copy source"), << >>)
       ELSE copy(resolveIfSymlink(d, DestinationFilepath(d, name, b.cmd.dest, b.cmd.cwd), isDir))

-----------------------------------------------------------------------------
(***************************************************************************)
(* ADD.                                                                    *)
(***************************************************************************)
Ignores(p) == \E e \in Ignored : HasPrefix(p, e)

IsFileLocalTarArchive(d, p) ==
    LET s == Stat(d, p) IN s.err = "ok" /\ d[s.path].kind = "file" /\ d[s.path].data \in DOMAIN Archives

\* DownloadFileToDest of contents that the server sends.
DownloadFileToDest(d, p, cmd, own, data) ==
    CreateFile(d, p, data, GetChmod(cmd, "600"), own)

(***************************************************************************)
(* ExtractFile of an entry of an archive, see also the module Extract.     *)
(***************************************************************************)
ExtractFile(d, dest, entry) ==
    LET p == dest \o entry.path
        cleared(e) == IF FilepathExists(e, p) THEN RemoveAll(e, Lstat(e, p).path) ELSE e
        put(e) == IF CanMake(e, p) THEN Ok([e EXCEPT ![Lstat(e, p).path] = entry.node])
                  ELSE Err(d, "cannot extract")
    IN CASE Ignores(p) /\ ~Ignores(dest) -> Ok(d)
         [] entry.node.kind = "dir" /\ ~Ignores(p) ->
              MkdirAllWithPermissions(d, p, entry.node.perm.mode, entry.node.perm.own)
         [] OTHER -> put(cleared(MkdirAll(d, Dir(p), "755", root)))

UnpackLocalTarArchive(d, p, dest) ==
    LET untar(acc, entry) ==
            IF acc.err # "ok" THEN acc
            ELSE Listed(ExtractFile(acc.fs, dest, entry), Append(acc.files, dest \o entry.path))
    IN FoldLeft(untar, Listed(Ok(d), << >>), Archives[d[Stat(d, p).path].data])

-----------------------------------------------------------------------------
(***************************************************************************)
(* The cache key.  A file counts with its kind, mode, owner and contents   *)
(* (CacheHasher), a directory with those of all its files, in the order of *)
(* the walk.  What .dockerignore excludes does not count.                  *)
(***************************************************************************)
CacheHasher(node) == [node EXCEPT !.mtime = 0]

hashDir(d, p, c) ==
    LET files == SelectSeq(WalkFrom(d, p), LAMBDA q : ~ExcludesFile(c, q))
    IN [i \in DOMAIN files |-> CacheHasher(d[files[i]])]

\* Mutant: of a directory only its own attributes count.
AddPathOfDir(d, p, c) == IF ExcludesFile(c, p) THEN << >> ELSE << <<CacheHasher(d[p])>> >>

AddPath(d, p, c) ==
    IF d[p].kind = "dir"
    THEN IF hashDir(d, p, c) = << >> /\ ExcludesFile(c, p) THEN << >> ELSE <<hashDir(d, p, c)>>
    ELSE IF ExcludesFile(c, p) THEN << >> ELSE << <<CacheHasher(d[p])>> >>

(***************************************************************************)
(* FilesUsedFromContext.  ADD looks for its archives below "/", where the  *)
(* executor is, not in the context.                                        *)
(***************************************************************************)
FilesUsedFromContext(d, b) ==
    LET c == fileContext(b)
        used(src) == /\ ~IsSrcRemoteFileURL(src)
                     /\ b.cmd.op = "ADD" => ~IsFileLocalTarArchive(d, src.path)
        files == SelectSeq(ResolveSources(d, b.cmd.srcs, c), used)
    IN [i \in DOMAIN files |-> c.root \o files[i].path]

\* NewCompositeCache with the digest of the base, then populateCompositeKey.
CompositeKey(d, b) ==
    LET files == FilesUsedFromContext(d, b)
        key == [i \in DOMAIN files |-> AddPath(d, files[i], NewFileContext(b))]
    IN <<b.base, b.cmd.text>> \o FlattenSeq(key)

-----------------------------------------------------------------------------
(***************************************************************************)
(* The snapshot.  resolveSymlinkAncestor is the first part of p that is a  *)
(* link, below parts that are none; p itself if it has no links.           *)
(***************************************************************************)
resolveSymlinkAncestor(d, p) ==
    LET real == {i \in 0 .. Len(p) : Stat(d, SubSeq(p, 1, i)) = [err |-> "ok", path |-> SubSeq(p, 1, i)]}
        k == CHOOSE i \in real : \A j \in real : j <= i
    IN IF k = Len(p) THEN p ELSE SubSeq(p, 1, k + 1)

\* Mutant: what links lead to is left out.
ResolvePathsKeepingLinks(d, files) ==
    filesWithParentDirs({resolveSymlinkAncestor(d, p) : p \in ToSet(files)})

(***************************************************************************)
(* ResolvePaths: the ignore list holds for a path itself, and also for     *)
(* what is above the target of a link.  At a link that cannot be followed, *)
(* other than for a file that is missing, it returns what it has so far,   *)
(* without the directories above.                                          *)
(***************************************************************************)
ResolvePaths(d, files) ==
    LET Found(seq) == {p \in ToSet(seq) \ Ignored : Lstat(d, p).err = "ok"}
        Fails(p) == Stat(d, p).err \notin {"ok", "ENOENT"}
        k == SelectInSeq(files, LAMBDA p : p \in Found(files) /\ Fails(p))
        found == Found(IF k = 0 THEN files ELSE SubSeq(files, 1, k))
        targets == {Stat(d, p).path : p \in {q \in found : Stat(d, q).err = "ok"}}
        paths == {resolveSymlinkAncestor(d, p) : p \in found} \cup {p \in targets : ~Ignores(p)}
    IN IF k = 0 THEN filesWithParentDirs(paths) ELSE paths

\* Mutant: the list of files gets lost.
takeSnapshotOfAll(d, files) == writeToTar(d, {p \in Path : Exists(d, p) /\ ~Ignores(p)}, {})

(***************************************************************************)
(* FilesToSnapshot is nil if nothing was copied, and a nil list asks for a *)
(* scan of the file system; none was made before, so that finds all files. *)
(***************************************************************************)
takeSnapshot(d, files) ==
    LET all == {p \in Path : Exists(d, p) /\ ~Ignores(p)}
    IN writeToTar(d, IF files = << >> THEN all ELSE ResolvePaths(d, files), {})

-----------------------------------------------------------------------------
Disk(b) == [p \in Path |-> IF Ignores(p) THEN b.ctx.tree[p] ELSE b.base[p]]

Builds == [base : Bases, ctx : Contexts, cmd : Commands]

Init ==
    /\ n = 1
    /\ build \in Builds
    /\ pc = "start"
    /\ fs = Disk(build) /\ chown = DoNotChange
    /\ srcs = << >> /\ unresolved = << >> /\ snapshotFiles = << >>
    /\ layer = None /\ hit = FALSE
    /\ cache = << >>

(***************************************************************************)
(* The next build has the same command on the same base, which are part of *)
(* the key, and another context.                                           *)
(***************************************************************************)
nextBuild ==
    /\ pc \in {"done", "failed"} /\ n < MaxBuilds
    /\ n' = n + 1
    /\ \E c \in Contexts : build' = [build EXCEPT !.ctx = c]
    /\ pc' = "start"
    /\ fs' = Disk(build') /\ chown' = DoNotChange
    /\ srcs' = << >> /\ unresolved' = << >> /\ snapshotFiles' = << >>
    /\ layer' = None /\ hit' = FALSE
    /\ UNCHANGED cache

\* The sources of the command are there, and go where they are told to.
Resolves ==
    /\ GetUserGroup(fs, build.cmd) # None
    /\ IsSrcsValid(fs, build.cmd.srcs, ResolveSources(fs, build.cmd.srcs, fileContext(build)),
                   build.cmd.dest, fileContext(build))

\* CachingCopyCommand.ExecuteCommand: the cached layer is extracted, and used.
executeCached ==
    LET key == CompositeKey(fs, build)
        image == ApplyLayer(fs, cache[key])
    IN /\ pc = "start" /\ build.cmd.op = "COPY"
       /\ Resolves /\ key \in DOMAIN cache
       /\ fs' = [p \in Path |-> IF Ignores(p) THEN fs[p] ELSE image[p]]
       /\ layer' = cache[key] /\ hit' = TRUE
       /\ pc' = "done"
       /\ UNCHANGED <<n, build, chown, srcs, unresolved, snapshotFiles, cache>>

(***************************************************************************)
(* ExecuteCommand up to its loop: ResolveEnvAndWildcards, GetUserGroup.    *)
(***************************************************************************)
ResolveEnvAndWildcards ==
    /\ pc = "start"
    /\ pc' = IF ~Resolves THEN "failed" ELSE IF build.cmd.op = "ADD" THEN "add" ELSE "copy"
    /\ srcs' = ResolveSources(fs, build.cmd.srcs, fileContext(build))
    /\ chown' = GetUserGroup(fs, build.cmd)
    /\ UNCHANGED <<n, build, fs, unresolved, snapshotFiles, layer, hit, cache>>

\* r is the outcome for the first source: what is on disk, and what to list.
Copied(r) ==
    /\ fs' = r.fs
    /\ srcs' = Tail(srcs)
    /\ IF r.err = "ok" THEN snapshotFiles' = snapshotFiles \o r.files /\ UNCHANGED pc
       ELSE pc' = "failed" /\ UNCHANGED snapshotFiles
    /\ UNCHANGED <<n, build, chown, layer, hit, cache>>

(***************************************************************************)
(* The loop of AddCommand.ExecuteCommand.                                  *)
(***************************************************************************)
addURL ==
    /\ pc = "add" /\ srcs # << >> /\ IsSrcRemoteFileURL(srcs[1])
    /\ LET p == URLDestinationFilepath(fs, srcs[1], build.cmd.dest, build.cmd.cwd)
       IN \/ \E data \in Remote :
               Copied(Listed(DownloadFileToDest(fs, p, build.cmd, chown, data), <<p>>))
          \/ Copied(Listed(Err(fs, "invalid response status"), << >>))
    /\ UNCHANGED unresolved

addArchive ==
    /\ pc = "add" /\ srcs # << >> /\ ~IsSrcRemoteFileURL(srcs[1])
    /\ LET p == ContextRoot \o srcs[1].path
           dest == DestinationFilepath(fs, << >>, build.cmd.dest, build.cmd.cwd)
       IN /\ IsFileLocalTarArchive(fs, p)
          /\ Copied(UnpackLocalTarArchive(fs, p, dest))
    /\ UNCHANGED unresolved

addLater ==
    /\ pc = "add" /\ srcs # << >> /\ ~IsSrcRemoteFileURL(srcs[1])
    /\ ~IsFileLocalTarArchive(fs, ContextRoot \o srcs[1].path)
    /\ unresolved' = Append(unresolved, srcs[1])
    /\ srcs' = Tail(srcs)
    /\ UNCHANGED <<n, build, pc, fs, chown, snapshotFiles, layer, hit, cache>>

\* The other sources go to a CopyCommand, which looks at them once more.
addEnds ==
    /\ pc = "add" /\ srcs = << >>
    /\ srcs' = unresolved
    /\ unresolved' = << >>
    /\ chown' = GetUserGroup(fs, build.cmd)
    /\ pc' = IF /\ unresolved # << >>
                /\ \/ chown' = None
                   \/ ~IsSrcsValid(fs, unresolved, unresolved, build.cmd.dest, fileContext(build))
             THEN "failed" ELSE "copy"
    /\ UNCHANGED <<n, build, fs, snapshotFiles, layer, hit, cache>>

copySource ==
    /\ pc = "copy" /\ srcs # << >>
    /\ Copied(CopySource(fs, build, chown, srcs[1]))
    /\ UNCHANGED unresolved

\* The layer is cut, and pushed to the cache if the command is a COPY.
snapshot ==
    LET tar == takeSnapshot(fs, snapshotFiles)
    IN /\ pc = "copy" /\ srcs = << >>
       /\ layer' = tar
       /\ cache' = IF build.cmd.op = "COPY" THEN (CompositeKey(Disk(build), build) :> tar) @@ cache ELSE cache
       /\ pc' = "done"
       /\ UNCHANGED <<n, build, fs, chown, srcs, unresolved, snapshotFiles, hit>>

Next ==
    \/ nextBuild \/ executeCached \/ ResolveEnvAndWildcards
    \/ addURL \/ addArchive \/ addLater \/ addEnds
    \/ copySource \/ snapshot

Spec == Init /\ [][Next]_vars

-----------------------------------------------------------------------------
(***************************************************************************)
(* Properties.                                                             *)
(***************************************************************************)

\* The state has its types: the disk is a tree, whatever was copied.
TypeOK ==
    /\ n \in 1 .. MaxBuilds
    /\ build \in Builds
    /\ pc \in {"start", "add", "copy", "done", "failed"}
    /\ fs \in [Path -> Node] /\ IsTree(fs)
    /\ ToSet(snapshotFiles) \subseteq Path
    /\ hit \in BOOLEAN

Image == ApplyLayer(build.base, layer)

(***************************************************************************)
(* What the Dockerfile reference wants of a command: the nodes that are to *)
(* be in the image, with their paths, those that come first first.         *)
(***************************************************************************)
Target == LET dest == build.cmd.dest IN IF dest.abs THEN dest.path ELSE build.cmd.cwd \o dest.path

IntoDir == build.cmd.dest.slash \/ IsDir(build.base, Target)

WantedNode(node) ==
    [kind |-> node.kind, data |-> node.data,
     perm |-> [mode |-> GetChmod(build.cmd, node.perm.mode),
               own |-> DetermineTargetFileOwnership(node, GetUserGroup(build.base, build.cmd))]]

Wanted ==
    LET c == fileContext(build)
        disk == Disk(build)
        name(p) == IF IntoDir THEN Target \o <<p[Len(p)]>> ELSE Target
        of(src) ==
            LET p == c.root \o src.path
                inside == SelectSeq(WalkFrom(disk, p), LAMBDA q : ~Excludes(c, Rel(c.root, q)))
                entries == Archives[disk[p].data]
            IN CASE IsSrcRemoteFileURL(src) ->
                      <<[to |-> name(src.path), node |-> [kind |-> "file", data |-> None, perm |-> None]]>>
                 [] ~IsSrcRemoteFileURL(src) /\ build.cmd.op = "ADD" /\ IsFileLocalTarArchive(disk, p) ->
                      [i \in DOMAIN entries |-> [to |-> Target \o entries[i].path, node |-> entries[i].node]]
                 [] OTHER ->
                      [i \in DOMAIN inside |->
                          [to |-> IF disk[p].kind = "dir" THEN Target \o Rel(p, inside[i]) ELSE name(p),
                           node |-> WantedNode(disk[inside[i]])]]
        resolved == ResolveSources(disk, build.cmd.srcs, c)
    IN FlattenSeq([i \in DOMAIN resolved |-> of(resolved[i])])

\* The path at which w is in the image: links lead there, but w may be one.
Place(w) == IF w.node.kind = "link" THEN Lstat(Image, w.to).path ELSE Stat(Image, w.to).path

Looks(node, w) ==
    /\ node.kind = w.node.kind
    /\ w.node.data # None => node.data = w.node.data
    /\ w.node.perm # None /\ node.kind # "link" => node.perm = w.node.perm

(***************************************************************************)
(* Everything that is to be copied is in the image, with its contents,     *)
(* mode and owner, or what was copied there later; whether the command was *)
(* executed or a layer from the cache took its place.                      *)
(***************************************************************************)
CopiedIsInImage ==
    LET holds(W) ==
            \A i \in DOMAIN W :
                \/ Looks(Image[Place(W[i])], W[i])
                \/ \E j \in i + 1 .. Len(W) : Place(W[j]) = Place(W[i])
    IN pc = "done" => holds(Wanted)

(***************************************************************************)
(* Nothing else in the image has changed: what differs is what was copied, *)
(* a directory made for it, or was below what a copied file replaced.  So  *)
(* nothing that .dockerignore excludes gets in.                            *)
(***************************************************************************)
RestIsKept ==
    LET explains(p, q) ==
            \/ p = q
            \/ Below(q, p) /\ build.base[p].kind = "none"
            \/ Below(p, q) /\ Image[q].kind # "dir"
        holds(W) ==
            \A p \in Path : Image[p] # build.base[p] =>
                \E i \in DOMAIN W : explains(p, Place(W[i]))
    IN pc = "done" => holds(Wanted)

(***************************************************************************)
(* README: "After each command, we append a layer of changed files to the  *)
(* base image": the layer turns the base into what is on disk.             *)
(***************************************************************************)
LayerIsComplete ==
    pc = "done" => \A p \in Path : ~Ignores(p) => Image[p] = fs[p]

(***************************************************************************)
(* The layer of a command that copies something holds what it copies, the  *)
(* directories above it, the links on the way and what copied links lead   *)
(* to, and nothing else of the image.                                      *)
(***************************************************************************)
LayerHoldsOnlyCopies ==
    LET holds(W) ==
            W # << >> => \A p \in layer.adds : \E i \in DOMAIN W :
                \E q \in {W[i].to, Place(W[i]), Stat(Image, W[i].to).path} : HasPrefix(q, p)
    IN pc = "done" => holds(Wanted)

=============================================================================
