---------------------------- MODULE StageBuilder ----------------------------
(***************************************************************************)
(* pkg/executor/build.go, stageBuilder: building one stage of a Dockerfile *)
(* with the layer cache.  Several builders, each in its own container,     *)
(* run at once and share one cache repository.                             *)
(*                                                                         *)
(* A build first walks the commands to replace those whose layer is in the *)
(* cache (optimize), unpacks the base image if a remaining command needs   *)
(* it, then executes the commands, cutting a layer after each and pushing  *)
(* it to the cache in the background, and at the end waits for the pushes. *)
(*                                                                         *)
(* Commands: RUN, COPY (ADD is a COPY that is never cached), WORKDIR and   *)
(* ENV (which stands for every command that only edits the config).        *)
(* Nothing else writes to a builder's file system here, and it has neither *)
(* links nor ignored paths: the module Snapshotter is about those.  Every  *)
(* mtime is 0, the contents tell files apart.                              *)
(***************************************************************************)
EXTENDS LayeredMap

CONSTANTS
    Builder,     \* builds that run at the same time
    Job,         \* what a build may be asked to do, see JobAssumption
    BaseTree,    \* the file system of each base image, by digest
    None         \* no value: an empty variable, an excluded file, no layer

(***************************************************************************)
(* A file system: a tree of nodes, whose files may hold anything.          *)
(***************************************************************************)
IsNode(n) == n = [kind |-> n.kind, perm |-> n.perm, mtime |-> n.mtime, data |-> n.data]

IsDisk(d) == d = [p \in Path |-> d[p]] /\ (\A p \in Path : IsNode(d[p])) /\ IsTree(d)

(***************************************************************************)
(* A command with the value a of its build argument.  A COPY and a WORKDIR *)
(* have a destination, a RUN may have one; nothing removes the root.       *)
(***************************************************************************)
IsCommand(cmd, a) ==
    /\ cmd.op \in {"RUN", "COPY", "WORKDIR", "ENV"}
    /\ cmd.dst[a] \in Path \/ (cmd.dst[a] = None /\ cmd.op \in {"RUN", "ENV"})
    /\ cmd.removes \subseteq Path \ {Root}

ASSUME NoneAssumption == None \notin Path /\ \A S \in SUBSET Path : None # S

ASSUME JobAssumption ==
    \A j \in Job :
        /\ {"base", "cmds", "ctx", "arg", "Cache", "CacheCopyLayers", "CacheRunLayers",
            "SingleSnapshot", "RunV2", "NoPushCache", "ForceBuildMetadata",
            "crossStageDeps"} = DOMAIN j
        /\ {j.Cache, j.CacheCopyLayers, j.CacheRunLayers, j.SingleSnapshot, j.RunV2,
            j.NoPushCache, j.ForceBuildMetadata, j.crossStageDeps} \subseteq BOOLEAN
        /\ j.base \in DOMAIN BaseTree /\ IsDisk(BaseTree[j.base])
        /\ Len(j.cmds) \in Nat \ {0} /\ DOMAIN j.cmds = 1 .. Len(j.cmds)
        /\ \A i \in DOMAIN j.cmds : IsCommand(j.cmds[i], j.arg)

VARIABLES
    job,         \* what each builder builds
    pc,          \* "optimize", "build", "done" or "failed"
    index,       \* the command the builder is at
    compositeKey,\* the key of the commands before index
    lookups,     \* the keys optimize() computed, by command
    env,         \* the variables set by ENV in the config
    stopCache,   \* optimize() has missed
    cached,      \* the layers that replace commands, by command
    fs,          \* the file system under config.RootDir
    l,           \* the LayeredMap of the builder's snapshotter
    initSnapshotTaken,
    layers,      \* the layers of the image, each with the command it is for
    pushes,      \* cacheGroup: pushes under way
    registry,    \* the cache repository: layers by key
    lost         \* history: a push of the builder has failed

vars == <<job, pc, index, compositeKey, lookups, env, stopCache, cached, fs, l,
          initSnapshotTaken, layers, pushes, registry, lost>>

-----------------------------------------------------------------------------
(***************************************************************************)
(* Files.                                                                  *)
(***************************************************************************)
NewDir == [Absent EXCEPT !.kind = "dir"]

NewFile(x) == [kind |-> "file", perm |-> Absent.perm, mtime |-> Absent.mtime, data |-> x]

EmptyTree == [p \in Path |-> IF p = Root THEN NewDir ELSE Absent]

CanPut(d, p) ==
    /\ \A q \in ParentDirectories(p) : d[q].kind \in {"none", "dir"}
    /\ d[p].kind # "dir"

(***************************************************************************)
(* A node written at p, with the missing directories above it.             *)
(***************************************************************************)
Put(d, p, node) ==
    [q \in Path |-> IF q = p THEN node
                    ELSE IF q \in ParentDirectories(p) /\ ~Exists(d, q) THEN NewDir
                    ELSE d[q]]

RemoveAll(d, S) == [q \in Path |-> IF \E p \in S : HasPrefix(q, p) THEN Absent ELSE d[q]]

-----------------------------------------------------------------------------
(***************************************************************************)
(* Commands.  A RUN writes to the file run.dst something that depends on   *)
(* its text, its environment and a file it reads, and removes files.  A    *)
(* COPY copies one file of the context; its destination may depend on a    *)
(* build argument.                                                         *)
(***************************************************************************)
ShouldCacheOutput(j, cmd) ==
    \/ cmd.op = "RUN" /\ j.CacheRunLayers
    \/ cmd.op = "COPY" /\ j.CacheCopyLayers

RequiresUnpackedFS(cmd) == cmd.op \in {"RUN", "COPY"}

MetadataOnly(cmd) == cmd.op = "ENV"

ProvidesFilesToSnapshot(j, cmd) == cmd.op # "RUN" \/ j.RunV2

ShouldDetectDeletedFiles(j, cmd) == cmd.op = "RUN" /\ j.RunV2

(***************************************************************************)
(* CopyFile of a file of the context, None if .dockerignore excludes it.   *)
(***************************************************************************)
CopyFile(j, src, d, p) == IF j.ctx[src] = None THEN d ELSE Put(d, p, NewFile(j.ctx[src]))

(***************************************************************************)
(* The effect of a command on a file system and an environment.            *)
(***************************************************************************)
CanExecute(j, cmd, d) ==
    LET p == cmd.dst[j.arg]
    IN p # None => CanPut(d, p) \/ (cmd.op = "WORKDIR" /\ d[p].kind = "dir")

Execute(j, cmd, d, e) ==
    LET p == cmd.dst[j.arg]
    IN CASE cmd.op = "RUN" ->
              RemoveAll(IF p = None THEN d
                        ELSE Put(d, p, NewFile(<<cmd.text, e, j.arg, d[cmd.reads].data>>)),
                        cmd.removes)
         [] cmd.op = "COPY" ->
              CopyFile(j, cmd.src, d, p)
         [] cmd.op = "WORKDIR" -> IF Exists(d, p) THEN d ELSE Put(d, p, NewDir)
         [] cmd.op = "ENV" -> d

EnvAfter(cmd, e) == IF MetadataOnly(cmd) THEN cmd.text ELSE e

(***************************************************************************)
(* The paths of d2 whose os.FileInfo is not the one it was in d; that of a *)
(* directory changes with its entries.                                     *)
(***************************************************************************)
GetFSInfoMap(d, d2) ==
    {p \in Path : /\ Exists(d2, p)
                  /\ \/ d2[p] # d[p]
                     \/ \E q \in Path \ {Root} :
                          Dir(q) = p /\ Exists(d, q) # Exists(d2, q)}

(***************************************************************************)
(* FilesToSnapshot after the command has turned d into d2; None is nil.    *)
(* A COPY that copied nothing still has a nil list.                        *)
(***************************************************************************)
FilesToSnapshot(j, cmd, d, d2) ==
    CASE cmd.op = "RUN" ->
           IF j.RunV2 THEN GetFSInfoMap(d, d2) ELSE None
      [] cmd.op = "COPY" -> IF j.ctx[cmd.src] = None THEN None ELSE {cmd.dst[j.arg]}
      [] cmd.op = "WORKDIR" -> IF d = d2 THEN {} ELSE {cmd.dst[j.arg]}
      [] cmd.op = "ENV" -> {}

\* Mutant: the contents of what COPY copies are left out.
keyWithoutContents(key, j, cmd, e) ==
    key \o (IF cmd.op = "RUN" THEN <<e, j.arg>> ELSE << >>) \o <<cmd.text>>

(***************************************************************************)
(* populateCompositeKey: what a command adds to the key.  Only RUN adds    *)
(* the variables; COPY adds the contents of what it copies.                *)
(***************************************************************************)
populateCompositeKey(key, j, cmd, e) ==
    key \o (IF cmd.op = "RUN" THEN <<e, j.arg>> ELSE << >>)
        \o <<cmd.text>>
        \o (IF cmd.op = "COPY" /\ j.ctx[cmd.src] # None THEN <<j.ctx[cmd.src]>> ELSE << >>)

-----------------------------------------------------------------------------
(***************************************************************************)
(* The snapshotter on a file system that is left alone: the steps of the   *)
(* module Snapshotter in one.                                              *)
(***************************************************************************)
scanFullFilesystem(m, d) ==
    LET l1 == Snapshot(m)
        W == {p \in Path : Exists(d, p)}
        l2 == CheckFileChanges(l1, d, W)
        files == filesWithParentDirs(ChangedFiles(l1, d, W))
        deleted == GetCurrentPaths(l2) \ W
    IN [l |-> AddDelete(Add(l2, d, files), deleted),
        layer |-> writeToTar(d, files, removeObsoleteWhiteouts(deleted))]

TakeSnapshot(m, d, files, shdCheckDelete, forceBuildMetadata) ==
    LET l1 == Snapshot(m)
        l2 == Add(l1, d, filesWithParentDirs(files))
        deleted == IF shdCheckDelete THEN GetCurrentPaths(l2) \ {p \in Path : Exists(d, p)}
                   ELSE {}
    IN IF files = {} /\ ~forceBuildMetadata THEN [l |-> l1, layer |-> None]
       ELSE [l |-> AddDelete(l2, deleted),
             layer |-> writeToTar(d, filesWithParentDirs(files),
                                  removeObsoleteWhiteouts(deleted))]

(***************************************************************************)
(* stageBuilder.takeSnapshot.                                              *)
(***************************************************************************)
takeSnapshot(j, m, d, files, shdDelete) ==
    IF files = None \/ j.SingleSnapshot THEN scanFullFilesystem(m, d)
    ELSE TakeSnapshot(m, d, files, shdDelete, j.ForceBuildMetadata)

\* Mutant: off by one.
snapshotBeforeLast(j, i) ==
    \/ j.ForceBuildMetadata
    \/ IF j.SingleSnapshot THEN i = Len(j.cmds) - 1
       ELSE j.Cache \/ ~MetadataOnly(j.cmds[i])

shouldTakeSnapshot(j, i) ==
    \/ j.ForceBuildMetadata
    \/ IF j.SingleSnapshot THEN i = Len(j.cmds)
       ELSE j.Cache \/ ~MetadataOnly(j.cmds[i])

(***************************************************************************)
(* Is the layer cut for a command pushed to the cache?                     *)
(***************************************************************************)
pushesLayer(j, cmd) == j.Cache /\ ShouldCacheOutput(j, cmd) /\ ~j.NoPushCache

(***************************************************************************)
(* Does optimize ask the cache for the layer of a command?                 *)
(***************************************************************************)
looksUp(j, cmd, stop) == ShouldCacheOutput(j, cmd) /\ ~stop

\* Mutant: optimize leaves the config alone.
optimizedEnvUnset(cmd, e) == e

(***************************************************************************)
(* optimize executes the commands that only edit the config on its copy.   *)
(***************************************************************************)
optimizedEnv(cmd, e) == EnvAfter(cmd, e)

(***************************************************************************)
(* saveLayerToImage: the layer goes on top of the image, after a change of *)
(* its media type, which leaves its entries alone.                         *)
(***************************************************************************)
saveLayerToImage(img, i, layer) == Append(img, [cmd |-> i, layer |-> layer])

(***************************************************************************)
(* saveSnapshotToImage: a tarball with nothing in it makes no layer, and   *)
(* there may be no tarball.                                                *)
(***************************************************************************)
saveSnapshotToImage(j, img, i, layer) ==
    IF \/ layer = None
       \/ layer.adds = {} /\ layer.whiteouts = {} /\ ~j.ForceBuildMetadata
    THEN img
    ELSE saveLayerToImage(img, i, layer)

-----------------------------------------------------------------------------
Init ==
    /\ job \in [Builder -> Job]
    /\ pc = [b \in Builder |-> "optimize"]
    /\ index = [b \in Builder |-> 1]
    /\ compositeKey = [b \in Builder |-> <<job[b].base>>]
    /\ lookups = [b \in Builder |-> << >>]
    /\ env = [b \in Builder |-> None]
    /\ stopCache = [b \in Builder |-> FALSE]
    /\ cached = [b \in Builder |-> [i \in DOMAIN job[b].cmds |-> None]]
    /\ fs = [b \in Builder |-> EmptyTree]
    /\ \E mode \in SnapshotModes : l = [b \in Builder |-> NewLayeredMap(mode)]
    /\ initSnapshotTaken = [b \in Builder |-> FALSE]
    /\ layers = [b \in Builder |-> << >>]
    /\ pushes = [b \in Builder |-> {}]
    /\ registry = << >>
    /\ lost = [b \in Builder |-> FALSE]

(***************************************************************************)
(* RetrieveLayer, from a registry or from a layout on disk: the layer      *)
(* stored under the tag that Destination makes of the key, or an error.    *)
(* The entry may have expired, the registry may not answer.                *)
(***************************************************************************)
RetrieveLayer(key) == {None} \cup {registry[k] : k \in {key} \cap DOMAIN registry}

(***************************************************************************)
(* optimize, one command.  A lookup that fails for whatever reason counts  *)
(* as a miss and ends the use of the cache.  Commands that only touch the  *)
(* config are executed on a copy of it.                                    *)
(***************************************************************************)
optimize(b) ==
    LET j == job[b]
        cmd == j.cmds[index[b]]
        key == populateCompositeKey(compositeKey[b], j, cmd, env[b])
        lookup == looksUp(j, cmd, stopCache[b])
    IN /\ pc[b] = "optimize"
       /\ j.Cache /\ index[b] <= Len(j.cmds)
       /\ compositeKey' = [compositeKey EXCEPT ![b] = key]
       /\ lookups' = [lookups EXCEPT ![b] = Append(@, key)]
       /\ env' = [env EXCEPT ![b] = optimizedEnv(cmd, @)]
       /\ index' = [index EXCEPT ![b] = @ + 1]
       /\ \E image \in IF lookup THEN RetrieveLayer(key) ELSE {None} :
            /\ cached' = [cached EXCEPT ![b][index[b]] = image]
            /\ stopCache' = [stopCache EXCEPT ![b] = @ \/ (lookup /\ image = None)]
       /\ UNCHANGED <<job, pc, fs, l, initSnapshotTaken, layers, pushes, registry, lost>>

(***************************************************************************)
(* build up to its loop: the metadata of optimize is thrown away, the base *)
(* is unpacked when a command that is left asks for it or a later stage    *)
(* copies from this one.                                                   *)
(***************************************************************************)
unpack(b) ==
    LET j == job[b]
        shouldUnpack == \/ \E i \in DOMAIN j.cmds :
                             cached[b][i] = None /\ RequiresUnpackedFS(j.cmds[i])
                        \/ j.crossStageDeps
        d == IF shouldUnpack THEN BaseTree[j.base] ELSE EmptyTree
    IN /\ pc[b] = "optimize"
       /\ j.Cache => index[b] > Len(j.cmds)
       /\ pc' = [pc EXCEPT ![b] = "build"]
       /\ index' = [index EXCEPT ![b] = 1]
       /\ compositeKey' = [compositeKey EXCEPT ![b] = <<j.base>>]
       /\ env' = [env EXCEPT ![b] = None]
       /\ fs' = [fs EXCEPT ![b] = d]
       /\ l' = [l EXCEPT ![b] = IF j.SingleSnapshot THEN scanFullFilesystem(@, d).l ELSE @]
       /\ initSnapshotTaken' = [initSnapshotTaken EXCEPT ![b] = j.SingleSnapshot]
       /\ UNCHANGED <<job, lookups, stopCache, cached, layers, pushes, registry, lost>>

(***************************************************************************)
(* CachingRunCommand and CachingCopyCommand: the cached layer is extracted.*)
(* The files that IncludeWhiteout leaves on the disk for its whiteouts are *)
(* not modelled: no path here has such a name.                             *)
(***************************************************************************)
ExecuteCached(d, layer) == ApplyLayer(d, layer)

(***************************************************************************)
(* One command of build's loop whose layer was in the cache: it goes to    *)
(* the file system and to the image; the snapshotter is not told.          *)
(***************************************************************************)
buildCached(b) ==
    LET j == job[b]
        i == index[b]
    IN /\ pc[b] = "build" /\ i <= Len(j.cmds) /\ cached[b][i] # None
       /\ compositeKey' = [compositeKey EXCEPT
              ![b] = populateCompositeKey(@, j, j.cmds[i], env[b])]
       /\ fs' = [fs EXCEPT ![b] = ExecuteCached(@, cached[b][i])]
       /\ layers' = IF shouldTakeSnapshot(j, i)
                    THEN [layers EXCEPT ![b] = saveLayerToImage(@, i, cached[b][i])]
                    ELSE layers
       /\ index' = [index EXCEPT ![b] = i + 1]
       /\ UNCHANGED <<job, pc, lookups, env, stopCache, cached, l, initSnapshotTaken,
                      pushes, registry, lost>>

(***************************************************************************)
(* One command of build's loop that is executed.  The base file system is  *)
(* scanned before the first command that will not list its files.          *)
(***************************************************************************)
buildCommand(b) ==
    LET j == job[b]
        i == index[b]
        cmd == j.cmds[i]
        key == IF j.Cache THEN populateCompositeKey(compositeKey[b], j, cmd, env[b])
               ELSE compositeKey[b]
        scan == ~initSnapshotTaken[b] /\ ~ProvidesFilesToSnapshot(j, cmd)
        l1 == IF scan THEN scanFullFilesystem(l[b], fs[b]).l ELSE l[b]
        d == Execute(j, cmd, fs[b], env[b])
        snap == takeSnapshot(j, l1, d, FilesToSnapshot(j, cmd, fs[b], d),
                             ShouldDetectDeletedFiles(j, cmd))
    IN /\ pc[b] = "build" /\ i <= Len(j.cmds) /\ cached[b][i] = None
       /\ CanExecute(j, cmd, fs[b])
       /\ compositeKey' = [compositeKey EXCEPT ![b] = key]
       /\ initSnapshotTaken' = [initSnapshotTaken EXCEPT ![b] = @ \/ scan]
       /\ fs' = [fs EXCEPT ![b] = d]
       /\ env' = [env EXCEPT ![b] = EnvAfter(cmd, @)]
       /\ index' = [index EXCEPT ![b] = i + 1]
       /\ IF shouldTakeSnapshot(j, i)
          THEN /\ l' = [l EXCEPT ![b] = snap.l]
               /\ layers' = [layers EXCEPT ![b] = saveSnapshotToImage(j, @, i, snap.layer)]
               /\ pushes' = IF pushesLayer(j, cmd)
                            THEN [pushes EXCEPT
                                    ![b] = @ \cup {[key |-> key, layer |-> snap.layer]}]
                            ELSE pushes
          ELSE l' = [l EXCEPT ![b] = l1] /\ UNCHANGED <<layers, pushes>>
       /\ UNCHANGED <<job, pc, lookups, stopCache, cached, registry, lost>>

(***************************************************************************)
(* The base or a cached layer cannot be unpacked, or a command fails: the  *)
(* build ends and does not wait for its pushes, which die with the         *)
(* process.                                                                *)
(***************************************************************************)
commandFails(b) ==
    /\ \/ pc[b] = "optimize" /\ (job[b].Cache => index[b] > Len(job[b].cmds))
       \/ /\ pc[b] = "build" /\ index[b] <= Len(job[b].cmds)
          /\ ~MetadataOnly(job[b].cmds[index[b]])
    /\ pc' = [pc EXCEPT ![b] = "failed"]
    /\ pushes' = [pushes EXCEPT ![b] = {}]
    /\ UNCHANGED <<job, index, compositeKey, lookups, env, stopCache, cached, fs, l,
                   initSnapshotTaken, layers, registry, lost>>

(***************************************************************************)
(* A push in the background ends.  A snapshot of no files has no tarball,  *)
(* and its push always fails; others may.                                  *)
(***************************************************************************)
pushLayerToCache(b, e) ==
    /\ e \in pushes[b]
    /\ pushes' = [pushes EXCEPT ![b] = @ \ {e}]
    /\ \/ /\ e.layer # None
          /\ registry' = [k \in DOMAIN registry \cup {e.key} |->
                            IF k = e.key THEN e.layer ELSE registry[k]]
          /\ UNCHANGED lost
       \/ /\ lost' = [lost EXCEPT ![b] = TRUE]
          /\ UNCHANGED registry
    /\ UNCHANGED <<job, pc, index, compositeKey, lookups, env, stopCache, cached, fs, l,
                   initSnapshotTaken, layers>>

\* Mutants: the build ends with pushes under way; it never ends after a failed one.
waitForNothing(b) ==
    /\ pc[b] = "build" /\ index[b] > Len(job[b].cmds)
    /\ pc' = [pc EXCEPT ![b] = "done"]
    /\ pushes' = [pushes EXCEPT ![b] = {}]
    /\ UNCHANGED <<job, index, compositeKey, lookups, env, stopCache, cached, fs, l,
                   initSnapshotTaken, layers, registry, lost>>
waitForSuccess(b) ==
    /\ pc[b] = "build" /\ index[b] > Len(job[b].cmds)
    /\ pushes[b] = {} /\ ~lost[b]
    /\ pc' = [pc EXCEPT ![b] = "done"]
    /\ UNCHANGED <<job, index, compositeKey, lookups, env, stopCache, cached, fs, l,
                   initSnapshotTaken, layers, pushes, registry, lost>>

(***************************************************************************)
(* cacheGroup.Wait() after the loop; an error is only logged.              *)
(***************************************************************************)
wait(b) ==
    /\ pc[b] = "build" /\ index[b] > Len(job[b].cmds)
    /\ pushes[b] = {}
    /\ pc' = [pc EXCEPT ![b] = "done"]
    /\ UNCHANGED <<job, index, compositeKey, lookups, env, stopCache, cached, fs, l,
                   initSnapshotTaken, layers, pushes, registry, lost>>

build(b) == unpack(b) \/ buildCached(b) \/ commandFails(b) \/ buildCommand(b) \/ wait(b)

Next ==
    \E b \in Builder :
        optimize(b) \/ build(b) \/ \E e \in pushes[b] : pushLayerToCache(b, e)

(***************************************************************************)
(* Where a builder waits for others: for a registry that has the layer of  *)
(* a command or the base, for what a RUN has started or a COPY downloads,  *)
(* and in cacheGroup.Wait() for pushes.  Nothing sets a time-out for any   *)
(* of them (MakeTransport leaves the default, which has none for answers), *)
(* so each may take for ever.                                              *)
(***************************************************************************)
Waits(b) ==
    LET j == job[b]
        i == index[b]
        inLoop == i <= Len(j.cmds)
    IN \/ /\ pc[b] = "optimize"
          /\ j.Cache /\ inLoop => looksUp(j, j.cmds[i], stopCache[b])
       \/ /\ pc[b] = "build"
          /\ IF inLoop THEN j.cmds[i].op \in {"RUN", "COPY"} ELSE pushes[b] # {}

(***************************************************************************)
(* A builder goes on where it does not wait for others.  Nothing says that *)
(* what it waits for ever happens, nor that a push ever ends.              *)
(***************************************************************************)
Fairness == \A b \in Builder : WF_vars(~Waits(b) /\ (build(b) \/ optimize(b)))

Spec == Init /\ [][Next]_vars /\ Fairness

-----------------------------------------------------------------------------
(***************************************************************************)
(* Properties.                                                             *)
(***************************************************************************)

(***************************************************************************)
(* What the Dockerfile says: the file system and the environment after the *)
(* first n commands, executed on the base image one after the other, and   *)
(* the key of those commands.                                              *)
(***************************************************************************)
MeaningOf(j) ==
    LET m[n \in 0 .. Len(j.cmds)] ==
            IF n = 0 THEN [fs |-> BaseTree[j.base], env |-> None, key |-> <<j.base>>]
            ELSE LET before == m[n - 1]
                 IN [fs |-> Execute(j, j.cmds[n], before.fs, before.env),
                     env |-> EnvAfter(j.cmds[n], before.env),
                     key |-> populateCompositeKey(before.key, j, j.cmds[n], before.env)]
    IN m

Meaning == [j \in Job |-> [n \in 0 .. Len(j.cmds) |-> MeaningOf(j)[n]]]

ImageOf(j, ls) ==
    LET img[n \in 0 .. Len(ls)] ==
            IF n = 0 THEN BaseTree[j.base]
            ELSE ApplyLayer(img[n - 1], ls[n].layer)
    IN img[Len(ls)]

(***************************************************************************)
(* The state has its types; only builds with --cache push layers.          *)
(***************************************************************************)
TypeOK ==
    /\ job \in [Builder -> Job]
    /\ pc \in [Builder -> {"optimize", "build", "done", "failed"}]
    /\ \A b \in Builder :
         /\ index[b] \in 1 .. Len(job[b].cmds) + 1
         /\ DOMAIN cached[b] = DOMAIN job[b].cmds
         /\ IsTree(fs[b])
         /\ pushes[b] # {} => job[b].Cache
    /\ stopCache \in [Builder -> BOOLEAN]
    /\ initSnapshotTaken \in [Builder -> BOOLEAN]
    /\ lost \in [Builder -> BOOLEAN]

(***************************************************************************)
(* Refinement: the builders do what the module StageBuild promises.  The   *)
(* image is the layers appended so far over the base; whatever was taken   *)
(* from the cache, whenever the base was scanned and however the layers    *)
(* were cut, it goes through the file systems that the Dockerfile's        *)
(* commands make, a layer for each command that changes something, and     *)
(* ends with the last.                                                     *)
(***************************************************************************)
Stage == INSTANCE StageBuild WITH
    Commands <- LAMBDA j : Len(j.cmds),
    Tree <- LAMBDA j, n : Meaning[j][n].fs,
    OneLayer <- LAMBDA j : j.SingleSnapshot,
    taken <- [b \in Builder |->
                IF pc[b] = "done" THEN Len(job[b].cmds)
                ELSE IF layers[b] = << >> THEN 0
                ELSE layers[b][Len(layers[b])].cmd],
    image <- [b \in Builder |-> ImageOf(job[b], layers[b])],
    status <- [b \in Builder |->
                IF pc[b] \in {"done", "failed"} THEN pc[b] ELSE "building"]

ImageIsMeant == Stage!Spec

(***************************************************************************)
(* A layer in the cache is right for every build that may find it: if the  *)
(* commands of a Dockerfile up to n have the key of the layer, laying it   *)
(* over what the commands before n make gives what executing command n     *)
(* would (README: kaniko will "extract the cached layer instead of         *)
(* executing the command").                                                *)
(***************************************************************************)
CachedLayersAreRight ==
    \A j \in Job : \A n \in DOMAIN j.cmds :
        LET key == Meaning[j][n].key
        IN j.Cache /\ ShouldCacheOutput(j, j.cmds[n]) /\ key \in DOMAIN registry =>
             ApplyLayer(Meaning[j][n - 1].fs, registry[key]) = Meaning[j][n].fs

(***************************************************************************)
(* The two passes over the commands compute the same keys, although the    *)
(* first executes only the commands that edit the config and the second    *)
(* sees commands replaced by their cached versions: a layer is pushed      *)
(* under the key that the next build will look up.                         *)
(***************************************************************************)
KeysAgree ==
    \A b \in Builder :
        pc[b] = "build" /\ job[b].Cache /\ index[b] > 1 =>
            compositeKey[b] = lookups[b][index[b] - 1]

(***************************************************************************)
(* What command i names as its destination, and what it touches: that, the *)
(* paths it changes, and the directories above.                            *)
(***************************************************************************)
Named(j, i) ==
    LET cmd == j.cmds[i]
    IN IF cmd.dst[j.arg] = None \/ (cmd.op = "COPY" /\ j.ctx[cmd.src] = None) THEN {}
       ELSE {cmd.dst[j.arg]}

Touched(j, i) ==
    filesWithParentDirs(
        {p \in Path : Meaning[j][i - 1].fs[p] # Meaning[j][i].fs[p]} \cup Named(j, i))

(***************************************************************************)
(* copy.go: a command after which "no files were changed" gets no files:   *)
(* a layer cut for a command has only what the command changed, and the    *)
(* directories above.                                                      *)
(***************************************************************************)
LayersHoldOnlyChanges ==
    \A b \in Builder : ~job[b].SingleSnapshot =>
        \A n \in DOMAIN layers[b] :
            layers[b][n].layer.adds \subseteq Touched(job[b], layers[b][n].cmd)

(***************************************************************************)
(* When a build that may push is over and none of its pushes failed, every *)
(* layer the next build of the same Dockerfile will ask for is there: the  *)
(* build does not end before its pushes.                                   *)
(***************************************************************************)
CacheIsFilled ==
    \A b \in Builder :
        /\ pc[b] = "done" /\ ~lost[b]
        /\ job[b].Cache /\ ~job[b].NoPushCache /\ ~job[b].SingleSnapshot
        => \A n \in DOMAIN job[b].cmds :
             ShouldCacheOutput(job[b], job[b].cmds[n]) =>
                Meaning[job[b]][n].key \in DOMAIN registry

(***************************************************************************)
(* The jobs for which the image is what the Dockerfile says, whatever they *)
(* find in the cache.  Outside them the code does make other images:       *)
(*  - a COPY is taken from the cache only if RUN is as well, since the     *)
(*    snapshotter is not told of a layer that is extracted after the scan  *)
(*    before a RUN, and would miss that a later command removes its files; *)
(*  - --single-snapshot is used without a cache, without forced metadata   *)
(*    layers and on a base that is unpacked;                               *)
(*  - --use-new-run is used without a cache and for commands that remove   *)
(*    nothing of the base image, of which the snapshotter knows nothing;   *)
(*  - a WORKDIR that may be executed where the base was not unpacked makes *)
(*    or finds directories as MkdirAll makes them.                         *)
(***************************************************************************)
AlwaysUnpacks(j) ==
    \/ j.crossStageDeps
    \/ \E i \in DOMAIN j.cmds :
         RequiresUnpackedFS(j.cmds[i]) /\ ~(j.Cache /\ ShouldCacheOutput(j, j.cmds[i]))

Plain(j) ==
    /\ j.Cache /\ j.CacheCopyLayers => j.CacheRunLayers
    /\ j.SingleSnapshot => ~j.Cache /\ ~j.ForceBuildMetadata /\ AlwaysUnpacks(j)
    /\ j.RunV2 => /\ ~j.Cache
                  /\ \A i \in DOMAIN j.cmds : \A p \in j.cmds[i].removes :
                        ~Exists(BaseTree[j.base], p)
    /\ \/ AlwaysUnpacks(j)
       \/ \A i \in DOMAIN j.cmds : j.cmds[i].op = "WORKDIR" =>
             \A q \in filesWithParentDirs({j.cmds[i].dst[j.arg]}) :
                 Meaning[j][i].fs[q] = NewDir

(***************************************************************************)
(* The words of a key tell what a command does: commands of one text are   *)
(* the same, a build argument that the key leaves out is not where a COPY  *)
(* or WORKDIR goes, and the hash of a file is not the text of a command.   *)
(***************************************************************************)
TextsTell(jobs) ==
    \A j, k \in jobs : \A n \in DOMAIN j.cmds, m \in DOMAIN k.cmds :
        LET c == j.cmds[n]
            d == k.cmds[m]
        IN /\ c.text = d.text => c = d /\ (c.op # "RUN" => c.dst[j.arg] = d.dst[k.arg])
           /\ c.op = "COPY" /\ j.ctx[c.src] # None => j.ctx[c.src] # d.text

(***************************************************************************)
(* No COPY of the job copies nothing.                                      *)
(***************************************************************************)
CopiesFiles(j) ==
    \A i \in DOMAIN j.cmds : j.cmds[i].op = "COPY" => j.ctx[j.cmds[i].src] # None

(***************************************************************************)
(* A build ends, even if pushes to the cache fail, unless it is left       *)
(* waiting for ever for a registry, a command or one of its own pushes     *)
(* that is still under way.  What another build waits for does not stop    *)
(* it, nor does a push that has failed.                                    *)
(***************************************************************************)
BuildsEnd == \A b \in Builder : <>(pc[b] \in {"done", "failed"}) \/ <>[]Waits(b)

=============================================================================
