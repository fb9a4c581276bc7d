# A verification of the kaniko executor

kaniko builds container images from a Dockerfile inside a container, without a
Docker daemon: it unpacks the base image over its own root directory (or over
`/kaniko/sandbox` with `--sandbox`), executes the commands of the Dockerfile
there, and after each of them cuts a layer out of what has changed. This
directory holds TLA+ models of the parts of that program that carry its logic,
TLC configurations that check them on small instances, and TLAPS proofs of what
matters most in them. `src/` below is the root of the repository; every
definition that models code is listed with its lines in `PROJECT.json` under
`map`.

## 1. The system

| part | code | state | operations |
|---|---|---|---|
| Snapshotter | `pkg/snapshot/snapshot.go`, `pkg/filesystem/resolve.go` | the layered map; the files on disk | `Init`, `TakeSnapshot(files, shdCheckDelete, forceBuildMetadata)`, `TakeSnapshotFS` |
| Layered map | `pkg/snapshot/layered_map.go` | hashes of the files of the image: merged map, last layer's additions and deletions, validity flag, hash cache | `Snapshot`, `Add`, `AddDelete`, `CheckFileChange`, `GetCurrentPaths` |
| Layer extraction | `pkg/util/fs_util.go` | the disk, the ignore list | `GetFSFromLayers`, `ExtractFile`, `DeleteFilesystem` |
| Stage builder | `pkg/executor/build.go` (`stageBuilder`), `pkg/commands/*` | commands, composite key, config, image, pushes in flight | `optimize`, `build`, `takeSnapshot`, `saveSnapshotToImage` |
| Layer cache | `pkg/cache/cache.go`, `pkg/executor/composite_cache.go` | a repository (or OCI layout) of layers by key | `RetrieveLayer`, `pushLayerToCache` |
| Stages | `pkg/dockerfile/dockerfile.go`, `pkg/executor/build.go` (`DoBuild`) | list of stages, saved images and files, `digestToCacheKey` | `MakeKanikoStages`, `CalculateDependencies`, `fetchExtraStages`, the loop of `DoBuild` |
| Base images | `pkg/image/remote/remote.go`, `pkg/image/image_util.go`, `LocalSource` in `pkg/cache/cache.go` | `manifestCache`; the directory of warmed images | `RetrieveRemoteImage`, `RetrieveSourceImage`, `cachedImage` |
| Warmer | `pkg/cache/warm.go`, `cmd/warmer` | temporary files, the same directory | `WarmCache`, `warmToFile`, `Warm` |
| Push | `pkg/executor/push.go`, `util.Retry` | digest file, name file, layout, tarball, registries | `CheckPushPermissions`, `DoPush`, `pushLayerToCache` |
| COPY and ADD | `pkg/commands/copy.go`, `add.go`, `pkg/util/command_util.go`, `fs_util.go` | the disk, the build context, the cache key | `ExecuteCommand`, `ResolveEnvAndWildcards`, `CopyDir`, `CopyFile`, `AddPath` |
| RUN | `pkg/commands/run.go`, `proot_provision.go`, `pkg/util/sandbox_*.go` | a process and its group, stubs of `/proc`, the proot binary | `runCommandInExec`, `UpdateSandboxProcSelfStub`, `provisionProot` |
| Metadata commands and arguments | the other `pkg/commands/*.go`, `pkg/dockerfile/buildargs.go` | the configuration, arguments before and in stages, the instructions themselves | `ExecuteCommand` of each, `ReplacementEnvs`, `resolveOnBuild`, `reviewConfig` |
| Executor command | `cmd/executor/cmd/root.go` | the sandbox directory, its mounts, a signal handler | `setupSandbox`, `installSandboxCleanup`, `teardownSandboxIfActive`, `exit` |

How they interact. `RootCmd.Run` checks push permissions, calls `DoBuild`, then
`DoPush`. `DoBuild` plans the stages and builds them one after the other on one
file system, which it deletes in between; it keeps the images that later stages
are built from as tarballs and the files that they copy below `/kaniko`. A stage
builder calls the image code for its base, the layer cache for layers that can
replace commands, the extraction code to unpack either, and the snapshotter
after each command. Layers go to the cache through the same `DoPush` as the
image does, from goroutines that run beside the build. Several executors, on
different machines, share a cache repository; executors and warmers share a
directory of base images; executors that follow each other in one container
share a sandbox directory.

What is hard in it, and hard to reach by a test:

* processes that a `RUN` left behind write and remove files while a snapshot is
  taken, and an error in the walk ends it without a word;
* the layered map is merged lazily, and vouches for files it will not look at
  again: one wrong entry and a change is missing from the image;
* what a sequence of layers gives, one on top of the other, when directories,
  files and links take each other's place, while being cut and while being
  unpacked, with a retry on a half-unpacked disk;
* cache keys must tell apart all that a layer depends on, in two passes over the
  commands that see different states;
* metadata commands are executed twice, on configurations and instructions that
  share memory, and arguments pass from stage to stage;
* a COPY goes through links, on the disk, in the list of what it copied and in
  the layer, and its key must stand for all it copies;
* the processes, users and `/proc` of a RUN in a sandbox without privileges;
* pushes in parallel that write the same output files as the image's push;
* tags that move between two retrievals of the same name; a warmer killed while
  it stores an image; mirrors that fail, and requests that have no time-out;
* an executor killed or cancelled while bind mounts of the host's `/dev` lie
  below a directory that the next executor removes.

`PROJECT.json` lists these as `hazards`, each at its line.

## 2. The modules

`MC*.tla` modules only give values to the constants of the module they are named
after.

| module | models | properties |
|---|---|---|
| `FileTree` | paths, nodes, links, tarballs, what layers give on top of each other | used by the others |
| `LayeredMap` | the layered map, as a record; each method is a function on records | used by the others |
| `Snapshotter` | snapshots in the steps in which the code reads the disk, between edits | `ImageReproducesFS`, `LostFilesComeBack`, `MapNeverVouchesWrongly`, `FailsOnlyOnRace` |
| `Extract` | unpacking layers entry by entry, under `/` and under a sandbox | `ImageIsOnDisk`, `RemovedIsGone`, `MountsAreKept`, `OnlyDisorderFails` |
| `StageBuilder` | builders of one stage that share a layer cache | `ImageIsMeant`, `CachedLayersAreRight`, `KeysAgree`, `LayersHoldOnlyChanges`, `CacheIsFilled`, `BuildsEnd` |
| `StageBuild` | what a stage builder promises: commands run one after the other on an image | the specification that `StageBuilder` refines |
| `Copy` | COPY and ADD in builds that share a layer cache | `CopiedIsInImage`, `RestIsKept`, `LayerIsComplete`, `LayerHoldsOnlyCopies` |
| `Config` | arguments and metadata commands in the two passes over each stage | `SeenIsMeant`, `MetadataIsMeant`, `CommandsAreMeant` |
| `RunCommand` | RUN as processes, under `/`, in a chroot and through proot | `ProotIsWhole`, `SelfExeServesToolchain`, `RunsAsUser`, `QuietAfterRun` |
| `MultiStage` | planning and building the stages of a Dockerfile | `TargetIsMeant`, `NothingIsMissing`, `KeysTellBasesApart` |
| `BaseImages` | warmers, executors, registries and the directory of warmed images | `OneNameOneImage`, `FilesAreWhole`, `MissingIsCounted`, `RunsEnd` |
| `Push` | one run of the executor seen from its pushes | `OutputsAreOfTheImage`, `PushedEverywhere`, `FlagsDecideWhatIsPushed`, `NoLateDenial` |
| `Sandbox` | executors with `--sandbox` that follow each other | `HostIsUntouched`, `BuildStartsFresh`, `LeavesNothing`, `SignalEndsIt` |
| `FileTreeProofs` | lemmas about paths, trees and layers | used by the proofs |
| `SnapshotterProofs`, `ExtractProofs`, `StageBuilderProofs`, `RunCommandProofs`, `BaseImagesProofs`, `PushProofs`, `SandboxProofs` | proofs about the module they are named after | section 4 |

`FileTree` is extended by `LayeredMap`, `Extract` and `Copy`; `LayeredMap` by
`Snapshotter` and `StageBuilder`, which instantiates `StageBuild`. The others
stand alone.

### FileTree and LayeredMap

A file system is a function from a finite set of paths to nodes (kind,
permissions, mtime, contents); `Absent` is the node of what is not there. A
layer is a set of entries with their nodes and a set of whiteouts, and
`ApplyLayer` is what a container runtime makes of it (the OCI rules; external to
the repository). `evalSymlinks` follows links with a bound on their number, as
the kernel does. The layered map keeps what the code reads of it: the merged map,
the last layer, the validity flag, and the hash cache. A hash is the tuple of
what `pkg/util/util.go` hashes in each of the three snapshot modes, so that
`redo` cannot see contents; sha256 is taken to have no collisions.

### Snapshotter

`fs` is the disk, `image` what base and layers give so far, `l` the layered map.
Commands edit the disk one file at a time (`WriteFile`, `Mkdir`, `Symlink`,
`Chmod`, `Remove`, `Volume`); every write takes a tick of the clock, and
`MaxTime` bounds them. A snapshot is three steps: `Scan` or `TakeSnapshot` (the
walk and the hashes), `Record` (`ResolvePaths`, the layered map), `WriteTar`
(the tarball, the layer on the image). Between them a daemon may write or remove
files (`DaemonWrite`, `DaemonRemove`). It may also remove a file that the walk is
about to hash: the callback then returns an error, `godirwalk` ends, and
`gowalkDir` drops the error (`pkg/util/fs_util.go:1312-1321`). `WalkBreaksOff` is
that case: only what was reached before the file is found (`ReachedBefore`, any
order of siblings), and all else that the map has counts as deleted.
`broke` is the history of it: never, in the last full scan, or in one before
the last. `touched` is the history of what was
edited since the last snapshot began; it is also what commands that list their
files list.

### Extract

`image` is the sequence of trees that the layers add up to, chosen while they
are read; the entries of a layer are what differs between two trees, and come in
any order, a file before its directory too. An entry below a file of an earlier
layer whose own directory is still to come is refused, by `MkdirAll` or by a panic
one level deeper, and the try is over. `ReadFails` breaks off at
any entry, and `Error` starts again with the first layer while
`ImageFSExtractRetry` allows it, on the disk as it is. `DeleteFilesystem` ends a
stage; the next image is unpacked over what it leaves. With `rooted`
(`--sandbox`) paths are resolved below the root.

### StageBuilder

Each builder has a `job`: a base, commands, flags, a build context, an argument.
`optimize` and `build` are one action per command; a push to the cache is an
action of its own (`pushLayerToCache`) and may end at any time, fail, or never
end. A RUN
writes a file whose contents depend on its text, its environment, the argument
and a file it reads, so that a layer found under a wrong key is a wrong layer.
The snapshotter is here one step on a file system that is left alone, and uses
the same `LayeredMap`. `ENV` stands for all commands that only edit the config,
which are in `Config`; what COPY and ADD do in detail is in `Copy`.

`StageBuild` is the abstract specification. A builder has a job, the commands it
has `taken`, and an image, and does one of three things: it appends a layer,
after which the image is the tree that the commands taken so far give on the base
(one command more, passing over those that change nothing, or all with
`--single-snapshot`); it finishes,
when the image is what all commands give; or it fails. It knows no cache, no keys, no
snapshots and no disk. `StageBuilder!ImageIsMeant` is `Stage!Spec` under the
mapping that takes `taken` for the number of the command behind the last layer
(all of them when the build is done), `image` for what base and layers give,
`status` from the builder's program counter, and `Tree` from `Meaning`: the
commands executed on the base one after the other, without a cache. Every
intermediate image is thus compared, and not only the last.

### Copy

A build is a base image, a context with `.dockerignore`, and one COPY or ADD;
`nextBuild` starts another with the same cache. A command resolves its sources
(paths, patterns, URLs), checks them, looks up owner and mode, and copies source
by source (`copySource`; `addURL`, `addArchive` and `addLater` for ADD), with
links followed or replaced as the code does; `snapshot` makes the layer out of
the files it reports, through `ResolvePaths` and `resolveSymlinkAncestor`, and
stores it under the key that `AddPath` and `hashDir` give. `executeCached` takes
a layer instead. Nodes have owner and mode; `Walk` is the lexical order in which
directories are read. `Wanted` is the reference: what the sources are in the
context, at the place the destination names. Only the root directory `/` is
modelled, and the umask is left out.

### Config

Words are literals, variables or escaped variables. A Dockerfile is drawn stage
by stage from `Lists`; `newStageBuilder` reads FROM, takes the triggers of the
base, and gives the stage its arguments; `optimizeRun` and `optimizeMetadata` are
the first pass, on a copy of the configuration whose maps are those of the
original; `buildCommand` is the second pass; `endStage` is what `DoBuild` does
with the result. A command may write to its own instruction (`cmds`), which the
second pass then reads. Slices are modelled by the array their last word is in
(`cell`), with room for one more word unless the shell's length is a power of
two, as `append` in the parser leaves them. `Meant` is the reference: each command
executed once, with the variables that are declared at its place.

### RunCommand

An executor starts with or without a sandbox, with any subset of the kernel's
file systems mounted, and stubs for the rest. A RUN looks for proot, may extract
it in four steps, brings the link `/proc/self/exe` up to date, and starts a
process, which installs tools, adds a user and forks; after it has ended its
group is killed. Users have their uid in the image's passwd file, and may have
another in the one kaniko itself sees, which is what a lookup reads with
`--sandbox`. To bring the link up to date may fail, which is only logged. The
executor may be killed at any point and started again on
the files that stay. Scripts are sequences of segments of words; the splitting
of text into these, and the environment, are left out.

### MultiStage

`plan` is `MakeKanikoStages` and `ResolveCrossStageInstructions`,
`fetchExtraStages` extracts images named in `COPY --from`, `buildStage` is the
body of `DoBuild`'s loop with the stage itself in one step. `MeantStages` is the
reference: every stage evaluated from the text of the Dockerfile.

### BaseImages

A warmer or an executor works through the names of its images. To retrieve one
it asks the mirrors and then the default registry, each `ImageDownloadRetry`
times again, unless it remembers the manifest. An executor first looks into the
directory, under the digest of the name or of the manifest; a warmer writes two
temporary files and renames each. Tags move, entries expire, and processes are
killed, at any time. A request may never be answered (`Waits`).

### Push and Sandbox

`Push` has a pusher for each cached layer and one for the image; all execute the
same `DoPush` with the options that `pushLayerToCache` derives, and write the
same files. Registries may deny, fail for a while, and have immutable tags to
which other builds push. `Sandbox` has the main goroutine and the signal
handler, which share `sandboxTeardownOnce`; contents of the sandbox are known by
the run that wrote them, and to remove a directory that is still a mount point
spoils `host`. To unmount or to remove something may fail, as may reading the list
of mounts: a failed unmount is logged and the removal goes on through the mount
(`stuck`), a failed removal aborts the setup, or ends the teardown with what is
left (`kept`).

## 3. The runs

| run | instance | distinct states | result |
|---|---|---|---|
| `snapshots` | 5 paths, one of them ignored; 2 bases; 3 ticks; two contents; full and redo hash; daemon; walks that break off | 543 073 | pass |
| `extraction` | 8 paths, one of them a mount; two layers out of 40 trees, entries in any order, one retry | 467 606 | pass |
| `builders` | 2 builders, jobs over 4 Dockerfiles, with and without `--cache` and `--single-snapshot` | 100 598 | pass |
| `copy` | 4 bases, 6 contexts, 12 commands, 3 builds | 16 544 | pass |
| `config` | 2 stages, 3 variables (one predefined), 3 sets of options, lists of up to 3 commands | 2 095 875 | pass |
| `run_commands` | 5 executables, 7 scripts, 5 users (one with another uid on the host), 2 mounts, 2 RUNs, 2 executors | 4 967 044 | pass |
| `stages` | 3456 Dockerfiles of three stages | 13 724 | pass |
| `base_images` | a warmer, an executor, a tag and two digests, a mirror, one retry | 182 564 | pass |
| `pushes` | two layers, two tags (one immutable), 6 sets of options, 8 of denials | 111 848 | pass |
| `sandbox` | three executors, two kernel file systems, three kinds of container, failures to unmount and to remove | 64 413 | pass |
| `stale_copy` | two contexts that differ in the name of a file | | violation |
| `cmd_overwritten` | a SHELL of three words | | violation |

What they show.

* `snapshots`. When no snapshot is under way, what base and layers give is what
  is on disk, for every path not edited since (`ImageReproducesFS`), and the
  layered map never holds the hash of a file that the image does not have
  (`MapNeverVouchesWrongly`), even with a daemon that writes and removes files
  between the walk and the tarball. A snapshot fails only if a file was removed
  under its feet (`FailsOnlyOnRace`). All three are about runs in which no walk has
  broken off: after that, `ImageReproducesFS` is false (section 5). What is true then
  is that the next full scan puts the files it lost into the image again
  (`LostFilesComeBack`).
* `extraction`. After all layers have been read the disk has what the image has
  (`ImageIsOnDisk`), nothing that layers removed or earlier tries and stages left
  (`RemovedIsGone`), mounts are as they were (`MountsAreKept`), and what is on
  the disk makes the extraction fail only where an entry comes before that of its
  directory and a file is still in the place of the directory
  (`OnlyDisorderFails`). Layers that swap a
  directory and a link, or that remove a link, are not among these images:
  section 5 says why. A directory entry over a link
  to a directory is meant to follow the link (`os.Stat` in
  `MkdirAllWithPermissions`).
* `builders`. Two builders, that find in the cache whatever the other has pushed
  so far, implement `StageBuild` and so make the image their Dockerfile means, layer
  by layer (`ImageIsMeant`); each layer in
  the cache is right for every job whose key leads to it
  (`CachedLayersAreRight`); both passes over the commands compute the same keys
  (`KeysAgree`); a layer has what
  its command changed and no more (`LayersHoldOnlyChanges`); a build whose
  pushes succeeded leaves all its layers in the cache (`CacheIsFilled`); a
  build ends, whether pushes fail or not, unless a registry, a command or a push
  of its own leaves it waiting for ever (`BuildsEnd`).
* `copy`. What the command names is in the image, with contents, mode and owner,
  whether it was executed or its layer found (`CopiedIsInImage`); nothing else of
  the image has changed, so nothing excluded gets in and links stay links
  (`RestIsKept`); the layer gives on the base what is on disk
  (`LayerIsComplete`), and holds nothing that was not copied
  (`LayerHoldsOnlyCopies`). `stale_copy`: with contexts in which a file has
  another name, the layer found is that of the old name.
* `config`. In both passes a command sees the variables of its place
  (`SeenIsMeant`); labels, ports, volumes, user, directory,
  signal, health check and triggers are what the commands say, with and without
  `--cache` (`MetadataIsMeant`), and so are CMD and ENTRYPOINT
  (`CommandsAreMeant`). The run has a SHELL of four words, whose array has no
  room; `cmd_overwritten` has one of three.
* `run_commands`. No command goes through a part of proot (`ProotIsWhole`); the
  stub of `/proc/self/exe` leads to the best tool of the script that is there,
  or to the shell, if it could be written (`SelfExeServesToolchain`); a command
  runs with the uid its USER has in the image or not at all, with `--sandbox` as
  long as the passwd file kaniko itself sees has no other entry for the user
  (`RunsAsUser`); between RUNs only processes that left their group write
  (`QuietAfterRun`).
* `stages`. The image is the one meant by the text (`TargetIsMeant`), nothing
  needed was deleted or left out between stages (`NothingIsMissing`), and stages
  begin with the same key only on the same base (`KeysTellBasesApart`).
* `base_images`. A build gets one image for one name, though it asks twice for
  each (`OneNameOneImage`); files under a digest are whole (`FilesAreWhole`); an
  image that a warmer did not store was counted as an error
  (`MissingIsCounted`); every process gets past its images unless one of its
  requests is never answered (`RunsEnd`).
* `pushes`. When the executor has succeeded its output files are about the image,
  though pushes of layers wrote them too (`OutputsAreOfTheImage`), and the image
  is at all destinations (`PushedEverywhere`); `--no-push` and `--no-push-cache`
  each hold for what they name (`FlagsDecideWhatIsPushed`); credentials are not
  what a push fails on after a build (`NoLateDenial`).
* `sandbox`. No executor removes files through a mount, unless the kernel would
  not unmount it (`HostIsUntouched`); a build starts on what its own setup put
  there, whatever failed before (`BuildStartsFresh`); an executor that comes to the
  end of its build, with success or not, without a signal, leaves nothing that could
  be unmounted and removed (`LeavesNothing`); and a signal ends it
  (`SignalEndsIt`).

Each module states the types of its variables as `TypeOK`. Those of
`Snapshotter` and `BaseImages` are proved, and that of `Sandbox` is part of a
proved invariant; the others hold on the instances of the runs and can be added
to the `INVARIANTS` of their configurations.

Every property of a passing run has a mutant in `PROJECT.json`: a definition
with a plausible bug in it, under which TLC finds the property violated.

### Bounds, and why they are enough

* Paths: the deepest reasoning about trees in the code concerns a path, its
  parent, and what is next to it; two levels and two top-level paths give all
  combinations of a directory with an entry, a sibling that may be a file, a
  directory or a link (to either), and an ignored place. The proofs do away with
  this bound, and with that on time, for all properties of `Snapshotter`, and with
  those on paths, layers and retries for all of `Extract`, and with those on builders,
  Dockerfiles and paths for the safety properties and the refinement of `StageBuilder`.
* `MaxTime = 3`: three edits, by commands or the daemon, with any snapshots in
  between, are enough to change, remove and put back a path across layers, or to
  have the daemon write in each window of a snapshot.
* Layers and retries in `Extract`: what an entry meets on disk is the result of
  the layer before, of a try that broke off, or of another stage; two layers and
  one retry give each of them.
* Two builders: a builder meets only the cache; with a second one each of its
  lookups and pushes may come before or after each of the other's.
* Copy: the bases have a link at the destination, above it, to a directory, to a
  file and to nothing, and files where directories will go; contexts differ in
  contents, modes and exclusions. A third build meets two cached layers.
* Config: two definitions and a use give every order of ARG, ENV and use; a
  second stage shows what the first leaves behind. Predefined variables, empty
  options and triggers are each in one instance.
* RunCommand: a second RUN meets the link, the tools and the processes of the
  first, a second executor the files of a killed one.
* Stages: three give a base, a stage that builds on or copies from it, and one
  that uses either or both.
* One retry, one mirror besides the default registry, two layers, two tags, and
  three executors in a row are the least that have a first, a next and a last.
* `CHECK_DEADLOCK FALSE` in all runs: builds, pushes and executors end, and the
  bounded clocks run out. That they do not stop earlier is what the liveness
  properties say.

No symmetry is declared: the model values of each configuration play different
parts, and liveness is checked in three of them.

### Fairness

The code sets no time-out for requests: `MakeTransport` clones the default
transport, which has none for the answer (`pkg/util/transport_util.go:84`), and
neither requests for images (`remote.go:70`, `:101`) nor pushes (`push.go:294`)
have a context with one; nor does a RUN. A registry that accepts a request and is
silent holds the executor. So nothing that comes from outside is fair:

* `StageBuilder`: weak fairness of a builder's steps where it does not wait for
  others (`Waits`: a lookup, unpacking the base or a cached layer, a RUN or COPY,
  `cacheGroup.Wait()` with pushes under way), and none of pushes. `BuildsEnd` says
  that a build ends or is for ever at such a place. It needs no more than that, since
  a build does not come back to a command; what it excludes is a build that waits
  for nobody, as one would that waited for a push that has failed.
* `BaseImages`: weak fairness of a process where it does not wait for a registry.
  `RunsEnd` says that a process ends, or is for ever at one and the same request;
  it may not ask again and again for ever. A kill is never fair: it may or may not
  happen.
* `Sandbox`: weak fairness of the handler and of the main goroutine's teardown
  and exit. A build itself may hang; `SignalEndsIt` does not depend on it.
* The other specifications have none, and only safety properties.

## 4. The proofs

All proofs hold for every value of the constants that satisfies the `ASSUME`s in
the modules (paths closed under parents, `None` no digest, options as
`PersistentPreRunE` lets them pass, a base image older than the build, and the
like); TLC evaluates these in each run. Where a theorem needs more it says so in
an `ASSUME` of its own, listed below with the reason.

| module | theorems | property of a run |
|---|---|---|
| `SnapshotterProofs` | `TypeCorrect`, `LayersReproduceFS`, `MapIsHonest`, `FailureIsARace` | `ImageReproducesFS`, `MapNeverVouchesWrongly`, `FailsOnlyOnRace` |
| `ExtractProofs` | `MountsStay`, `OnlyDisorderIsInTheWay`, `UnpackedIsImage`, `UnpackedIsOnlyImage` | `MountsAreKept`, `OnlyDisorderFails`, `ImageIsOnDisk`, `RemovedIsGone` |
| `StageBuilderProofs` | `PassesAgreeOnKeys`, `BuildsFillTheCache`, `KeysTellCommands`, `CacheIsRight`, `LayersAreSmall`, `BuildersMakeTheImage` | `KeysAgree`, `CacheIsFilled`, `CachedLayersAreRight`, `LayersHoldOnlyChanges`, `ImageIsMeant` |
| `RunCommandProofs` | `ProotStaysWhole`, `CommandsRunAsUser`, `NothingWritesAfterRun`, `StubServesToolchain` | `ProotIsWhole`, `RunsAsUser`, `QuietAfterRun`, `SelfExeServesToolchain` |
| `BaseImagesProofs` | `FilesStayWhole`, `NamesStandForOneImage`, `ErrorsAreCounted`, `TypeCorrect` | `FilesAreWhole`, `OneNameOneImage`, `MissingIsCounted` |
| `PushProofs` | `FilesAreOfTheImage`, `ImageIsPushedEverywhere`, `FlagsAreObeyed`, `DenialsComeFirst` | `OutputsAreOfTheImage`, `PushedEverywhere`, `FlagsDecideWhatIsPushed`, `NoLateDenial` |
| `SandboxProofs` | `HostStaysUntouched`, `BuildsStartFresh`, `ExitsLeaveNothing` | `HostIsUntouched`, `BuildStartsFresh`, `LeavesNothing` |

### Snapshots

`TypeCorrect`. Two conjuncts make this more than bookkeeping: `IsTree(fs)` and
`IsTree(image)`. That the image stays a tree needs that a tarball holds all
parents of its entries, that its nodes come from a tree, and that whiteouts and
replaced directories take everything below them away;
`FileTreeProofs!ApplyLayerTree` proves this of `ApplyLayer`, from lemmas about
prefixes of sequences. `TypeOK` alone is not inductive: a whiteout of the root
would leave no tree, so `TInv` adds that the root is never among the whiteouts,
which holds since the walk always finds it.

`LayersReproduceFS`, `MapIsHonest` and `FailureIsARace` come from one invariant,
`IInv`, which is kept as long as no walk has broken off: the induction is over
`Inv`, the types and `broke = "no" => IInv`, for nothing sets `broke` back. That
image and disk agree between two snapshots is not inductive by itself: the next
snapshot writes what the layered map does not vouch for, so `IdleInv` says of
every entry of the map that it is the hash of the image there, or is `Outdated`
(of an mtime that no file will have again), or is missing because the base was
not scanned yet. A snapshot in three steps, with a daemon in between, needs two
more forms of it: `ScannedInv`, in which the cache of hashes is ahead of the
map, and `RecordedInv`, in which the map is ahead of the image by what is to be
written. `FoundInv`, common to both, says that a change that the scan did not
find is later than the scan and so in `touched`. `ClockInv` and `StampInv` say
why mtimes can be trusted: nothing is stamped later than now, and two nodes of
one path with the same mtime have the same contents. For whiteouts,
`FileTreeProofs!TopmostPrefix` finds the one that takes a deleted path away.

The three assume `Precise`: snapshot modes `full` and `redo`, and no link that
`EvalSymlinks` fails on. Both are needed. With such a link `ResolvePaths` loses
files (section 5), and mode `time` hashes neither permissions nor owner, so that
a `chmod` is not found, as `src/README.md:1251` says ("only file mtime will be
considered"). Mode `redo` is sound only because every write has an mtime of its
own in the model; two writes within one tick of a real file system's clock are
outside it.

### Extraction

`MountsStay`: the invariant adds to `MountsAreKept` that the links on disk lead to
no ignored path and to nothing above or below one (`LinksApart`), that paths
above an ignored one are directories or missing (`WayIsFree`), and that the
entries to come are nodes of an image. The core is `LinksKeepClear`: resolving a
path ends at the path itself or far from every ignored one. Each write then is
`Harmless`: a lemma each for whiteouts, directories, and files and links, and
`HarmlessKeeps` for what that preserves.

It assumes `Apart`: the links of images lead to no ignored path, nothing below
one and no directory above one, and what an image has above an ignored path is a
directory. Without it the code does not keep mounts: `ExtractFile` compares the
path of the entry, not the one links resolve it to, with the ignore list, and
a file in the place of a directory that holds an ignored path removes it
(section 5, Extraction). `MCExtract` has `Apart` as an `ASSUME`, so that TLC
evaluates it on the images of the run.

`OnlyDisorderIsInTheWay`, `UnpackedIsImage` and `UnpackedIsOnlyImage` come from `UInv`.
That the disk has the image at the end is not inductive; what is, is a statement
about the disk in the middle of a layer, `Unpacks`. `FromImage`: whatever is on disk
is at a path some layer of the image has, or held back by an ignored path, and a link
is only where some layer has one. `EntriesOf`: the entries still to come agree with the
tree of the layer. `Laid`: what the layer has at a path is on disk, or its entry is
still to come. `Left`: what is on disk and not in the layer's tree is of a later
layer (a try that broke off had come that far), goes with an entry still to come,
or is held back. A retry thus keeps the invariant: it begins with the first layer on a
disk of later ones, and every later entry and whiteout comes again. With that,
each kind of entry has a lemma saying that it keeps all four, in whatever order
entries come, and is refused only for the one reason that `OnlyDisorderFails` leaves.

They assume `Steady` besides `Apart`, and each part of it is there for a reason.
Layers do not change the root, for which images have no entry. No image has a
directory and a link at one path, in whatever layers: a retry goes through the link
(section 5, `LinksForDirs`). No layer removes a link: in a sandbox the whiteout
removes the target (section 5, `LinksRemoved`). Nothing but mounts, and what is
above them, is there before the first layer; everything else a container has
would stay. `MCExtract` has `Steady` as an `ASSUME` too.

### Stage builders

`PassesAgreeOnKeys` and `BuildsFillTheCache`: the two passes see different
states, so the invariant compares each with a third thing, `Meaning`, the
Dockerfile executed without a cache: `Walk` says that environment, key and
recorded lookups of a builder at command n are those of `Meaning`. `Replaced`
says that a command that was replaced by a cached layer is one whose key is in
the registry, and `Filled` that the keys a build is past are in the registry or
among its pushes in flight. Keys only ever enter the registry. These two need no
hypothesis.

`KeysTellCommands` is about `populateCompositeKey` alone: if two commands, of
whatever Dockerfiles, have the same key then the trees before them are the same, and
so are those after them. A key is read from its end. The last word is the hash of
a copied file or the text of a command; the text gives the command, and with it
how many words belong to it; what is left is the key of the command before
(`LastWordsTell`, `StepIsSame`). `EqualKeysAreSame` takes the least number of
commands for which it goes wrong. It assumes `TextsTell`: commands with the same
text are the same command, the hash of a file is not the text of a command, and the
destination of a COPY or WORKDIR is not a build argument, which the code leaves out
of the key (section 5, `ArgJobs`; TLC finds `CachedLayersAreRight` violated).

`CacheIsRight`, `LayersAreSmall` and `BuildersMakeTheImage` come from `BInv`, which
adds to `IInv` what a builder has made so far (`Build`). `Chain`: each layer turns
the tree before it into what the commands up to its own give. `Stopped`: commands
are replaced by cached layers up to the first miss, and none after. `OnDisk`: the
disk is the tree of the commands past, or a part of it where the base was not
unpacked. `Tracked`: what the layered map vouches for
is on disk and in the image as it says, so that a full scan finds just the change of the
command. `CaughtUp`: what the commands since the last layer did is nothing. And
`RightLayers`: each layer in the registry or on its way there is right for
every job whose key leads to it. This is circular only in appearance: a layer that is
found is right because the one that was pushed was, and one that is cut is right
because the disk was (`RunsOn`, `RightUnderKey`). `BuildersMakeTheImage` is then a
simulation, action by action: a layer that is saved is a `StageBuild` step to
the command it is for, the end of a build is a finish, the rest stutters.

They assume `Sound`, all parts of which are about constants: `TextsTell`;
`--snapshot-mode=full` (`time` and `redo` do not look at contents); that `None` is
no layer; and that jobs are `Plain`, which has four parts, each a place at which the
code makes another image (section 5, the stage builder):

* COPY layers are cached only where RUN layers are: otherwise the scan before the RUN
  comes before a cached COPY is extracted;
* `--single-snapshot` is used without a cache, without forced metadata layers, and
  where the base is unpacked;
* `--use-new-run` is used without a cache, and its commands remove nothing of the
  base, whose paths are not in the layered map without a scan;
* WORKDIR, where the base may not have been unpacked, names a directory that is as
  `MkdirAll` makes one.

`LayersAreSmall` assumes as well that no COPY copies nothing (`CopiesFiles`), since
such a COPY reports nil, which means the whole file system. TLC evaluates these
hypotheses on the jobs of the run (`MCStageBuilder!PlainJobs`); the run has one
more job, `--single-snapshot` with a cache that only such builds fill, for which
the properties are model-checked only.

### RUN

`ProotInv` says that only a whole proot that was tried gets to the path at which
executors look for it, whoever was killed while extracting one; `UserInv` that a
user was looked up before a process is prepared; `GroupInv` that there is no
process group outside a RUN. `NothingWritesAfterRun` is an action property.
`CommandsRunAsUser` has the restriction `~home \/ via = None` in its statement:
through proot, with HOME set by ENV, an unknown user runs as root (section 5),
so that the unrestricted property is true of the instance of the run and not in
general. `RunsAsUser` itself has the condition `HostAgrees` for `--sandbox`:
without it TLC finds it violated in the instance of the run (section 5).

`StubServesToolchain`: the state has little part in it (`SelfInv`: while a
command runs over the stub, the link is what `ResolveSandboxProcSelfExeTarget`
gave for this command and for what was installed when it started, whatever link
the RUN before had). The rest is about that function, for all scripts,
priorities and aliases: `FirstWordIsCommand` (the word that is taken for the
command of a segment is what the shell executes), `BestIsBest` (the best of a
word and its aliases), `BestToolServes` and `BystandersDoNotServe`. It assumes
`ServedScripts`, the limits of the function (section 5): no assignment behind
`env`, no name of an executable behind a builtin, and not just one command
beside the tools. That priorities are 0 or between 30 and 100 is the table in
`sandbox_proc_resolve.go:62`; it matters that none lies at or below
`procSelfExeGenericScore`. `MCRunCommand` has the hypothesis as an `ASSUME`.

### Base images

`FilesStayWhole` and `NamesStandForOneImage` come from `IInv`. `FilesAreWhole`
needs to know of each process that its temporary files are those of the digest at
hand when it renames them (`AtHand`). `OneNameOneImage` needs that what an
executor went on with for a tag is what `manifestCache` has for it, and that the
digest it looks up in the directory is that too (`Remembers`): then a file found
there is, by `FilesAreWhole`, the image remembered. There is a lemma for each
action; a step of one process leaves the rest to `OneProcess`.
`ErrorsAreCounted` is about cardinalities: `Warms` compares the number of images
that a warmer is past and that are not there with its count of errors, and each
step adds at most one to the former; nothing removes an image from the directory.

### Push

`StageInv` says who pushes when, which is what makes files of the run, written
by every pusher, those of the image in the end (`FileInv`): layers are pushed in
the stage before the one in which the image is. `PusherInv`, `TagInv` and
`LayerInv` follow one `DoPush` through its destinations and retries.

### Sandbox

The invariant says who may be inside `wipeSandboxContents` (`WiperInv`), that
while anyone is, a mount that is left is one that could not be unmounted, for they
are made only in the setup, when there is no handler, and that after the setup has
wiped all mounts are its own (`MountInv`), and that what was read is all there is unless
the handler wipes under a build (`ContentsInv`).

### Recursion

`Meaning`, `ImageOf` and `evalSymlinks` are recursive functions. What one
computes for every input is not proved, but that the recursion defines a
function and can be unfolded is (`EveryPrefixMeans`, `EvaluationExists`): the
least number for which there is no such function would have one, by `WFMin` on
the natural numbers. `LinksKeepClear` and `EqualKeysAreSame` are proved in the
same way. For this `evalSymlinks` recurses over the number of links only, each
value being a function on all paths.

### Only model-checked

* `LostFilesComeBack`, about what comes after a walk that broke off.
* All liveness properties: ENABLED and fairness are out of the prover's reach.
* All of `Copy`, `Config` and `MultiStage`: their references (`Wanted`, `Meant`,
  `MeantStages`) are recursive over Dockerfiles and directories, by operators that
  the prover cannot use.
* What lies outside the hypotheses named above: jobs that are not plain but are in the
  run, and the snapshot modes `redo` and `time` in `StageBuilder`.

## 5. Disagreements between the code and what it says

Shown by runs: `stale_copy` and `cmd_overwritten`, see `findings` in
`PROJECT.json`.

Shown by TLC when an instance is changed. The instances of the runs leave these
cases out; each entry says what to put into the configuration to have TLC find
the violation (an `ASSUME` of the MC module that states the hypothesis of a theorem,
which such an instance does not have, must go for it).

* A link that `EvalSymlinks` fails on for another reason than a missing target
  makes `ResolvePaths` return what it has so far, without the parents and without
  an error; `resolve.go:31` says it "returns a slice of resolved paths or error"
  (`pkg/filesystem/resolve.go:72`). `Snapshotter.cfg` with `BadLinks = TRUE`:
  `ImageReproducesFS`.
* The key of `COPY f $ARG` leaves the argument out, though `build.go:296` says
  that a key begins with "the base image digest, the build args and the
  SrcContext" (`pkg/executor/build.go:212`). `StageBuilder.cfg` with
  `Job <- ArgJobs`: `CachedLayersAreRight`.
* A retry of the extraction goes through links that the failed try had put in the
  place of directories (`MkdirAllWithPermissions`, `pkg/util/fs_util.go:948`), and
  leaves files in their targets. `Extract.cfg` with `Follows <- LinksForDirs`:
  `OnlyDisorderFails`, `ImageIsOnDisk` and `RemovedIsGone`.
* With `--sandbox` the whiteout of a link removes what the link leads to and keeps
  the link (`fs_util.go:273`); the comment at `fs_util.go:177` explains why
  `ResolvePathInRoot` must not be used on an entry itself. `Extract.cfg` with
  `Follows <- LinksRemoved`: `OnlyDisorderFails`, `RemovedIsGone` and
  `ImageIsOnDisk`.
* A callback of the walk that fails, because a process left over from a RUN has
  just removed the file, ends the walk, and `gowalkDir` drops the error
  (`fs_util.go:1312-1321`): the layer has whiteouts for all that was not reached, and
  the build goes on. The next full scan puts the files back into the image; after the
  last one they are missing from it. A directory removed while it is read has the
  same effect. `Snapshotter` without `broke = "no"` in `ImageReproducesFS`.
* With `--sandbox` a user is looked up in the passwd file that kaniko itself sees
  (`command_util.go:486`, `syscall_credentials.go:29`): a RUN in a chroot has the uid
  of that entry, which may be another user's in the image, and a user whom only the
  host has is no error. `RunCommand` without `HostAgrees` in `RunsAsUser`.
* A mount that cannot be unmounted, or a list of mounts that cannot be read, is only
  logged (`cmd/executor/cmd/root.go:583-585`, `:753-755`), and `RemoveAll` goes on
  through the mount into the host's files; `src/README.md` says that with `--sandbox`
  build steps do not delete files of the original root. `Sandbox` without `stuck` in
  `HostIsUntouched`.
* The sandbox is not "wiped at the start and end of every kaniko invocation
  (including after a successful build/push and on failure or SIGINT/SIGTERM)"
  (`src/README.md:1184-1186`): not when flags are in error after `setupSandbox`
  (`root.go:142-159`), or the setup itself is; not on a signal before there is a
  handler (`root.go:390`); not what a build writes while the handler wipes
  (`root.go:625`); nor what cannot be removed ("cleanup incomplete",
  `root.go:615-618`). `Sandbox` with any of the conditions of `LeavesNothing`
  left out. The next build is not harmed by any of these, which is what
  `BuildStartsFresh` says.
* ADD of an archive with a link to an existing directory: `resolveSymlinkAncestor`
  lists the link, and what ADD put below it may be missing
  (`resolve.go:122-160`). `Copy.cfg` with `Archives <- LinkArchives`:
  `LayerIsComplete`.
* LABEL writes its expanded value back into the instruction
  (`pkg/commands/label.go:53`), so that with `--cache`, where it is executed twice,
  `\$B` becomes the value of `B` (`build.go:243` says the metadata of the first
  pass is thrown away). `Config.cfg` with `Lists <- EscLists`: `MetadataIsMeant`.
* A CMD that a trigger of the base image sets counts as one of the stage for
  ENTRYPOINT, or is cleared by it, depending on where `reviewConfig` looks
  (`build.go:1022`). `Config.cfg` with `Lists <- OnBuildLists`: `CommandsAreMeant`.
* `curl ...; installer; cargo build` where only `curl` is there beforehand: the
  stub `/proc/self/exe` leads to `curl`; the comment at
  `pkg/util/sandbox_proc_resolve.go:113` says it "must NOT". And `env A=1 make`:
  the assignment is taken for the command. `RunCommand.cfg` with
  `Script <- InstallerScripts` or `Script <- EnvScripts`: `SelfExeServesToolchain`.
  The arguments of a builtin (`echo curl`) count as commands too.
* Through proot a USER that cannot be found runs as root where ENV has set HOME;
  without proot it is an error (`pkg/commands/run.go:365`: "via the same credential
  lookup the native path uses"). `RunCommand.cfg` with `HomeIsSet = {TRUE}`:
  `RunsAsUser`.

Seen while modelling. The models follow the code here too; the instances leave
these cases out, or the properties are stated so that they do not speak of them:

* Snapshots. A path below an ignored directory passes the ignore list in a
  snapshot from a file list, since only entries themselves are compared
  (`resolve.go:45`).
* COPY and ADD. A COPY that copied nothing (`.dockerignore`) reports nil, which
  means the whole file system (`pkg/commands/copy.go:131`; the comment above says
  "should return an empty array"); `LayerHoldsOnlyCopies` is about commands that
  copy something. A link is copied as a link, the comment at `copy.go:107` says its
  target is; copied onto an existing link it overwrites what that leads to. The
  key of `COPY --from` obeys the `.dockerignore` of the build context. ADD unpacks
  an archive that `.dockerignore` excludes. A relative destination is looked up
  from `/` by `IsSrcsValid` and `URLDestinationFilepath`. The owner is reset only
  if user and group both differ (`fs_util.go:678`). `add.go:45` has the rule for a
  destination without a slash the wrong way round.
* Arguments. An ARG of a stage stays set in later stages (`build.go:740`). An
  empty `--build-arg` counts for ARG and not for FROM (`dockerfile.go:329`). `ARG
  A=1` and `ARG A` before FROM: FROM sees 1, a stage sees nothing. Predefined
  arguments (proxies) are visible without an ARG.
* The stage builder. With cached COPY layers but no cached RUN layers the scan of
  the base comes before a cached COPY is extracted, and the layered map misses its
  files (`build.go:404`). WORKDIR looks for its directory on a disk to which the
  base was not unpacked when everything else is cached (`workdir.go:62`), and a
  VOLUME makes its directory in the first pass, before the base is unpacked.
  A cached layer is extracted with its whiteouts, which also stay on the disk as
  files `.wh.*` (`IncludeWhiteout`, `copy.go:199`, `run.go:268`,
  `fs_util.go:292-299`): the first scan takes them for files of the base, so that
  they get into no layer, but a RUN sees them, and a copy that it makes of such a
  directory is taken for whiteouts when its layer is unpacked. `StageBuilder` has no
  such names.
  `--single-snapshot` with `--cache`: where builds without `--single-snapshot` have
  cached the last command, a build takes that layer and loses the changes of the
  commands before it (`build.go:401`, `:421`).
* Stages. `--skip-unused-stages` drops unnamed stages that COPY refers to by
  number, and renumbers the rest (`dockerfile.go:366`). A stage without commands
  has no cache key of its own; stages built on two such stages begin with the
  same key (`build.go:298`, `:775`).
* RUN. The link `/proc/self/exe` of the stub stays as it was where it could not be
  brought up to date (`run.go:133`, a warning). The group
  of USER is dropped. proot is used when any of three mounts fails, not only
  `/proc`. A RUN that fails, or whose executor is killed, leaves the processes of
  its group running. `--use-new-run` scans `/` and not the sandbox
  (`run_marker.go:40`), so that with `--sandbox` it finds nothing.
* Push. A run that fails after a layer was pushed leaves that layer's digest in
  `--digest-file` (`push.go:400`).
* Warmer. Killed between its two renames it leaves an image without manifest, and
  an expired image counts as cached for a warmer and as missing for an executor
  (`pkg/cache/warm.go:112`, `:163`).
* Extraction. An entry below a file of an earlier layer whose directory comes
  later in the same tar is refused (`MkdirAll`), and one level deeper
  `ExtractFile` dereferences a nil `FileInfo`; the comment at `fs_util.go:404`
  names both halves of the case ("a file is in the tar before its directory, or
  a file was copied over a directory prior to now") as one it handles. A file or
  link entry at a directory above an ignored path removes that path
  (`fs_util.go:421`); an opaque whiteout (`.wh..wh..opq`) is taken for the
  whiteout of a file of that name (`fs_util.go:270`).

## 6. Not modelled

* The parent process that re-executes kaniko in a user namespace and passes
  signals on (`root.go:458-565`): `Sandbox` starts after it. If it is killed the
  child goes on; if the child dies of a signal the parent exits with 255.
* `SIGKILL` to the group of a RUN is taken to have its effect at once; a process may
  in fact live on for a moment after `kill` has returned.
* `--image-name-tag-with-digest-file`, which is written like
  `--image-name-with-digest-file` and with the same contents.
* Volumes in the stage builder, and the reset of volumes and ignore list by the
  extraction of a cached layer (`fs_util.go:222`).
* `--use-new-run`'s comparison of modification times, which the repository's
  README calls experimental; in `StageBuilder` it reports what changed.
* Copying below a sandbox root (`Copy` has `/` only); sockets, hard links,
  extended attributes, the umask.
* The tags and expiry arithmetic of the layer cache, sha256, compression and
  media types: data without control.
* Dockerfile parsing, the syntax of patterns and of shell scripts: string
  algorithms with table tests, represented by the sets they are parsed into.
* Build contexts (git, S3, GCS, Azure, tar), credentials, transports, logging,
  timing: I/O that has no part in what the image holds.

## 7. Plan

Done: inventory; `FileTree`, `LayeredMap`, `Snapshotter`, `StageBuilder` and the
abstract `StageBuild`, `Copy`, `Config`, `RunCommand`, `MultiStage`, `Push`,
`Sandbox`, `Extract`, `BaseImages` with their runs; all safety properties of
`Snapshotter`, `Extract`, `StageBuilder`, `RunCommand`, `BaseImages`, `Push` and
`Sandbox`, and the refinement of `StageBuild`, proved.

Next, in this order:

1. `MultiStage` without recursive operators, and `NothingIsMissing` proved: what a
   later stage needs was saved before the file system was deleted.
2. `BuildersMakeTheImage` for `--single-snapshot` with a cache of its own.
3. The re-exec parent and its child as two processes in `Sandbox`.
4. VOLUME in `StageBuilder`; `deduplicatePaths` against its reference definition.
