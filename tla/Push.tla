-------------------------------- MODULE Push --------------------------------
(***************************************************************************)
(* pkg/executor/push.go in a run of the executor (cmd/executor/cmd/root.go,*)
(* Run): the check of push permissions, the pushes of cached layers that   *)
(* go on while the stage is built, and the push of the image.              *)
(*                                                                         *)
(* Every push is a DoPush and writes the same files: pushLayerToCache      *)
(* copies the options and changes only some.  A pusher is the layer or the *)
(* image it pushes; that is also what is found in the files it writes, for *)
(* its digest.  The contents of layers, credentials and transports are     *)
(* left out; a push that the registry refuses for a while is retried.      *)
(***************************************************************************)
EXTENDS Naturals, Sequences

CONSTANTS
    Options,    \* the options runs may have
    Layer,      \* layers pushed to the cache
    Image,      \* the image built
    Other,      \* an image pushed by another build
    Tag,        \* the tags --destination may name
    Repo(_),    \* the repository of a tag
    CacheRepo,  \* the repository of cached layers
    Immutable,  \* tags that a registry lets nobody overwrite
    None

(***************************************************************************)
(* What PersistentPreRunE lets pass.                                       *)
(***************************************************************************)
ASSUME PushAssumption ==
    /\ {Image, Other, None, "out"} \cap Layer = {}
    /\ Image # Other /\ Image # None /\ Other # None /\ None # "out"
    /\ Tag \cap Layer = {}
    /\ Immutable \subseteq Tag
    /\ Options \subseteq
         [Destinations : Seq(Tag), NoPush : BOOLEAN, NoPushCache : BOOLEAN, Cache : BOOLEAN,
          CacheRepo : STRING, DigestFile : BOOLEAN, ImageNameDigestFile : BOOLEAN,
          OCILayoutPath : {None, "out"}, TarPath : BOOLEAN, PushRetry : Nat,
          PushIgnoreImmutableTagErrors : BOOLEAN, SkipPushPermissionCheck : BOOLEAN]
    /\ \A o \in Options :
         /\ o.NoPush \/ o.Destinations # << >>
         /\ o.ImageNameDigestFile => o.Destinations # << >>

Pusher == Layer \cup {Image}

VARIABLES
    opts,        \* the options of the run
    denied,      \* repositories the credentials do not allow to push to
    stage,       \* "check", "build", "push", "succeeded" or "exited"
    pc,          \* where each DoPush is
    dest,        \* how many destinations each has pushed to
    tries,       \* how often it has tried the next one
    registry,    \* what each tag holds; a cached layer is its own tag
    digestFile,
    nameFile,    \* ImageNameDigestFile: names with digests
    layouts,     \* the images in each OCI layout directory
    tarFile,     \* tags and image of the tarball
    outputs      \* $BUILDER_OUTPUT/images

files == <<digestFile, nameFile, layouts, tarFile, outputs>>

vars == <<opts, denied, stage, pc, dest, tries, registry, files>>

-----------------------------------------------------------------------------
\* Mutant: --no-push holds for cached layers too.
cacheOptsNoPush(p) == [opts EXCEPT !.TarPath = FALSE, !.Destinations = <<p>>]

(***************************************************************************)
(* The options pushLayerToCache passes to DoPush; the others stay.         *)
(***************************************************************************)
cacheOpts(p) ==
    [opts EXCEPT
        !.TarPath = FALSE,
        !.NoPush = opts.NoPushCache \/ opts.CacheRepo = "oci",
        !.Destinations = <<p>>,
        !.OCILayoutPath = IF opts.CacheRepo = "oci" THEN p ELSE @]

optsOf(p) == IF p = Image THEN opts ELSE cacheOpts(p)

\* --tar-path alone has a dummy destination.
Destinations(p) ==
    LET o == optsOf(p)
    IN IF o.NoPush /\ o.Destinations = << >> /\ o.TarPath THEN <<"dummy">> ELSE o.Destinations

RepoOf(t) == IF t \in Layer THEN CacheRepo ELSE Repo(t)

\* Mutant: one destination is checked for all.
CheckedRepo ==
    IF opts.SkipPushPermissionCheck \/ opts.NoPush THEN {} ELSE {Repo(opts.Destinations[1])}

(***************************************************************************)
(* The repositories CheckPushPermissions asks for.                         *)
(***************************************************************************)
CheckedRepos ==
    IF \/ opts.NoPush /\ opts.CacheRepo = ""
       \/ opts.SkipPushPermissionCheck
       \/ opts.NoPush /\ opts.NoPushCache
       \/ opts.NoPush /\ opts.CacheRepo = "oci"
    THEN {}
    ELSE IF opts.NoPush THEN {CacheRepo}
    ELSE {Repo(opts.Destinations[i]) : i \in DOMAIN opts.Destinations}

-----------------------------------------------------------------------------
Init ==
    /\ opts \in Options
    /\ denied \in SUBSET ({Repo(t) : t \in Tag} \cup {CacheRepo})
    /\ stage = "check"
    /\ pc = [p \in Pusher |-> "waiting"]
    /\ dest = [p \in Pusher |-> 0]
    /\ tries = [p \in Pusher |-> 0]
    /\ registry = [t \in Tag \cup Layer |-> None]
    /\ digestFile = None
    /\ nameFile = {}
    /\ layouts = [d \in Layer \cup {"out"} |-> {}]
    /\ tarFile = {}
    /\ outputs = {}

CheckPushPermissions ==
    /\ stage = "check"
    /\ stage' = IF CheckedRepos \cap denied = {} THEN "build" ELSE "exited"
    /\ UNCHANGED <<opts, denied, pc, dest, tries, registry, files>>

(***************************************************************************)
(* The builder has a layer for the cache: the push goes on by itself.      *)
(***************************************************************************)
startCachePush(p) ==
    /\ stage = "build"
    /\ opts.Cache /\ ~opts.NoPushCache
    /\ pc[p] = "waiting"
    /\ pc' = [pc EXCEPT ![p] = "digest"]
    /\ UNCHANGED <<opts, denied, stage, dest, tries, registry, files>>

\* A command fails: the process exits, pushes under way or not.
buildFails ==
    /\ stage = "build"
    /\ stage' = "exited"
    /\ UNCHANGED <<opts, denied, pc, dest, tries, registry, files>>

Ended(p) == pc[p] \in {"done", "failed"}

\* Mutant: the builder does not wait for the pushes.
waitForNone == TRUE

\* build() waits for the pushes it started; their errors are only logged.
waited == \A p \in Layer : pc[p] # "waiting" => Ended(p)

(***************************************************************************)
(* The image is built: DoPush.                                             *)
(***************************************************************************)
startPush ==
    /\ stage = "build"
    /\ waited
    /\ stage' = "push"
    /\ pc' = [pc EXCEPT ![Image] = "digest"]
    /\ UNCHANGED <<opts, denied, dest, tries, registry, files>>

-----------------------------------------------------------------------------
(***************************************************************************)
(* DoPush.  A step is taken as long as the process lives.                  *)
(***************************************************************************)
Step(p, from, to) ==
    /\ stage \in {"build", "push"}
    /\ pc[p] = from
    /\ pc' = [pc EXCEPT ![p] = to]
    /\ UNCHANGED <<opts, denied, stage>>

writeDigestFile(p) ==
    /\ Step(p, "digest", "layout")
    /\ digestFile' = IF optsOf(p).DigestFile THEN p ELSE digestFile
    /\ UNCHANGED <<dest, tries, registry, nameFile, layouts, tarFile, outputs>>

writeEmptyLayout(p) ==
    LET path == optsOf(p).OCILayoutPath
    IN /\ Step(p, "layout", IF path = None THEN "names" ELSE "append")
       /\ layouts' = IF path = None THEN layouts ELSE [layouts EXCEPT ![path] = {}]
       /\ UNCHANGED <<dest, tries, registry, digestFile, nameFile, tarFile, outputs>>

AppendImage(p) ==
    /\ Step(p, "append", "names")
    /\ layouts' = [layouts EXCEPT ![optsOf(p).OCILayoutPath] = @ \cup {p}]
    /\ UNCHANGED <<dest, tries, registry, digestFile, nameFile, tarFile, outputs>>

NamesOf(p) == {<<Destinations(p)[i], p>> : i \in DOMAIN Destinations(p)}

writeNamesAndTar(p) ==
    /\ Step(p, "names", IF optsOf(p).NoPush THEN "done" ELSE "push")
    /\ nameFile' = IF optsOf(p).ImageNameDigestFile THEN NamesOf(p) ELSE nameFile
    /\ tarFile' = IF optsOf(p).TarPath THEN NamesOf(p) ELSE tarFile
    /\ UNCHANGED <<dest, tries, registry, digestFile, layouts, outputs>>

\* Any of the writes may fail.
writeFails(p) ==
    /\ \E from \in {"digest", "layout", "append", "names"} : Step(p, from, "failed")
    /\ UNCHANGED <<dest, tries, registry, files>>

NextDest(p) == Destinations(p)[dest[p] + 1]

(***************************************************************************)
(* One attempt at a destination, the operation of util.Retry: the registry *)
(* takes it, or calls the tag immutable, which may be ignored.             *)
(***************************************************************************)
Refused(p) == NextDest(p) \in Immutable /\ registry[NextDest(p)] \notin {None, p}

\* Mutant: an immutable tag is never an error.
remoteWriteIgnoring(p) ==
    /\ pc[p] = "push" /\ dest[p] < Len(Destinations(p))
    /\ RepoOf(NextDest(p)) \notin denied
    /\ Step(p, "push", "push")
    /\ registry' = IF Refused(p) THEN registry ELSE [registry EXCEPT ![NextDest(p)] = p]
    /\ dest' = [dest EXCEPT ![p] = @ + 1]
    /\ tries' = [tries EXCEPT ![p] = 0]
    /\ UNCHANGED files

remoteWrite(p) ==
    /\ pc[p] = "push" /\ dest[p] < Len(Destinations(p))
    /\ RepoOf(NextDest(p)) \notin denied
    /\ ~Refused(p) \/ optsOf(p).PushIgnoreImmutableTagErrors
    /\ Step(p, "push", "push")
    /\ registry' = IF Refused(p) THEN registry ELSE [registry EXCEPT ![NextDest(p)] = p]
    /\ dest' = [dest EXCEPT ![p] = @ + 1]
    /\ tries' = [tries EXCEPT ![p] = 0]
    /\ UNCHANGED files

triesAgain(p) == tries[p] < optsOf(p).PushRetry

(***************************************************************************)
(* An attempt that fails, for a while or for good, or that went through    *)
(* and whose answer is lost; Retry goes on while it may.                   *)
(***************************************************************************)
remoteWriteFails(p) ==
    /\ pc[p] = "push" /\ dest[p] < Len(Destinations(p))
    /\ Step(p, "push", IF triesAgain(p) THEN "push" ELSE "failed")
    /\ tries' = [tries EXCEPT ![p] = @ + 1]
    /\ \/ UNCHANGED registry
       \/ /\ RepoOf(NextDest(p)) \notin denied /\ ~Refused(p)
          /\ registry' = [registry EXCEPT ![NextDest(p)] = p]
    /\ UNCHANGED <<dest, files>>

(***************************************************************************)
(* An error may come before the file is made or between two of its lines.  *)
(***************************************************************************)
writeImageOutputs(p) ==
    /\ pc[p] = "push" /\ dest[p] = Len(Destinations(p))
    /\ \/ Step(p, "push", "done") /\ outputs' = NamesOf(p)
       \/ Step(p, "push", "failed") /\ outputs' \in {outputs} \cup SUBSET NamesOf(p)
    /\ UNCHANGED <<dest, tries, registry, digestFile, nameFile, layouts, tarFile>>

DoPush(p) ==
    \/ writeDigestFile(p)
    \/ writeEmptyLayout(p)
    \/ AppendImage(p)
    \/ writeNamesAndTar(p)
    \/ writeFails(p)
    \/ remoteWrite(p)
    \/ remoteWriteFails(p)
    \/ writeImageOutputs(p)

exit ==
    /\ stage = "push" /\ Ended(Image)
    /\ stage' = IF pc[Image] = "done" THEN "succeeded" ELSE "exited"
    /\ UNCHANGED <<opts, denied, pc, dest, tries, registry, files>>

\* Another build pushes to a tag.
otherPush(t) ==
    /\ registry[t] = None \/ (t \notin Immutable /\ registry[t] # Other)
    /\ registry' = [registry EXCEPT ![t] = Other]
    /\ UNCHANGED <<opts, denied, stage, pc, dest, tries, files>>

Next ==
    \/ CheckPushPermissions
    \/ \E p \in Layer : startCachePush(p)
    \/ buildFails
    \/ startPush
    \/ \E p \in Pusher : DoPush(p)
    \/ exit
    \/ \E t \in Tag : otherPush(t)

Spec == Init /\ [][Next]_vars

-----------------------------------------------------------------------------
(***************************************************************************)
(* Properties.                                                             *)
(***************************************************************************)
PCs == {"waiting", "digest", "layout", "append", "names", "push", "done", "failed"}

(***************************************************************************)
(* The state has its types; a push has no more attempts than --push-retry. *)
(***************************************************************************)
TypeOK ==
    /\ opts \in Options
    /\ stage \in {"check", "build", "push", "succeeded", "exited"}
    /\ pc \in [Pusher -> PCs]
    /\ \A p \in Pusher : dest[p] \in 0 .. Len(Destinations(p))
    /\ \A p \in Pusher : tries[p] \in 0 .. optsOf(p).PushRetry + 1
    /\ registry \in [Tag \cup Layer -> Layer \cup {Image, Other, None}]
    /\ digestFile \in Pusher \cup {None}
    /\ DOMAIN layouts = Layer \cup {"out"}

(***************************************************************************)
(* README, --digest-file, --oci-layout-path, --image-name-with-digest-file *)
(* and --tar-path are about the image built: although every push of a      *)
(* cached layer writes the same files, and starts the same OCI layout      *)
(* anew, when the run has succeeded they are about the image and nothing   *)
(* else.                                                                   *)
(***************************************************************************)
OutputsAreOfTheImage ==
    stage = "succeeded" =>
        /\ opts.DigestFile => digestFile = Image
        /\ opts.OCILayoutPath # None => layouts["out"] = {Image}
        /\ opts.ImageNameDigestFile => nameFile = NamesOf(Image)
        /\ tarFile = IF opts.TarPath THEN NamesOf(Image) ELSE {}
        /\ ~opts.NoPush => outputs = NamesOf(Image)

(***************************************************************************)
(* A run that succeeds has pushed the image to every destination, unless   *)
(* other builds pushed there; to an immutable tag only one of them can     *)
(* have, and the other succeeds only with --push-ignore-immutable-tag-     *)
(* errors.                                                                 *)
(***************************************************************************)
PushedEverywhere ==
    stage = "succeeded" /\ ~opts.NoPush =>
        \A i \in DOMAIN opts.Destinations :
            LET t == opts.Destinations[i]
            IN \/ registry[t] = Image
               \/ registry[t] = Other /\ (t \in Immutable => opts.PushIgnoreImmutableTagErrors)

(***************************************************************************)
(* README, --no-push: "this will still push cache layers to the repo";     *)
(* --no-push-cache: "do not want to push cache layers".  Each of the flags *)
(* keeps its own kind of tag untouched, and only that one: a push of a     *)
(* layer that ended well left the layer in the repository.                 *)
(***************************************************************************)
FlagsDecideWhatIsPushed ==
    /\ opts.NoPush => \A t \in Tag : registry[t] \in {None, Other}
    /\ opts.NoPushCache => \A p \in Layer : registry[p] = None
    /\ \A p \in Layer : pc[p] = "done" => registry[p] = p \/ p \in layouts[p]

(***************************************************************************)
(* Unless the check is skipped, an image is built only if its destinations *)
(* can be pushed to: the credentials are not what a push fails on later.   *)
(***************************************************************************)
NoLateDenial ==
    pc[Image] = "failed" /\ tries[Image] > 0 =>
        RepoOf(NextDest(Image)) \notin denied \/ opts.SkipPushPermissionCheck

=============================================================================
