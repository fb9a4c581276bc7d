----------------------------- MODULE BaseImages -----------------------------
(***************************************************************************)
(* Where base images come from: pkg/image/remote/remote.go (registries and *)
(* their mirrors), pkg/image/image_util.go (RetrieveSourceImage) and the   *)
(* directory of warmed images that warmers fill and executors read         *)
(* (pkg/cache/warm.go, LocalSource in pkg/cache/cache.go).                 *)
(*                                                                         *)
(* An image is its digest.  A name is a digest or a tag, and tags move at  *)
(* any time, on the registry and on its mirrors.  Processes share the      *)
(* directory and nothing else; any of them may be killed at any point.     *)
(* os.CreateTemp is taken to give names that nobody uses again.            *)
(***************************************************************************)
EXTENDS Naturals, Sequences, FiniteSets

CONSTANTS
    Warmer, Executor,       \* processes
    Tag, Digest,            \* names of images
    Mirrors,                \* what RegistryMaps has for the registry, in order
    Default,                \* the registry itself
    ImageDownloadRetry,
    WarmerRun, ExecutorRun, \* the arguments processes may have
    None, Part              \* no file, a file that is not complete

ASSUME RetryAssumption == ImageDownloadRetry \in Nat

ASSUME NamesAssumption ==
    /\ Tag \cap Digest = {}
    /\ None \notin Digest \cup {Part}
    /\ Part \notin Digest
    /\ Warmer \cap Executor = {}

ASSUME RunAssumption ==
    /\ \A r \in WarmerRun \cup ExecutorRun :
         /\ DOMAIN r = {"images", "Force", "CacheDir", "SkipDefaultRegistryFallback"}
         /\ r.images \in Seq(Tag \cup Digest) \ {<< >>}
    /\ \A r \in WarmerRun : r.CacheDir
    /\ \A r \in ExecutorRun : ~r.Force

Process == Warmer \cup Executor

Name == Tag \cup Digest

Registry == {Mirrors[i] : i \in DOMAIN Mirrors} \cup {Default}

ASSUME MirrorsAssumption == Mirrors \in Seq(Registry)

VARIABLES
    tags,           \* the image of each tag, on each registry
    dir,            \* the cache directory: [tar, mfst, old], by digest
    opts,           \* the arguments of each process, images among them
    pc,
    done,           \* how many of its images the process is past
    why,            \* what RetrieveRemoteImage is called for
    ask, tries,     \* the registries that are left to ask, failures of the first
    manifestCache,
    digest,         \* the image at hand
    temp,           \* the temporary files: [tar, mfst]
    errs,           \* names that could not be warmed
    used            \* history: the images an executor went on with, by name

vars == <<tags, dir, opts, pc, done, why, ask, tries, manifestCache, digest, temp,
          errs, used>>

image(p) == opts[p].images[done[p] + 1]

NoFiles == [tar |-> None, mfst |-> None]

Ended == {"ok", "failed", "killed"}

-----------------------------------------------------------------------------
Init ==
    /\ tags \in [Registry -> [Tag -> Digest]]
    /\ dir = [d \in Digest |-> [tar |-> None, mfst |-> None, old |-> FALSE]]
    /\ opts \in [Process -> WarmerRun \cup ExecutorRun]
    /\ \A p \in Warmer : opts[p] \in WarmerRun
    /\ \A p \in Executor : opts[p] \in ExecutorRun
    /\ pc = [p \in Process |-> "next"]
    /\ done = [p \in Process |-> 0]
    /\ why = [p \in Process |-> "image"]
    /\ ask = [p \in Process |-> << >>]
    /\ tries = [p \in Process |-> 0]
    /\ manifestCache = [p \in Process |-> [n \in Name |-> None]]
    /\ digest = [p \in Process |-> None]
    /\ temp = [p \in Process |-> NoFiles]
    /\ errs = [p \in Process |-> 0]
    /\ used = [p \in Process |-> {}]

(***************************************************************************)
(* RetrieveRemoteImage.                                                    *)
(***************************************************************************)
registries(o) ==
    IF Mirrors # << >> /\ o.SkipDefaultRegistryFallback THEN Mirrors
    ELSE Append(Mirrors, Default)

\* Mutant: the mirror that failed is asked again.
sameRegistries(a) == a

\* Those that follow the one that failed.
otherRegistries(a) == Tail(a)

RetrieveRemoteImage(p, for) ==
    /\ pc' = [pc EXCEPT ![p] = "ask"]
    /\ why' = [why EXCEPT ![p] = for]
    /\ ask' = [ask EXCEPT ![p] = registries(opts[p])]
    /\ tries' = [tries EXCEPT ![p] = 0]

\* What a process holds of one image.
Forget(p) ==
    /\ why' = [why EXCEPT ![p] = "image"]
    /\ ask' = [ask EXCEPT ![p] = << >>]
    /\ tries' = [tries EXCEPT ![p] = 0]
    /\ digest' = [digest EXCEPT ![p] = None]

nextImage(p) ==
    /\ pc' = [pc EXCEPT ![p] = "next"]
    /\ done' = [done EXCEPT ![p] = @ + 1]
    /\ temp' = [temp EXCEPT ![p] = NoFiles]
    /\ Forget(p)

goesOnWith(p, img) ==
    /\ used' = [used EXCEPT ![p] = @ \cup {[name |-> image(p), image |-> img]}]
    /\ nextImage(p)

(***************************************************************************)
(* What the callers do with the manifest: cachedImage looks for its digest *)
(* in the directory, RetrieveSourceImage returns it, Warm looks for it     *)
(* unless it is told to overwrite.                                         *)
(***************************************************************************)
returns(p, d) ==
    /\ IF why[p] = "image" THEN goesOnWith(p, d)
       ELSE /\ pc' = [pc EXCEPT ![p] = IF opts[p].Force THEN "tar" ELSE "local"]
            /\ digest' = [digest EXCEPT ![p] = d]
            /\ UNCHANGED <<done, why, ask, tries, temp, used>>
    /\ UNCHANGED errs

\* A manifest is asked for once in the life of a process.
remembered(p) ==
    /\ pc[p] = "ask" /\ manifestCache[p][image(p)] # None
    /\ returns(p, manifestCache[p][image(p)])
    /\ UNCHANGED <<tags, dir, opts, manifestCache>>

\* Mutant: what a mirror says is not remembered.
answersFromMirrorUnremembered(p) ==
    LET r == Head(ask[p])
        d == IF image(p) \in Digest THEN image(p) ELSE tags[r][image(p)]
    IN /\ pc[p] = "ask" /\ manifestCache[p][image(p)] = None
       /\ manifestCache' = IF r # Default THEN manifestCache
                           ELSE [manifestCache EXCEPT ![p][image(p)] = d]
       /\ returns(p, d)
       /\ UNCHANGED <<tags, dir, opts>>

(***************************************************************************)
(* A registry answers.                                                     *)
(***************************************************************************)
answers(p) ==
    LET d == IF image(p) \in Digest THEN image(p) ELSE tags[Head(ask[p])][image(p)]
    IN /\ pc[p] = "ask" /\ manifestCache[p][image(p)] = None
       /\ manifestCache' = [manifestCache EXCEPT ![p][image(p)] = d]
       /\ returns(p, d)
       /\ UNCHANGED <<tags, dir, opts>>

(***************************************************************************)
(* Deferred at the start of warmToFile: the temporary files go away; the   *)
(* loop of WarmCache counts the error and goes on.                         *)
(***************************************************************************)
warmFails(p) ==
    /\ errs' = [errs EXCEPT ![p] = @ + 1]
    /\ nextImage(p)

\* RetryWithResult.
Retry(p) == tries[p] < ImageDownloadRetry

(***************************************************************************)
(* A registry does not answer, or does not have the image: it is asked     *)
(* again, then the next one is; an error of the last one is the result.    *)
(* cachedImage's error is only logged, and the image is asked for again.   *)
(***************************************************************************)
askFails(p) ==
    /\ pc[p] = "ask" /\ manifestCache[p][image(p)] = None
    /\ \/ /\ Retry(p)
          /\ tries' = [tries EXCEPT ![p] = @ + 1]
          /\ UNCHANGED <<pc, why, ask, done, digest, temp, errs>>
       \/ /\ ~Retry(p) /\ Len(ask[p]) > 1
          /\ ask' = [ask EXCEPT ![p] = otherRegistries(@)]
          /\ tries' = [tries EXCEPT ![p] = 0]
          /\ UNCHANGED <<pc, why, done, digest, temp, errs>>
       \/ /\ ~Retry(p) /\ Len(ask[p]) = 1 /\ why[p] = "key"
          /\ RetrieveRemoteImage(p, "image")
          /\ UNCHANGED <<done, digest, temp, errs>>
       \/ /\ ~Retry(p) /\ Len(ask[p]) = 1 /\ why[p] = "image"
          /\ pc' = [pc EXCEPT ![p] = "failed"]
          /\ Forget(p)
          /\ UNCHANGED <<done, temp, errs>>
       \/ /\ ~Retry(p) /\ Len(ask[p]) = 1 /\ why[p] = "warm"
          /\ warmFails(p)
    /\ UNCHANGED <<tags, dir, opts, manifestCache, used>>

(***************************************************************************)
(* LocalSource: the image under its digest, if there is one, it is not too *)
(* old and it can be read.                                                 *)
(***************************************************************************)
LocalSource(d) ==
    IF dir[d].tar = None THEN "not found"
    ELSE IF dir[d].old THEN "expired"
    ELSE IF dir[d].tar = Part THEN "error"
    ELSE "found"

-----------------------------------------------------------------------------
(***************************************************************************)
(* RetrieveSourceImage.  The directory is looked at first, under the       *)
(* digest in the name or the digest that the registry has for the tag.     *)
(***************************************************************************)
RetrieveSourceImage(p) ==
    /\ pc[p] = "next" /\ done[p] < Len(opts[p].images)
    /\ IF opts[p].CacheDir /\ image(p) \in Digest
       THEN /\ pc' = [pc EXCEPT ![p] = "local"]
            /\ digest' = [digest EXCEPT ![p] = image(p)]
            /\ UNCHANGED <<why, ask, tries>>
       ELSE /\ RetrieveRemoteImage(p, IF opts[p].CacheDir THEN "key" ELSE "image")
            /\ UNCHANGED digest
    /\ UNCHANGED <<tags, dir, opts, done, manifestCache, temp, errs, used>>

cachedImage(p) ==
    /\ pc[p] = "local"
    /\ IF LocalSource(digest[p]) = "found"
       THEN goesOnWith(p, dir[digest[p]].tar)
       ELSE RetrieveRemoteImage(p, "image") /\ UNCHANGED <<done, digest, temp, used>>
    /\ UNCHANGED <<tags, dir, opts, manifestCache, errs>>

execute(p) == RetrieveSourceImage(p) \/ cachedImage(p)

-----------------------------------------------------------------------------
(***************************************************************************)
(* warmToFile and Warm, up to the registry.                                *)
(***************************************************************************)
warmToFile(p) ==
    /\ pc[p] = "next" /\ done[p] < Len(opts[p].images)
    /\ RetrieveRemoteImage(p, "warm")
    /\ UNCHANGED <<tags, dir, opts, done, manifestCache, digest, temp, errs, used>>

(***************************************************************************)
(* An image that is there already is left alone, even if it is too old to  *)
(* be used.                                                                *)
(***************************************************************************)
IsAlreadyCached(d) == LocalSource(d) \in {"found", "expired"}

Warm(p) ==
    /\ pc[p] = "local"
    /\ IF IsAlreadyCached(digest[p]) THEN nextImage(p)
       ELSE /\ pc' = [pc EXCEPT ![p] = "tar"]
            /\ UNCHANGED <<done, why, ask, tries, digest, temp>>
    /\ UNCHANGED <<tags, dir, opts, manifestCache, errs, used>>

\* Mutant: the image is written where executors look for it.
startTarInPlace(p) ==
    /\ pc[p] = "tar"
    /\ pc' = [pc EXCEPT ![p] = "writing"]
    /\ temp' = [temp EXCEPT ![p].tar = Part]
    /\ dir' = [dir EXCEPT ![digest[p]].tar = Part]
    /\ UNCHANGED <<tags, opts, done, why, ask, tries, manifestCache, digest, errs, used>>

(***************************************************************************)
(* tarball.Write to the temporary file takes its time: it downloads the    *)
(* layers.  The manifest is written after it.                              *)
(***************************************************************************)
startTar(p) ==
    /\ pc[p] = "tar"
    /\ pc' = [pc EXCEPT ![p] = "writing"]
    /\ temp' = [temp EXCEPT ![p].tar = Part]
    /\ UNCHANGED <<tags, dir, opts, done, why, ask, tries, manifestCache, digest, errs, used>>

writeTarAndManifest(p) ==
    /\ pc[p] = "writing"
    /\ pc' = [pc EXCEPT ![p] = "rename tar"]
    /\ temp' = [temp EXCEPT ![p] = [tar |-> digest[p], mfst |-> digest[p]]]
    /\ UNCHANGED <<tags, dir, opts, done, why, ask, tries, manifestCache, digest, errs, used>>

renameTar(p) ==
    /\ pc[p] = "rename tar"
    /\ pc' = [pc EXCEPT ![p] = "rename manifest"]
    /\ dir' = [dir EXCEPT ![digest[p]].tar = temp[p].tar, ![digest[p]].old = FALSE]
    /\ temp' = [temp EXCEPT ![p].tar = None]
    /\ UNCHANGED <<tags, opts, done, why, ask, tries, manifestCache, digest, errs, used>>

renameManifest(p) ==
    /\ pc[p] = "rename manifest"
    /\ dir' = [dir EXCEPT ![digest[p]].mfst = temp[p].mfst]
    /\ nextImage(p)
    /\ UNCHANGED <<tags, opts, manifestCache, errs, used>>

\* Mutant: an error on the way is not counted.
warmToFileFailsSilently(p) ==
    /\ \/ pc[p] = "next" /\ done[p] < Len(opts[p].images)
       \/ pc[p] \in {"writing", "rename tar", "rename manifest"}
    /\ nextImage(p)
    /\ UNCHANGED <<tags, dir, opts, manifestCache, errs, used>>

(***************************************************************************)
(* A file cannot be made, written or renamed, or a layer not downloaded.   *)
(***************************************************************************)
warmToFileFails(p) ==
    /\ \/ pc[p] = "next" /\ done[p] < Len(opts[p].images)
       \/ pc[p] \in {"writing", "rename tar", "rename manifest"}
    /\ warmFails(p)
    /\ UNCHANGED <<tags, dir, opts, manifestCache, used>>

warm(p) ==
    \/ warmToFile(p) \/ Warm(p) \/ startTar(p) \/ writeTarAndManifest(p)
    \/ renameTar(p) \/ renameManifest(p) \/ warmToFileFails(p)

-----------------------------------------------------------------------------
(***************************************************************************)
(* The end of a process: WarmCache fails if it warmed nothing at all.      *)
(***************************************************************************)
end(p) ==
    /\ pc[p] = "next" /\ done[p] = Len(opts[p].images)
    /\ pc' = [pc EXCEPT ![p] = IF errs[p] = Len(opts[p].images) THEN "failed" ELSE "ok"]
    /\ UNCHANGED <<tags, dir, opts, done, why, ask, tries, manifestCache, digest, temp,
                   errs, used>>

\* SIGKILL: the temporary files stay.
kill(p) ==
    /\ pc[p] \notin Ended
    /\ pc' = [pc EXCEPT ![p] = "killed"]
    /\ manifestCache' = [manifestCache EXCEPT ![p] = [n \in Name |-> None]]
    /\ Forget(p)
    /\ UNCHANGED <<tags, dir, opts, done, temp, errs, used>>

moveTag(r, t, d) ==
    /\ tags' = [tags EXCEPT ![r][t] = d]
    /\ UNCHANGED <<dir, opts, pc, done, why, ask, tries, manifestCache, digest, temp,
                   errs, used>>

\* CacheTTL has passed since the file was written.
expire(d) ==
    /\ dir[d].tar # None /\ ~dir[d].old
    /\ dir' = [dir EXCEPT ![d].old = TRUE]
    /\ UNCHANGED <<tags, opts, pc, done, why, ask, tries, manifestCache, digest, temp,
                   errs, used>>

step(p) == \/ remembered(p) \/ answers(p) \/ askFails(p) \/ end(p)
           \/ p \in Warmer /\ warm(p)
           \/ p \in Executor /\ execute(p)

Next ==
    \/ \E p \in Process : step(p) \/ kill(p)
    \/ \E r \in Registry, t \in Tag, d \in Digest : moveTag(r, t, d)
    \/ \E d \in Digest : expire(d)

(***************************************************************************)
(* A process waits for a registry that was asked for a manifest or sends   *)
(* the layers of an image.  Neither the requests nor the transport have a  *)
(* time-out for the answer, so it may wait for ever.                       *)
(***************************************************************************)
Waits(p) ==
    \/ pc[p] = "ask" /\ manifestCache[p][image(p)] = None
    \/ pc[p] = "writing"

(***************************************************************************)
(* A process that is not killed goes on where it does not wait.            *)
(***************************************************************************)
Spec == Init /\ [][Next]_vars /\ \A p \in Process : WF_vars(~Waits(p) /\ step(p))

-----------------------------------------------------------------------------
(***************************************************************************)
(* Properties.                                                             *)
(***************************************************************************)
File == Digest \cup {None, Part}

\* The state has its types.  A registry is asked at most ImageDownloadRetry times again.
TypeOK ==
    /\ tags \in [Registry -> [Tag -> Digest]]
    /\ dir \in [Digest -> [tar : File, mfst : File, old : BOOLEAN]]
    /\ done \in [Process -> Nat]
    /\ \A p \in Process : done[p] <= Len(opts[p].images) /\ errs[p] <= done[p]
    /\ tries \in [Process -> 0 .. ImageDownloadRetry]
    /\ manifestCache \in [Process -> [Name -> Digest \cup {None}]]
    /\ temp \in [Process -> [tar : File, mfst : File]]

(***************************************************************************)
(* DoBuild retrieves a base image twice, once to collect the files that    *)
(* other stages copy and once to build on it.  All retrievals of one name  *)
(* in one run give the same image, and a digest gives its image, though    *)
(* tags move, mirrors differ and fail, warmers come and go and entries of  *)
(* the directory expire in between.                                        *)
(***************************************************************************)
OneNameOneImage ==
    \A p \in Executor : \A u, v \in used[p] :
        /\ u.name = v.name => u.image = v.image
        /\ u.name \in Digest => u.image = u.name

(***************************************************************************)
(* What lies in the directory under a digest is that image, whole, and its *)
(* manifest, whatever warmers were killed or failed.                       *)
(***************************************************************************)
FilesAreWhole ==
    \A d \in Digest : dir[d].tar \in {None, d} /\ dir[d].mfst \in {None, d}

(***************************************************************************)
(* WarmCache's count of errors is honest: an image that was asked for, and *)
(* is not in the directory when the warmer is past it, was counted.        *)
(***************************************************************************)
MissingIsCounted ==
    \A p \in Warmer :
        LET there(n) == manifestCache[p][n] # None /\ dir[manifestCache[p][n]].tar # None
            missing == {i \in 1 .. done[p] : ~there(opts[p].images[i])}
        IN pc[p] # "killed" => Cardinality(missing) <= errs[p]

(***************************************************************************)
(* Every warmer and every build gets past its base images, however often   *)
(* registries fail and whatever the other processes do, unless one of its  *)
(* own requests is never answered: it does not ask for ever.               *)
(***************************************************************************)
Request(p) == <<done[p], why[p], ask[p], tries[p]>>

RunsEnd ==
    \A p \in Process :
        \/ <>(pc[p] \in Ended)
        \/ <>[]Waits(p) /\ <>[][UNCHANGED Request(p)]_vars

=============================================================================
