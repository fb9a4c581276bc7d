----------------------------- MODULE PushProofs -----------------------------
(***************************************************************************)
(* Proofs about Push, for any options, layers, tags, repositories and      *)
(* denials.                                                                *)
(***************************************************************************)
EXTENDS Push, SequenceTheorems, TLAPS

TypeInv ==
    /\ opts \in Options
    /\ stage \in {"check", "build", "push", "succeeded", "exited"}
    /\ pc \in [Pusher -> PCs]
    /\ dest \in [Pusher -> Nat]
    /\ tries \in [Pusher -> Nat]
    /\ registry \in [Tag \cup Layer -> Layer \cup {Image, Other, None}]
    /\ layouts \in [Layer \cup {"out"} -> SUBSET Pusher]

(***************************************************************************)
(* The stages of a run: layers are pushed while the stage is built, and    *)
(* with the cache on; the image when they are, and only if the check of    *)
(* permissions passed.                                                     *)
(***************************************************************************)
StageInv ==
    /\ stage = "check" => \A p \in Pusher : pc[p] = "waiting"
    /\ stage = "build" => pc[Image] = "waiting"
    /\ stage \in {"push", "succeeded"} => waited
    /\ stage = "succeeded" => pc[Image] = "done"
    /\ stage \in {"build", "push"} \/ pc[Image] # "waiting" => CheckedRepos \cap denied = {}
    /\ \A p \in Layer : pc[p] # "waiting" => ~opts.NoPushCache

Writing == {"waiting", "digest", "layout", "append", "names"}

(***************************************************************************)
(* One DoPush: it has pushed to as many destinations as dest says, and to  *)
(* all of them when it is done; what was tried in vain is still to come.   *)
(***************************************************************************)
PusherInv(p) ==
    /\ dest[p] <= Len(Destinations(p))
    /\ pc[p] \in Writing => dest[p] = 0 /\ tries[p] = 0
    /\ pc[p] = "push" => ~optsOf(p).NoPush
    /\ tries[p] > 0 => dest[p] < Len(Destinations(p)) /\ ~optsOf(p).NoPush
    /\ pc[p] = "done" /\ ~optsOf(p).NoPush => dest[p] = Len(Destinations(p))
    /\ pc[p] = "append" => optsOf(p).OCILayoutPath # None

(***************************************************************************)
(* The files of the run once the push of the image has written them, which *)
(* no push of a layer does after that.                                     *)
(***************************************************************************)
FileInv ==
    /\ pc[Image] \in {"layout", "append", "names", "push", "done"} /\ opts.DigestFile =>
         digestFile = Image
    /\ pc[Image] = "append" => layouts["out"] = {}
    /\ pc[Image] \in {"names", "push", "done"} /\ opts.OCILayoutPath # None =>
         layouts["out"] = {Image}
    /\ pc[Image] \in {"push", "done"} /\ opts.ImageNameDigestFile => nameFile = NamesOf(Image)
    /\ pc[Image] \in Writing \/ ~opts.TarPath => tarFile = {}
    /\ pc[Image] \in {"push", "done"} /\ opts.TarPath => tarFile = NamesOf(Image)
    /\ pc[Image] = "done" /\ ~opts.NoPush => outputs = NamesOf(Image)

(***************************************************************************)
(* A tag that the image was pushed to.                                     *)
(***************************************************************************)
Delivered(t) ==
    \/ registry[t] = Image
    \/ registry[t] = Other /\ (t \in Immutable => opts.PushIgnoreImmutableTagErrors)

(***************************************************************************)
(* The registries: tags hold the image or another build's, layers are at   *)
(* their own tags; what was pushed is there.                               *)
(***************************************************************************)
TagInv ==
    /\ \A t \in Tag : registry[t] \in {None, Image, Other}
    /\ opts.NoPush => \A t \in Tag : registry[t] # Image
    /\ ~opts.NoPush => \A i \in 1 .. dest[Image] : Delivered(opts.Destinations[i])

LayerInv ==
    \A p \in Layer :
        /\ registry[p] \in {None, p}
        /\ pc[p] \in Writing => registry[p] = None
        /\ dest[p] > 0 => registry[p] = p
        /\ opts.CacheRepo = "oci" /\ pc[p] \in {"names", "push", "done"} => p \in layouts[p]

IInv ==
    /\ TypeInv /\ StageInv /\ FileInv /\ TagInv /\ LayerInv
    /\ \A p \in Pusher : PusherInv(p)

-----------------------------------------------------------------------------
(***************************************************************************)
(* The types of the options.                                               *)
(***************************************************************************)
LEMMA OptionTypes ==
    ASSUME opts \in Options
    PROVE  /\ opts.Destinations \in Seq(Tag) /\ Len(opts.Destinations) \in Nat
           /\ \A i \in 1 .. Len(opts.Destinations) : opts.Destinations[i] \in Tag
           /\ opts.OCILayoutPath \in {None, "out"}
           /\ opts.NoPush \in BOOLEAN /\ opts.NoPushCache \in BOOLEAN /\ opts.TarPath \in BOOLEAN
           /\ opts.PushIgnoreImmutableTagErrors \in BOOLEAN
<1>1. /\ opts.Destinations \in Seq(Tag)
      /\ opts.OCILayoutPath \in {None, "out"}
      /\ opts.NoPush \in BOOLEAN /\ opts.NoPushCache \in BOOLEAN /\ opts.TarPath \in BOOLEAN
      /\ opts.PushIgnoreImmutableTagErrors \in BOOLEAN
  BY PushAssumption
<1>. QED
  BY <1>1, ElementOfSeq, LenProperties

(***************************************************************************)
(* The options that pushLayerToCache gives to the push of a layer.         *)
(***************************************************************************)
LEMMA LayerOptions ==
    ASSUME opts \in Options, NEW p \in Layer
    PROVE  /\ p # Image /\ p # None /\ p # "out" /\ p \notin Tag
           /\ optsOf(p).NoPush <=> opts.NoPushCache \/ opts.CacheRepo = "oci"
           /\ optsOf(p).TarPath = FALSE
           /\ optsOf(p).OCILayoutPath = IF opts.CacheRepo = "oci" THEN p ELSE opts.OCILayoutPath
           /\ Destinations(p) = <<p>>
<1>1. p # Image /\ p # None /\ p # "out" /\ p \notin Tag
  BY PushAssumption
<1>2. opts \in [Destinations : Seq(Tag), NoPush : BOOLEAN, NoPushCache : BOOLEAN, Cache : BOOLEAN,
          CacheRepo : STRING, DigestFile : BOOLEAN, ImageNameDigestFile : BOOLEAN,
          OCILayoutPath : {None, "out"}, TarPath : BOOLEAN, PushRetry : Nat,
          PushIgnoreImmutableTagErrors : BOOLEAN, SkipPushPermissionCheck : BOOLEAN]
  BY PushAssumption
<1>3. optsOf(p) = cacheOpts(p)
  BY <1>1 DEF optsOf
<1>4. /\ cacheOpts(p).NoPush <=> opts.NoPushCache \/ opts.CacheRepo = "oci"
      /\ cacheOpts(p).TarPath = FALSE
      /\ cacheOpts(p).OCILayoutPath = IF opts.CacheRepo = "oci" THEN p ELSE opts.OCILayoutPath
      /\ cacheOpts(p).Destinations = <<p>>
  BY <1>2 DEF cacheOpts
<1>5. Destinations(p) = <<p>>
  BY <1>3, <1>4 DEF Destinations
<1>. QED
  BY <1>1, <1>3, <1>4, <1>5

(***************************************************************************)
(* The push of the image has the options of the run.                       *)
(***************************************************************************)
LEMMA ImageOptions ==
    /\ optsOf(Image) = opts
    /\ ~opts.NoPush => Destinations(Image) = opts.Destinations
BY DEF optsOf, Destinations

(***************************************************************************)
(* The number of destinations.                                             *)
(***************************************************************************)
LEMMA DestinationsType ==
    ASSUME opts \in Options, NEW p \in Pusher
    PROVE  Len(Destinations(p)) \in Nat
<1>1. CASE p \in Layer
  BY <1>1, LayerOptions
<1>2. CASE p = Image
  BY <1>2, OptionTypes DEF Destinations, optsOf
<1>. QED
  BY <1>1, <1>2 DEF Pusher

(***************************************************************************)
(* The options of a run stay, and all that depends on them alone.          *)
(***************************************************************************)
LEMMA SameOptions ==
    ASSUME UNCHANGED opts
    PROVE  /\ \A p : optsOf(p)' = optsOf(p) /\ Destinations(p)' = Destinations(p)
                     /\ NamesOf(p)' = NamesOf(p)
           /\ CheckedRepos' = CheckedRepos
BY DEF optsOf, cacheOpts, Destinations, NamesOf, CheckedRepos

(***************************************************************************)
(* What a step of p leaves alone.                                          *)
(***************************************************************************)
LEMMA OtherPushers ==
    ASSUME IInv, NEW p, UNCHANGED opts,
           \A q \in Pusher : q # p => /\ pc'[q] = pc[q] /\ dest'[q] = dest[q]
                                      /\ tries'[q] = tries[q]
    PROVE  \A q \in Pusher : q # p => PusherInv(q)'
BY SameOptions DEF IInv, PusherInv

(***************************************************************************)
(* A step of DoPush: a layer takes one only while the stage is built, and  *)
(* the image only when all layers are at rest.                             *)
(***************************************************************************)
Moving == {"digest", "layout", "append", "names", "push"}

LEMMA StepFacts ==
    ASSUME IInv, NEW p \in Pusher, NEW from \in Moving, NEW to \in PCs \ {"waiting"},
           Step(p, from, to)
    PROVE  /\ UNCHANGED <<opts, denied, stage>>
           /\ pc[p] = from /\ pc'[p] = to /\ pc' \in [Pusher -> PCs]
           /\ \A q \in Pusher : q # p => pc'[q] = pc[q]
           /\ p \in Layer => pc[Image] = "waiting"
           /\ StageInv'
<1>1. /\ UNCHANGED <<opts, denied, stage>> /\ stage \in {"build", "push"}
      /\ pc[p] = from /\ pc'[p] = to /\ pc' \in [Pusher -> PCs]
      /\ \A q \in Pusher : q # p => pc'[q] = pc[q]
  BY DEF Step, IInv, TypeInv
<1>2. p \in Layer => stage = "build" /\ pc[Image] = "waiting" /\ p # Image
  BY <1>1, PushAssumption DEF IInv, StageInv, waited, Ended, Moving
<1>3. p = Image => stage = "push"
  BY <1>1 DEF IInv, StageInv, Moving
<1>4. CheckedRepos' = CheckedRepos
  BY <1>1, SameOptions
<1>5. StageInv'
  BY <1>1, <1>2, <1>3, <1>4 DEF StageInv, IInv, waited, Ended, Moving, Pusher
<1>. QED
  BY <1>1, <1>2, <1>5

(***************************************************************************)
(* What the steps that write files have in common: they leave the          *)
(* registries alone, and take no other push any further.                   *)
(***************************************************************************)
LEMMA WriteStep ==
    ASSUME IInv, NEW p \in Pusher, NEW from \in Moving, NEW to \in PCs \ {"waiting"},
           Step(p, from, to), UNCHANGED <<registry, dest, tries>>,
           layouts' \in [Layer \cup {"out"} -> SUBSET Pusher],
           to \in Writing => from \in Writing
    PROVE  /\ UNCHANGED <<opts, denied, stage>> /\ pc[p] = from /\ pc'[p] = to
           /\ \A q \in Pusher : q # p => pc'[q] = pc[q]
           /\ p \in Layer => pc[Image] = "waiting"
           /\ TypeInv' /\ StageInv' /\ TagInv'
           /\ \A q \in Layer : /\ registry'[q] \in {None, q}
                               /\ pc'[q] \in Writing => registry'[q] = None
                               /\ dest'[q] > 0 => registry'[q] = q
           /\ \A q \in Pusher : q # p => PusherInv(q)'
<1>1. /\ UNCHANGED <<opts, denied, stage>> /\ pc[p] = from /\ pc'[p] = to
      /\ pc' \in [Pusher -> PCs]
      /\ \A q \in Pusher : q # p => pc'[q] = pc[q]
      /\ p \in Layer => pc[Image] = "waiting"
      /\ StageInv'
  BY StepFacts
<1>2. \A q \in Pusher : q # p => PusherInv(q)'
  BY <1>1, OtherPushers
<1>3. TagInv'
  BY <1>1 DEF IInv, TagInv, Delivered
<1>4. \A q \in Layer : /\ registry'[q] \in {None, q}
                       /\ pc'[q] \in Writing => registry'[q] = None
                       /\ dest'[q] > 0 => registry'[q] = q
  <2>1. \A q \in Layer : q \in Pusher
    BY DEF Pusher
  <2>. QED
    BY <1>1, <2>1 DEF IInv, LayerInv
<1>5. TypeInv'
  BY <1>1 DEF IInv, TypeInv
<1>. QED
  BY <1>1, <1>2, <1>3, <1>4, <1>5

(***************************************************************************)
(* The digest file.                                                        *)
(***************************************************************************)
LEMMA DigestIInv ==
    ASSUME IInv, NEW p \in Pusher, writeDigestFile(p)
    PROVE  IInv'
<1>1. Step(p, "digest", "layout") /\ UNCHANGED <<registry, dest, tries, layouts, nameFile, tarFile, outputs>>
  BY DEF writeDigestFile
<1>2. "digest" \in Moving /\ "layout" \in PCs \ {"waiting"} /\ "digest" \in Writing
  BY DEF Moving, PCs, Writing
<1>3. /\ UNCHANGED <<opts, denied, stage>> /\ pc[p] = "digest" /\ pc'[p] = "layout"
      /\ \A q \in Pusher : q # p => pc'[q] = pc[q]
      /\ p \in Layer => pc[Image] = "waiting"
      /\ TypeInv' /\ StageInv' /\ TagInv'
      /\ \A q \in Layer : /\ registry'[q] \in {None, q}
                          /\ pc'[q] \in Writing => registry'[q] = None
                          /\ dest'[q] > 0 => registry'[q] = q
      /\ \A q \in Pusher : q # p => PusherInv(q)'
  BY <1>1, <1>2, WriteStep DEF IInv, TypeInv
<1>4. PusherInv(p)'
  BY <1>1, <1>3, SameOptions DEF IInv, PusherInv, Writing
<1>5. LayerInv'
  BY <1>1, <1>3 DEF IInv, LayerInv, Pusher
<1>6. FileInv'
  <2>1. CASE p = Image
    BY <1>1, <1>3, <2>1, SameOptions, ImageOptions DEF IInv, FileInv, writeDigestFile, Writing
  <2>2. CASE p \in Layer
    BY <1>1, <1>3, <2>2, LayerOptions, SameOptions
       DEF IInv, TypeInv, FileInv, writeDigestFile, Writing, Pusher
  <2>. QED
    BY <2>1, <2>2 DEF Pusher
<1>. QED
  BY <1>3, <1>4, <1>5, <1>6 DEF IInv

(***************************************************************************)
(* An OCI layout is begun: nobody else has begun the same one, but for a   *)
(* layer before the image.                                                 *)
(***************************************************************************)
LEMMA LayoutIInv ==
    ASSUME IInv, NEW p \in Pusher, writeEmptyLayout(p)
    PROVE  IInv'
<1>. DEFINE path == optsOf(p).OCILayoutPath
            to == IF path = None THEN "names" ELSE "append"
<1>1. /\ Step(p, "layout", to)
      /\ UNCHANGED <<registry, dest, tries, digestFile, nameFile, tarFile, outputs>>
      /\ layouts' = IF path = None THEN layouts ELSE [layouts EXCEPT ![path] = {}]
  BY DEF writeEmptyLayout
<1>2. "layout" \in Moving /\ to \in PCs \ {"waiting"} /\ "layout" \in Writing
  BY DEF Moving, PCs, Writing
<1>3. /\ path \in Layer \cup {None, "out"}
      /\ p = Image => path = opts.OCILayoutPath /\ path \in {None, "out"}
      /\ p \in Layer => path = IF opts.CacheRepo = "oci" THEN p ELSE opts.OCILayoutPath
  BY OptionTypes, LayerOptions, ImageOptions DEF IInv, TypeInv, Pusher
<1>4. layouts' \in [Layer \cup {"out"} -> SUBSET Pusher]
  BY <1>1, <1>3 DEF IInv, TypeInv
<1>. HIDE DEF to
<1>5. /\ UNCHANGED <<opts, denied, stage>> /\ pc[p] = "layout" /\ pc'[p] = to
      /\ \A q \in Pusher : q # p => pc'[q] = pc[q]
      /\ p \in Layer => pc[Image] = "waiting"
      /\ TypeInv' /\ StageInv' /\ TagInv'
      /\ \A q \in Layer : /\ registry'[q] \in {None, q}
                          /\ pc'[q] \in Writing => registry'[q] = None
                          /\ dest'[q] > 0 => registry'[q] = q
      /\ \A q \in Pusher : q # p => PusherInv(q)'
  BY <1>1, <1>2, <1>4, WriteStep
<1>. USE DEF to
<1>6. PusherInv(p)'
  BY <1>1, <1>5, SameOptions DEF IInv, PusherInv, Writing
<1>7. LayerInv'
  <2>1. ASSUME NEW q \in Layer, opts.CacheRepo = "oci", pc'[q] \in {"names", "push", "done"}
        PROVE  q \in layouts'[q]
    <3>1. p \in Layer => path = p
      BY <1>3, <2>1
    <3>2. q # p
      BY <1>5, <2>1, <3>1, PushAssumption
    <3>3. pc[q] = pc'[q]
      BY <1>5, <3>2 DEF Pusher
    <3>4. path # q
      BY <1>3, <3>1, <3>2, PushAssumption DEF Pusher
    <3>5. layouts'[q] = layouts[q]
      BY <1>1, <1>3, <3>4 DEF IInv, TypeInv
    <3>. QED
      BY <2>1, <3>3, <3>5 DEF IInv, LayerInv
  <2>. QED
    BY <1>5, <2>1 DEF LayerInv
<1>8. FileInv'
  <2>1. CASE p = Image
    BY <1>1, <1>3, <1>5, <2>1, SameOptions, ImageOptions, PushAssumption
       DEF IInv, TypeInv, FileInv, Writing
  <2>2. CASE p \in Layer
    <3>1. pc'[Image] = "waiting"
      BY <1>5, <2>2, PushAssumption DEF Pusher
    <3>. QED
      BY <1>1, <1>5, <2>2, <3>1 DEF IInv, FileInv, Writing
  <2>. QED
    BY <2>1, <2>2 DEF Pusher
<1>. QED
  BY <1>5, <1>6, <1>7, <1>8 DEF IInv

(***************************************************************************)
(* The layer or the image is appended to its layout.                       *)
(***************************************************************************)
LEMMA AppendIInv ==
    ASSUME IInv, NEW p \in Pusher, AppendImage(p)
    PROVE  IInv'
<1>. DEFINE path == optsOf(p).OCILayoutPath
<1>1. /\ Step(p, "append", "names")
      /\ UNCHANGED <<registry, dest, tries, digestFile, nameFile, tarFile, outputs>>
      /\ layouts' = [layouts EXCEPT ![path] = @ \cup {p}]
  BY DEF AppendImage
<1>2. "append" \in Moving /\ "names" \in PCs \ {"waiting"} /\ "append" \in Writing
  BY DEF Moving, PCs, Writing
<1>3. /\ path \in Layer \cup {"out"}
      /\ p = Image => path = "out"
      /\ p \in Layer => path = IF opts.CacheRepo = "oci" THEN p ELSE opts.OCILayoutPath
  <2>1. path # None
    BY <1>1 DEF Step, IInv, PusherInv
  <2>. QED
    BY <2>1, OptionTypes, LayerOptions, ImageOptions DEF IInv, TypeInv, Pusher
<1>4. layouts' \in [Layer \cup {"out"} -> SUBSET Pusher]
  BY <1>1, <1>3 DEF IInv, TypeInv
<1>5. /\ UNCHANGED <<opts, denied, stage>> /\ pc[p] = "append" /\ pc'[p] = "names"
      /\ \A q \in Pusher : q # p => pc'[q] = pc[q]
      /\ p \in Layer => pc[Image] = "waiting"
      /\ TypeInv' /\ StageInv' /\ TagInv'
      /\ \A q \in Layer : /\ registry'[q] \in {None, q}
                          /\ pc'[q] \in Writing => registry'[q] = None
                          /\ dest'[q] > 0 => registry'[q] = q
      /\ \A q \in Pusher : q # p => PusherInv(q)'
  BY <1>1, <1>2, <1>4, WriteStep
<1>6. PusherInv(p)'
  BY <1>1, <1>5, SameOptions DEF IInv, PusherInv, Writing
<1>7. LayerInv'
  <2>1. ASSUME NEW q \in Layer, opts.CacheRepo = "oci", pc'[q] \in {"names", "push", "done"}
        PROVE  q \in layouts'[q]
    <3>1. CASE q = p
      BY <1>1, <1>3, <2>1, <3>1 DEF IInv, TypeInv
    <3>2. CASE q # p
      <4>1. q \in layouts[q]
        BY <1>5, <2>1, <3>2 DEF IInv, LayerInv, Pusher
      <4>. QED
        BY <1>1, <1>3, <4>1 DEF IInv, TypeInv
    <3>. QED
      BY <3>1, <3>2
  <2>. QED
    BY <1>5, <2>1 DEF LayerInv
<1>8. FileInv'
  <2>1. CASE p = Image
    <3>1. layouts'["out"] = {Image}
      BY <1>1, <1>3, <1>5, <2>1 DEF IInv, TypeInv, FileInv
    <3>. QED
      BY <1>1, <1>5, <2>1, <3>1, SameOptions DEF IInv, FileInv, Writing
  <2>2. CASE p \in Layer
    <3>1. pc'[Image] = "waiting"
      BY <1>5, <2>2, PushAssumption DEF Pusher
    <3>. QED
      BY <1>1, <1>5, <2>2, <3>1 DEF IInv, FileInv, Writing
  <2>. QED
    BY <2>1, <2>2 DEF Pusher
<1>. QED
  BY <1>5, <1>6, <1>7, <1>8 DEF IInv

(***************************************************************************)
(* The names with their digest, and the tarball, which only the image has. *)
(***************************************************************************)
LEMMA NamesIInv ==
    ASSUME IInv, NEW p \in Pusher, writeNamesAndTar(p)
    PROVE  IInv'
<1>. DEFINE to == IF optsOf(p).NoPush THEN "done" ELSE "push"
<1>1. /\ Step(p, "names", to)
      /\ UNCHANGED <<registry, dest, tries, digestFile, layouts, outputs>>
      /\ nameFile' = IF optsOf(p).ImageNameDigestFile THEN NamesOf(p) ELSE nameFile
      /\ tarFile' = IF optsOf(p).TarPath THEN NamesOf(p) ELSE tarFile
  BY DEF writeNamesAndTar
<1>2. "names" \in Moving /\ to \in PCs \ {"waiting"} /\ "names" \in Writing
  BY DEF Moving, PCs, Writing
<1>3. layouts' \in [Layer \cup {"out"} -> SUBSET Pusher]
  BY <1>1 DEF IInv, TypeInv
<1>. HIDE DEF to
<1>4. /\ UNCHANGED <<opts, denied, stage>> /\ pc[p] = "names" /\ pc'[p] = to
      /\ \A q \in Pusher : q # p => pc'[q] = pc[q]
      /\ p \in Layer => pc[Image] = "waiting"
      /\ TypeInv' /\ StageInv' /\ TagInv'
      /\ \A q \in Layer : /\ registry'[q] \in {None, q}
                          /\ pc'[q] \in Writing => registry'[q] = None
                          /\ dest'[q] > 0 => registry'[q] = q
      /\ \A q \in Pusher : q # p => PusherInv(q)'
  BY <1>1, <1>2, <1>3, WriteStep
<1>. USE DEF to
<1>5. PusherInv(p)'
  BY <1>1, <1>4, SameOptions DEF IInv, PusherInv, Writing
<1>6. LayerInv'
  BY <1>1, <1>4 DEF IInv, LayerInv, Pusher
<1>7. FileInv'
  <2>1. CASE p = Image
    <3>1. NamesOf(Image)' = NamesOf(Image) /\ optsOf(p) = opts
      BY <1>4, <2>1, SameOptions, ImageOptions
    <3>2. tarFile' = IF opts.TarPath THEN NamesOf(Image) ELSE {}
      BY <1>1, <1>4, <2>1, <3>1 DEF IInv, FileInv, Writing
    <3>. QED
      BY <1>1, <1>4, <2>1, <3>1, <3>2 DEF IInv, FileInv, Writing
  <2>2. CASE p \in Layer
    <3>1. pc'[Image] = "waiting"
      BY <1>4, <2>2, PushAssumption DEF Pusher
    <3>2. tarFile' = tarFile
      BY <1>1, <2>2, LayerOptions DEF IInv, TypeInv
    <3>. QED
      BY <1>1, <1>4, <2>2, <3>1, <3>2 DEF IInv, FileInv, Writing
  <2>. QED
    BY <2>1, <2>2 DEF Pusher
<1>. QED
  BY <1>4, <1>5, <1>6, <1>7 DEF IInv

(***************************************************************************)
(* A write fails, and with it the push.                                    *)
(***************************************************************************)
LEMMA FailsIInv ==
    ASSUME IInv, NEW p \in Pusher, writeFails(p)
    PROVE  IInv'
<1>1. PICK from \in {"digest", "layout", "append", "names"} : Step(p, from, "failed")
  BY DEF writeFails
<1>2. UNCHANGED <<registry, dest, tries, digestFile, nameFile, layouts, tarFile, outputs>>
  BY DEF writeFails, files
<1>3. from \in Moving /\ "failed" \in PCs \ {"waiting"} /\ from \in Writing
  BY DEF Moving, PCs, Writing
<1>4. /\ UNCHANGED <<opts, denied, stage>> /\ pc[p] = from /\ pc'[p] = "failed"
      /\ \A q \in Pusher : q # p => pc'[q] = pc[q]
      /\ p \in Layer => pc[Image] = "waiting"
      /\ TypeInv' /\ StageInv' /\ TagInv'
      /\ \A q \in Layer : /\ registry'[q] \in {None, q}
                          /\ pc'[q] \in Writing => registry'[q] = None
                          /\ dest'[q] > 0 => registry'[q] = q
      /\ \A q \in Pusher : q # p => PusherInv(q)'
  BY <1>1, <1>2, <1>3, WriteStep DEF IInv, TypeInv
<1>5. PusherInv(p)'
  BY <1>2, <1>3, <1>4, SameOptions DEF IInv, PusherInv, Writing
<1>6. LayerInv'
  BY <1>2, <1>4 DEF IInv, LayerInv, Pusher
<1>7. FileInv'
  <2>1. CASE p = Image
    BY <1>2, <1>3, <1>4, <2>1, SameOptions DEF IInv, FileInv, Writing
  <2>2. CASE p \in Layer
    <3>1. pc'[Image] = "waiting"
      BY <1>4, <2>2, PushAssumption DEF Pusher
    <3>. QED
      BY <1>2, <1>4, <2>2, <3>1 DEF IInv, FileInv, Writing
  <2>. QED
    BY <2>1, <2>2 DEF Pusher
<1>. QED
  BY <1>4, <1>5, <1>6, <1>7 DEF IInv

(***************************************************************************)
(* Where a push goes: a layer to its own tag, the image to the next of the *)
(* tags it is to have.                                                     *)
(***************************************************************************)
LEMMA NextDestFacts ==
    ASSUME IInv, NEW p \in Pusher, pc[p] = "push", dest[p] < Len(Destinations(p))
    PROVE  /\ dest[p] \in Nat /\ Len(Destinations(p)) \in Nat
           /\ NextDest(p) \in Tag \cup Layer
           /\ p \in Layer => NextDest(p) = p /\ dest[p] = 0 /\ Len(Destinations(p)) = 1
           /\ p = Image => /\ NextDest(p) \in Tag /\ ~opts.NoPush
                           /\ NextDest(p) = opts.Destinations[dest[p] + 1]
<1>1. dest[p] \in Nat /\ Len(Destinations(p)) \in Nat /\ opts \in Options
  BY DestinationsType DEF IInv, TypeInv
<1>2. ASSUME p \in Layer
      PROVE  NextDest(p) = p /\ dest[p] = 0 /\ Len(Destinations(p)) = 1
  <2>1. Destinations(p) = <<p>>
    BY <1>1, <1>2, LayerOptions
  <2>2. dest[p] = 0
    BY <1>1, <2>1
  <2>. QED
    BY <2>1, <2>2 DEF NextDest
<1>3. ASSUME p = Image
      PROVE  /\ NextDest(p) \in Tag /\ ~opts.NoPush
             /\ NextDest(p) = opts.Destinations[dest[p] + 1]
  <2>1. ~opts.NoPush /\ Destinations(p) = opts.Destinations
    BY <1>3, ImageOptions DEF IInv, PusherInv
  <2>2. dest[p] + 1 \in 1 .. Len(opts.Destinations)
    BY <1>1, <2>1
  <2>3. opts.Destinations[dest[p] + 1] \in Tag
    BY <1>1, <2>2, OptionTypes
  <2>. QED
    BY <2>1, <2>3 DEF NextDest
<1>. QED
  BY <1>1, <1>2, <1>3 DEF Pusher

(***************************************************************************)
(* A registry is written at the destination of p, or left alone: layers    *)
(* stay at their own tags, and a tag with the image keeps it or loses it   *)
(* to another build.                                                       *)
(***************************************************************************)
LEMMA RegistryWrite ==
    ASSUME IInv, NEW p \in Pusher, pc[p] = "push", dest[p] < Len(Destinations(p)),
           \/ UNCHANGED registry
           \/ registry' = [registry EXCEPT ![NextDest(p)] = p]
    PROVE  /\ registry' \in [Tag \cup Layer -> Layer \cup {Image, Other, None}]
           /\ \A t \in Tag : /\ registry'[t] \in {None, Image, Other}
                             /\ registry'[t] = Image \/ registry'[t] = registry[t]
                             /\ opts.NoPush => registry'[t] # Image
           /\ \A q \in Layer : /\ registry'[q] \in {None, q}
                               /\ q # p => registry'[q] = registry[q]
                               /\ registry[q] = q => registry'[q] = q
<1>1. /\ NextDest(p) \in Tag \cup Layer
      /\ p \in Layer => NextDest(p) = p
      /\ p = Image => NextDest(p) \in Tag /\ ~opts.NoPush
  BY NextDestFacts
<1>2. /\ registry \in [Tag \cup Layer -> Layer \cup {Image, Other, None}]
      /\ \A t \in Tag : registry[t] \in {None, Image, Other} /\ (opts.NoPush => registry[t] # Image)
      /\ \A q \in Layer : registry[q] \in {None, q}
  BY DEF IInv, TypeInv, TagInv, LayerInv
<1>3. Tag \cap Layer = {} /\ Image \notin Layer
  BY PushAssumption
<1>4. CASE UNCHANGED registry
  BY <1>2, <1>4
<1>5. CASE registry' = [registry EXCEPT ![NextDest(p)] = p]
  BY <1>1, <1>2, <1>3, <1>5 DEF Pusher
<1>. QED
  BY <1>4, <1>5

(***************************************************************************)
(* The files stay while p pushes.                                          *)
(***************************************************************************)
LEMMA FilesStay ==
    ASSUME IInv, NEW p \in Pusher, NEW to \in {"push", "failed"}, Step(p, "push", to),
           UNCHANGED files
    PROVE  FileInv'
<1>1. /\ UNCHANGED opts /\ pc[p] = "push" /\ pc'[p] = to
      /\ \A q \in Pusher : q # p => pc'[q] = pc[q]
  BY StepFacts DEF Moving, PCs
<1>2. NamesOf(Image)' = NamesOf(Image) /\ Image \in Pusher
  BY <1>1, SameOptions DEF Pusher
<1>3. pc'[Image] = pc[Image] \/ (pc[Image] = "push" /\ pc'[Image] = "failed")
  BY <1>1, <1>2
<1>. QED
  BY <1>1, <1>2, <1>3 DEF IInv, FileInv, files, Writing

(***************************************************************************)
(* A destination takes the push, or has an immutable tag that is ignored.  *)
(***************************************************************************)
LEMMA RemoteWriteIInv ==
    ASSUME IInv, NEW p \in Pusher, remoteWrite(p)
    PROVE  IInv'
<1>1. /\ pc[p] = "push" /\ dest[p] < Len(Destinations(p)) /\ Step(p, "push", "push")
      /\ UNCHANGED <<digestFile, nameFile, layouts, tarFile, outputs>>
      /\ dest' = [dest EXCEPT ![p] = @ + 1] /\ tries' = [tries EXCEPT ![p] = 0]
      /\ ~Refused(p) \/ optsOf(p).PushIgnoreImmutableTagErrors
      /\ registry' = IF Refused(p) THEN registry ELSE [registry EXCEPT ![NextDest(p)] = p]
  BY DEF remoteWrite, files
<1>2. /\ UNCHANGED <<opts, denied, stage>> /\ pc'[p] = "push" /\ pc' \in [Pusher -> PCs]
      /\ \A q \in Pusher : q # p => pc'[q] = pc[q]
      /\ StageInv'
  BY <1>1, StepFacts DEF Moving, PCs
<1>3. /\ dest[p] \in Nat /\ Len(Destinations(p)) \in Nat
      /\ p \in Layer => NextDest(p) = p /\ dest[p] = 0 /\ Len(Destinations(p)) = 1
      /\ p = Image => /\ NextDest(p) \in Tag /\ ~opts.NoPush
                      /\ NextDest(p) = opts.Destinations[dest[p] + 1]
  BY <1>1, NextDestFacts
<1>4. /\ registry' \in [Tag \cup Layer -> Layer \cup {Image, Other, None}]
      /\ \A t \in Tag : /\ registry'[t] \in {None, Image, Other}
                        /\ registry'[t] = Image \/ registry'[t] = registry[t]
                        /\ opts.NoPush => registry'[t] # Image
      /\ \A q \in Layer : /\ registry'[q] \in {None, q}
                          /\ q # p => registry'[q] = registry[q]
                          /\ registry[q] = q => registry'[q] = q
  BY <1>1, RegistryWrite
<1>5. TypeInv'
  <2>1. dest' \in [Pusher -> Nat] /\ tries' \in [Pusher -> Nat]
    BY <1>1 DEF IInv, TypeInv
  <2>. QED
    BY <1>1, <1>2, <1>4, <2>1 DEF IInv, TypeInv
<1>6. FileInv'
  BY <1>1, FilesStay DEF files
<1>7. \A q \in Pusher : PusherInv(q)'
  <2>1. \A q \in Pusher : q # p => PusherInv(q)'
    BY <1>1, <1>2, OtherPushers DEF IInv, TypeInv
  <2>2. dest'[p] = dest[p] + 1 /\ tries'[p] = 0
    BY <1>1 DEF IInv, TypeInv
  <2>3. PusherInv(p)'
    BY <1>1, <1>2, <1>3, <2>2, SameOptions DEF IInv, PusherInv, Writing
  <2>. QED
    BY <2>1, <2>3
<1>8. TagInv'
  <2>1. ASSUME ~opts.NoPush, NEW i \in 1 .. dest'[Image]
        PROVE  Delivered(opts.Destinations[i])'
    <3>. DEFINE t == opts.Destinations[i]
    <3>0. Image \in Pusher /\ dest[Image] \in Nat
      BY DEF IInv, TypeInv, Pusher
    <3>1. CASE i \in 1 .. dest[Image]
      <4>1. Delivered(t)
        BY <2>1, <3>1 DEF IInv, TagInv
      <4>2. t \in Tag
        <5>1. i \in 1 .. Len(opts.Destinations)
          BY <2>1, <3>0, <3>1, ImageOptions, OptionTypes DEF IInv, PusherInv, TypeInv
        <5>. QED
          BY <5>1, OptionTypes DEF IInv, TypeInv
      <4>. QED
        BY <1>2, <1>4, <4>1, <4>2 DEF Delivered
    <3>2. CASE i \notin 1 .. dest[Image]
      <4>1. p = Image /\ i = dest[p] + 1
        BY <1>1, <2>1, <3>0, <3>2 DEF IInv, TypeInv
      <4>2. t = NextDest(p) /\ t \in Tag
        BY <1>3, <4>1
      <4>3. CASE Refused(p)
        <5>1. /\ registry'[t] = registry[t] /\ registry[t] = Other
              /\ opts.PushIgnoreImmutableTagErrors
          BY <1>1, <4>1, <4>2, <4>3, ImageOptions DEF Refused, IInv, TagInv
        <5>. QED
          BY <1>2, <5>1 DEF Delivered
      <4>4. CASE ~Refused(p)
        <5>1. registry'[t] = Image
          BY <1>1, <4>1, <4>2, <4>4 DEF IInv, TypeInv
        <5>. QED
          BY <1>2, <5>1 DEF Delivered
      <4>. QED
        BY <4>3, <4>4
    <3>. QED
      BY <3>1, <3>2
  <2>. QED
    BY <1>2, <1>4, <2>1 DEF TagInv
<1>9. LayerInv'
  <2>1. ASSUME NEW q \in Layer
        PROVE  /\ pc'[q] \in Writing => registry'[q] = None
               /\ dest'[q] > 0 => registry'[q] = q
               /\ opts.CacheRepo = "oci" /\ pc'[q] \in {"names", "push", "done"} => q \in layouts'[q]
    <3>0. q \in Pusher
      BY DEF Pusher
    <3>1. CASE q # p
      BY <1>1, <1>2, <1>4, <3>0, <3>1 DEF IInv, LayerInv, TypeInv
    <3>2. CASE q = p
      <4>1. ~Refused(p)
        BY <1>3, <3>2, PushAssumption DEF Refused
      <4>2. registry'[q] = q
        BY <1>1, <1>3, <3>2, <4>1 DEF IInv, TypeInv
      <4>. QED
        BY <1>1, <1>2, <3>2, <4>2 DEF IInv, LayerInv, Writing
    <3>. QED
      BY <3>1, <3>2
  <2>. QED
    BY <1>2, <1>4, <2>1 DEF LayerInv
<1>. QED
  BY <1>2, <1>5, <1>6, <1>7, <1>8, <1>9 DEF IInv

(***************************************************************************)
(* An attempt fails, though it may have gone through.                      *)
(***************************************************************************)
LEMMA RemoteWriteFailsIInv ==
    ASSUME IInv, NEW p \in Pusher, remoteWriteFails(p)
    PROVE  IInv'
<1>. DEFINE to == IF triesAgain(p) THEN "push" ELSE "failed"
<1>1. /\ pc[p] = "push" /\ dest[p] < Len(Destinations(p)) /\ Step(p, "push", to)
      /\ UNCHANGED <<dest, digestFile, nameFile, layouts, tarFile, outputs>>
      /\ tries' = [tries EXCEPT ![p] = @ + 1]
      /\ \/ UNCHANGED registry
         \/ registry' = [registry EXCEPT ![NextDest(p)] = p]
  BY DEF remoteWriteFails, files
<1>2. to \in {"push", "failed"}
  OBVIOUS
<1>. HIDE DEF to
<1>3. /\ UNCHANGED <<opts, denied, stage>> /\ pc'[p] = to /\ pc' \in [Pusher -> PCs]
      /\ \A q \in Pusher : q # p => pc'[q] = pc[q]
      /\ StageInv'
  BY <1>1, <1>2, StepFacts DEF Moving, PCs
<1>4. /\ registry' \in [Tag \cup Layer -> Layer \cup {Image, Other, None}]
      /\ \A t \in Tag : /\ registry'[t] \in {None, Image, Other}
                        /\ registry'[t] = Image \/ registry'[t] = registry[t]
                        /\ opts.NoPush => registry'[t] # Image
      /\ \A q \in Layer : /\ registry'[q] \in {None, q}
                          /\ q # p => registry'[q] = registry[q]
                          /\ registry[q] = q => registry'[q] = q
  BY <1>1, RegistryWrite
<1>5. TypeInv'
  <2>1. tries' \in [Pusher -> Nat]
    BY <1>1 DEF IInv, TypeInv
  <2>. QED
    BY <1>1, <1>3, <1>4, <2>1 DEF IInv, TypeInv
<1>6. FileInv'
  BY <1>1, <1>2, FilesStay DEF files
<1>7. \A q \in Pusher : PusherInv(q)'
  <2>1. \A q \in Pusher : q # p => PusherInv(q)'
    BY <1>1, <1>3, OtherPushers DEF IInv, TypeInv
  <2>2. PusherInv(p)'
    BY <1>1, <1>2, <1>3, SameOptions DEF IInv, PusherInv, Writing
  <2>. QED
    BY <2>1, <2>2
<1>8. TagInv'
  <2>1. ASSUME ~opts.NoPush, NEW i \in 1 .. dest[Image]
        PROVE  Delivered(opts.Destinations[i])'
    <3>1. Delivered(opts.Destinations[i])
      BY <2>1 DEF IInv, TagInv
    <3>2. opts.Destinations[i] \in Tag
      <4>1. Image \in Pusher /\ dest[Image] \in Nat
        BY DEF IInv, TypeInv, Pusher
      <4>2. i \in 1 .. Len(opts.Destinations)
        BY <2>1, <4>1, ImageOptions, OptionTypes DEF IInv, PusherInv, TypeInv
      <4>. QED
        BY <4>2, OptionTypes DEF IInv, TypeInv
    <3>. QED
      BY <1>3, <1>4, <3>1, <3>2 DEF Delivered
  <2>. QED
    BY <1>1, <1>3, <1>4, <2>1 DEF TagInv
<1>9. LayerInv'
  <2>1. \A q \in Layer : q \in Pusher
    BY DEF Pusher
  <2>2. \A q \in Layer : pc'[q] \in Writing => registry'[q] = None
    BY <1>1, <1>2, <1>3, <1>4, <2>1 DEF IInv, LayerInv, Writing
  <2>3. \A q \in Layer : dest'[q] > 0 => registry'[q] = q
    BY <1>1, <1>4 DEF IInv, LayerInv
  <2>4. \A q \in Layer : pc'[q] \in {"names", "push", "done"} => pc[q] = pc'[q]
    BY <1>1, <1>2, <1>3, <2>1
  <2>. QED
    BY <1>1, <1>3, <1>4, <2>2, <2>3, <2>4 DEF IInv, LayerInv
<1>. QED
  BY <1>3, <1>5, <1>6, <1>7, <1>8, <1>9 DEF IInv

(***************************************************************************)
(* All destinations have taken it.                                         *)
(***************************************************************************)
LEMMA OutputsIInv ==
    ASSUME IInv, NEW p \in Pusher, writeImageOutputs(p)
    PROVE  IInv'
<1>0. PICK to \in {"done", "failed"} :
         Step(p, "push", to) /\ (to = "done" => outputs' = NamesOf(p))
  BY DEF writeImageOutputs
<1>1. /\ pc[p] = "push" /\ dest[p] = Len(Destinations(p)) /\ Step(p, "push", to)
      /\ UNCHANGED <<dest, tries, registry, digestFile, nameFile, layouts, tarFile>>
      /\ to = "done" => outputs' = NamesOf(p)
  BY <1>0 DEF writeImageOutputs
<1>2. "push" \in Moving /\ to \in PCs \ {"waiting"} /\ to \notin Writing
  BY DEF Moving, PCs, Writing
<1>3. /\ UNCHANGED <<opts, denied, stage>> /\ pc[p] = "push" /\ pc'[p] = to
      /\ \A q \in Pusher : q # p => pc'[q] = pc[q]
      /\ p \in Layer => pc[Image] = "waiting"
      /\ TypeInv' /\ StageInv' /\ TagInv'
      /\ \A q \in Layer : /\ registry'[q] \in {None, q}
                          /\ pc'[q] \in Writing => registry'[q] = None
                          /\ dest'[q] > 0 => registry'[q] = q
      /\ \A q \in Pusher : q # p => PusherInv(q)'
  BY <1>1, <1>2, WriteStep DEF IInv, TypeInv
<1>4. PusherInv(p)'
  BY <1>1, <1>3, SameOptions DEF IInv, PusherInv, Writing
<1>5. LayerInv'
  BY <1>1, <1>3 DEF IInv, LayerInv, Pusher
<1>6. FileInv'
  <2>0. NamesOf(Image)' = NamesOf(Image)
    BY <1>3, SameOptions
  <2>1. CASE p = Image
    BY <1>1, <1>3, <2>0, <2>1 DEF IInv, FileInv, Writing
  <2>2. CASE p \in Layer
    <3>1. pc'[Image] = "waiting"
      BY <1>3, <2>2, PushAssumption DEF Pusher
    <3>. QED
      BY <1>1, <1>3, <2>0, <2>2, <3>1 DEF IInv, FileInv, Writing
  <2>. QED
    BY <2>1, <2>2 DEF Pusher
<1>. QED
  BY <1>3, <1>4, <1>5, <1>6 DEF IInv

(***************************************************************************)
(* The check of permissions, the start of pushes, the end of the run.      *)
(***************************************************************************)
LEMMA RunIInv ==
    ASSUME IInv,
           \/ CheckPushPermissions \/ buildFails \/ startPush \/ exit
           \/ \E p \in Layer : startCachePush(p)
    PROVE  IInv'
<1>0. /\ UNCHANGED <<opts, denied, dest, tries, registry, digestFile, nameFile, layouts,
                     tarFile, outputs>>
      /\ UNCHANGED pc \/ \E p \in Pusher : pc[p] = "waiting" /\ pc' = [pc EXCEPT ![p] = "digest"]
  <2>1. startPush => pc[Image] = "waiting" /\ Image \in Pusher
    BY DEF startPush, IInv, StageInv, Pusher
  <2>. QED
    BY <2>1 DEF CheckPushPermissions, buildFails, startPush, exit, startCachePush, files, Pusher
<1>1. /\ pc' \in [Pusher -> PCs]
      /\ \A q \in Pusher : pc'[q] = pc[q] \/ (pc[q] = "waiting" /\ pc'[q] = "digest")
  BY <1>0 DEF IInv, TypeInv, PCs
<1>2. TypeInv'
  BY <1>0, <1>1
     DEF IInv, TypeInv, CheckPushPermissions, buildFails, startPush, exit, startCachePush
<1>3. \A q \in Pusher : PusherInv(q)'
  BY <1>0, <1>1, SameOptions DEF IInv, PusherInv, Writing
<1>4. TagInv'
  BY <1>0 DEF IInv, TagInv, Delivered
<1>5. LayerInv'
  BY <1>0, <1>1 DEF IInv, LayerInv, Pusher, Writing
<1>6. FileInv'
  BY <1>0, <1>1, SameOptions DEF IInv, FileInv, Pusher, Writing
<1>7. StageInv'
  <2>0. CheckedRepos' = CheckedRepos /\ Image \in Pusher /\ Image \notin Layer
    BY <1>0, SameOptions, PushAssumption DEF Pusher
  <2>1. CASE CheckPushPermissions
    BY <1>0, <2>0, <2>1 DEF CheckPushPermissions, IInv, StageInv, waited
  <2>2. CASE buildFails
    BY <1>0, <2>0, <2>2 DEF buildFails, IInv, StageInv, waited
  <2>3. CASE startPush
    BY <1>0, <2>0, <2>3 DEF startPush, IInv, StageInv, TypeInv, waited, Ended, Pusher
  <2>4. CASE exit
    BY <1>0, <2>0, <2>4 DEF exit, IInv, StageInv, waited, Ended
  <2>5. ASSUME NEW p \in Layer, startCachePush(p) PROVE StageInv'
    BY <1>0, <2>0, <2>5 DEF startCachePush, IInv, StageInv, TypeInv, waited, Ended, Pusher
  <2>. QED
    BY <2>1, <2>2, <2>3, <2>4, <2>5
<1>. QED
  BY <1>2, <1>3, <1>4, <1>5, <1>6, <1>7 DEF IInv

(***************************************************************************)
(* Another build takes a tag, but none that is immutable and taken.        *)
(***************************************************************************)
LEMMA OtherPushIInv ==
    ASSUME IInv, NEW t \in Tag, otherPush(t)
    PROVE  IInv'
<1>1. /\ UNCHANGED <<opts, denied, stage, pc, dest, tries, digestFile, nameFile, layouts,
                     tarFile, outputs>>
      /\ registry' = [registry EXCEPT ![t] = Other]
      /\ t \in Immutable => registry[t] = None
  BY DEF otherPush, files
<1>2. t \notin Layer /\ Image # Other /\ Image # None
  BY PushAssumption
<1>3. TypeInv'
  BY <1>1 DEF IInv, TypeInv
<1>4. StageInv'
  BY <1>1, SameOptions DEF IInv, StageInv, waited, Ended
<1>5. \A p \in Pusher : PusherInv(p)'
  BY <1>1, SameOptions DEF IInv, PusherInv
<1>6. FileInv'
  BY <1>1, SameOptions DEF IInv, FileInv
<1>7. LayerInv'
  BY <1>1, <1>2 DEF IInv, TypeInv, LayerInv
<1>8. \A u \in Tag : registry'[u] = IF u = t THEN Other ELSE registry[u]
  BY <1>1 DEF IInv, TypeInv
<1>9. TagInv'
  <2>1. ASSUME NEW u \in Tag, Delivered(u) PROVE Delivered(u)'
    BY <1>1, <1>2, <1>8, <2>1, PushAssumption DEF Delivered
  <2>2. ASSUME ~opts.NoPush, NEW i \in 1 .. dest[Image] PROVE opts.Destinations[i] \in Tag
    <3>1. Image \in Pusher /\ dest[Image] \in Nat
      BY DEF IInv, TypeInv, Pusher
    <3>2. i \in 1 .. Len(opts.Destinations)
      BY <2>2, <3>1, ImageOptions, OptionTypes DEF IInv, PusherInv, TypeInv
    <3>. QED
      BY <3>2, OptionTypes DEF IInv, TypeInv
  <2>. QED
    BY <1>1, <1>2, <1>8, <2>1, <2>2 DEF IInv, TagInv
<1>. QED
  BY <1>3, <1>4, <1>5, <1>6, <1>7, <1>9 DEF IInv

-----------------------------------------------------------------------------
(***************************************************************************)
(* The invariant holds at the start.                                       *)
(***************************************************************************)
LEMMA InitIInv == Init => IInv
<1>. SUFFICES ASSUME Init PROVE IInv
  OBVIOUS
<1>1. Image \in Pusher /\ Image \notin Layer
  BY PushAssumption DEF Pusher
<1>2. TypeInv
  BY DEF Init, TypeInv, PCs
<1>3. \A p \in Pusher : PusherInv(p)
  <2>1. \A p \in Pusher : Len(Destinations(p)) \in Nat
    BY DestinationsType DEF Init
  <2>. QED
    BY <2>1 DEF Init, PusherInv
<1>4. StageInv
  BY <1>1 DEF Init, StageInv, Pusher
<1>5. FileInv
  BY <1>1 DEF Init, FileInv
<1>6. TagInv
  BY <1>1, PushAssumption DEF Init, TagInv
<1>7. LayerInv
  BY DEF Init, LayerInv, Pusher
<1>. QED
  BY <1>2, <1>3, <1>4, <1>5, <1>6, <1>7 DEF IInv

(***************************************************************************)
(* The invariant is inductive.                                             *)
(***************************************************************************)
LEMMA NextIInv == IInv /\ [Next]_vars => IInv'
<1>. SUFFICES ASSUME IInv, [Next]_vars PROVE IInv'
  OBVIOUS
<1>1. ASSUME NEW p \in Pusher, DoPush(p) PROVE IInv'
  BY <1>1, DigestIInv, LayoutIInv, AppendIInv, NamesIInv, FailsIInv, RemoteWriteIInv,
     RemoteWriteFailsIInv, OutputsIInv DEF DoPush
<1>2. CASE UNCHANGED vars
  <2>1. UNCHANGED <<opts, denied, stage, pc, dest, tries, registry, digestFile, nameFile,
                    layouts, tarFile, outputs>>
    BY <1>2 DEF vars, files
  <2>2. TypeInv' /\ TagInv' /\ LayerInv'
    BY <2>1 DEF IInv, TypeInv, TagInv, Delivered, LayerInv
  <2>3. StageInv' /\ FileInv' /\ \A p \in Pusher : PusherInv(p)'
    BY <2>1, SameOptions DEF IInv, StageInv, waited, Ended, FileInv, PusherInv
  <2>. QED
    BY <2>2, <2>3 DEF IInv
<1>. QED
  BY <1>1, <1>2, RunIInv, OtherPushIInv DEF Next

(***************************************************************************)
(* When a run has succeeded its output files are about the image, though   *)
(* the pushes of layers, which run beside the build, write the same files: *)
(* build() waits for them before DoPush is called for the image.           *)
(***************************************************************************)
THEOREM FilesAreOfTheImage == Spec => []OutputsAreOfTheImage
<1>1. IInv => OutputsAreOfTheImage
  <2>. SUFFICES ASSUME IInv, stage = "succeeded"
                PROVE  /\ opts.DigestFile => digestFile = Image
                       /\ opts.OCILayoutPath # None => layouts["out"] = {Image}
                       /\ opts.ImageNameDigestFile => nameFile = NamesOf(Image)
                       /\ tarFile = IF opts.TarPath THEN NamesOf(Image) ELSE {}
                       /\ ~opts.NoPush => outputs = NamesOf(Image)
    BY DEF OutputsAreOfTheImage
  <2>1. pc[Image] = "done"
    BY DEF IInv, StageInv
  <2>. QED
    BY <2>1 DEF IInv, FileInv
<1>. QED
  BY InitIInv, NextIInv, <1>1, PTL DEF Spec

(***************************************************************************)
(* A run that succeeds has pushed the image to all its destinations: each  *)
(* holds it, or what another build pushed there, over an immutable tag     *)
(* only if such errors are ignored (DoPush, util.Retry).                   *)
(***************************************************************************)
THEOREM ImageIsPushedEverywhere == Spec => []PushedEverywhere
<1>1. IInv => PushedEverywhere
  <2>. SUFFICES ASSUME IInv, stage = "succeeded", ~opts.NoPush,
                       NEW i \in DOMAIN opts.Destinations
                PROVE  Delivered(opts.Destinations[i])
    BY DEF PushedEverywhere, Delivered
  <2>1. pc[Image] = "done" /\ Image \in Pusher
    BY DEF IInv, StageInv, Pusher
  <2>2. dest[Image] = Len(opts.Destinations)
    BY <2>1, ImageOptions DEF IInv, PusherInv
  <2>3. DOMAIN opts.Destinations = 1 .. Len(opts.Destinations)
    BY OptionTypes, LenProperties DEF IInv, TypeInv
  <2>. QED
    BY <2>2, <2>3 DEF IInv, TagInv
<1>. QED
  BY InitIInv, NextIInv, <1>1, PTL DEF Spec

(***************************************************************************)
(* --no-push and --no-push-cache each keep their own kind of tag           *)
(* untouched, and a push of a layer that ended well left the layer in the  *)
(* repository or in its layout (pushLayerToCache).                         *)
(***************************************************************************)
THEOREM FlagsAreObeyed == Spec => []FlagsDecideWhatIsPushed
<1>1. IInv => FlagsDecideWhatIsPushed
  <2>. SUFFICES ASSUME IInv PROVE FlagsDecideWhatIsPushed
    OBVIOUS
  <2>1. opts.NoPush => \A t \in Tag : registry[t] \in {None, Other}
    BY DEF IInv, TagInv
  <2>2. opts.NoPushCache => \A p \in Layer : registry[p] = None
    <3>1. opts.NoPushCache => \A p \in Layer : pc[p] \in Writing
      BY DEF IInv, StageInv, Writing
    <3>. QED
      BY <3>1 DEF IInv, LayerInv
  <2>3. ASSUME NEW p \in Layer, pc[p] = "done" PROVE registry[p] = p \/ p \in layouts[p]
    <3>1. CASE opts.CacheRepo = "oci"
      BY <2>3, <3>1 DEF IInv, LayerInv
    <3>2. CASE opts.CacheRepo # "oci"
      <4>1. ~optsOf(p).NoPush /\ Len(Destinations(p)) = 1 /\ p \in Pusher
        <5>1. ~opts.NoPushCache /\ opts \in Options /\ p \in Pusher
          BY <2>3 DEF IInv, TypeInv, StageInv, Pusher
        <5>2. Destinations(p) = <<p>> /\ ~optsOf(p).NoPush
          BY <3>2, <5>1, LayerOptions
        <5>. QED
          BY <5>1, <5>2
      <4>2. dest[p] = 1
        BY <2>3, <4>1 DEF IInv, PusherInv
      <4>. QED
        BY <4>2 DEF IInv, LayerInv
    <3>. QED
      BY <3>1, <3>2
  <2>. QED
    BY <2>1, <2>2, <2>3 DEF FlagsDecideWhatIsPushed
<1>. QED
  BY InitIInv, NextIInv, <1>1, PTL DEF Spec

(***************************************************************************)
(* Unless the check is skipped, the push of an image that was built fails  *)
(* on no destination for its credentials: CheckPushPermissions has asked   *)
(* for all of them.                                                        *)
(***************************************************************************)
THEOREM DenialsComeFirst == Spec => []NoLateDenial
<1>1. IInv => NoLateDenial
  <2>. SUFFICES ASSUME IInv, pc[Image] = "failed", tries[Image] > 0,
                       ~opts.SkipPushPermissionCheck
                PROVE  RepoOf(NextDest(Image)) \notin denied
    BY DEF NoLateDenial
  <2>1. /\ ~opts.NoPush /\ dest[Image] \in Nat /\ dest[Image] < Len(opts.Destinations)
        /\ NextDest(Image) = opts.Destinations[dest[Image] + 1]
    BY ImageOptions DEF IInv, TypeInv, PusherInv, Pusher, NextDest
  <2>2. dest[Image] + 1 \in 1 .. Len(opts.Destinations)
    BY <2>1, OptionTypes DEF IInv, TypeInv
  <2>3. NextDest(Image) \in Tag /\ DOMAIN opts.Destinations = 1 .. Len(opts.Destinations)
    BY <2>1, <2>2, OptionTypes, LenProperties DEF IInv, TypeInv
  <2>4. RepoOf(NextDest(Image)) = Repo(NextDest(Image))
    BY <2>3, PushAssumption DEF RepoOf
  <2>5. CheckedRepos = {Repo(opts.Destinations[i]) : i \in DOMAIN opts.Destinations}
    BY <2>1 DEF CheckedRepos
  <2>6. CheckedRepos \cap denied = {}
    BY DEF IInv, StageInv
  <2>. QED
    BY <2>1, <2>2, <2>3, <2>4, <2>5, <2>6
<1>. QED
  BY InitIInv, NextIInv, <1>1, PTL DEF Spec

=============================================================================
