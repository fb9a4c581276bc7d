-------------------------- MODULE BaseImagesProofs --------------------------
(***************************************************************************)
(* Proofs about BaseImages: for any number of warmers, executors, names,   *)
(* mirrors and retries, files under a digest are whole, a name stands for  *)
(* one image in one run, and warmers count what they could not warm.       *)
(***************************************************************************)
EXTENDS BaseImages, SequenceTheorems, FiniteSetTheorems, TLAPS

Busy == {"ask", "local", "tar", "writing", "rename tar", "rename manifest"}

Types ==
    /\ tags \in [Registry -> [Tag -> Digest]]
    /\ dir \in [Digest -> [tar : File, mfst : File, old : BOOLEAN]]
    /\ opts \in [Process -> WarmerRun \cup ExecutorRun]
    /\ pc \in [Process -> Busy \cup Ended \cup {"next"}]
    /\ done \in [Process -> Nat]
    /\ why \in [Process -> {"image", "key", "warm"}]
    /\ ask \in [Process -> Seq(Registry)]
    /\ tries \in [Process -> Nat]
    /\ manifestCache \in [Process -> [Name -> Digest \cup {None}]]
    /\ digest \in [Process -> Digest \cup {None}]
    /\ temp \in [Process -> [tar : File, mfst : File]]
    /\ used \in [Process -> SUBSET [name : Name, image : Digest]]

(***************************************************************************)
(* What a process has at hand: the name it works on, registries to ask,    *)
(* the digest, and, once they are written, its temporary files.            *)
(***************************************************************************)
AtHand(p) ==
    /\ pc[p] \in Busy => image(p) \in Name
    /\ pc[p] = "ask" => ask[p] # << >>
    /\ pc[p] \in Busy \ {"ask"} => digest[p] \in Digest
    /\ pc[p] = "rename tar" => temp[p].tar = digest[p] /\ temp[p].mfst = digest[p]
    /\ pc[p] = "rename manifest" => temp[p].mfst = digest[p]

(***************************************************************************)
(* What a process was told stays what it goes by.                          *)
(***************************************************************************)
Remembers(p) ==
    /\ \A n \in Digest : manifestCache[p][n] \in {None, n}
    /\ pc[p] = "local" =>
         /\ image(p) \in Digest => digest[p] = image(p)
         /\ image(p) \notin Digest => digest[p] = manifestCache[p][image(p)]
    /\ \A u \in used[p] : u.name \in Digest => u.image = u.name
    /\ pc[p] # "killed" =>
         \A u \in used[p] : u.name \notin Digest => manifestCache[p][u.name] = u.image
    /\ \A u, v \in used[p] : u.name = v.name => u.image = v.image

IInv == Types /\ FilesAreWhole /\ \A p \in Process : AtHand(p) /\ Remembers(p)

-----------------------------------------------------------------------------
(***************************************************************************)
(* There is always a registry to ask: the mirrors, or the default one.     *)
(***************************************************************************)
LEMMA Registries == ASSUME NEW o PROVE registries(o) \in Seq(Registry) /\ registries(o) # << >>
BY MirrorsAssumption DEF registries, Registry

(***************************************************************************)
(* A digest is neither a missing nor an incomplete file.                   *)
(***************************************************************************)
LEMMA Distinct == None \notin Digest /\ Part \notin Digest /\ None # Part
BY NamesAssumption

(***************************************************************************)
(* The strengthened invariant holds at the start.                          *)
(***************************************************************************)
LEMMA InitIInv == Init => IInv
<1> SUFFICES ASSUME Init PROVE IInv
  OBVIOUS
<1>1. Types
  BY DEF Init, Types, File, Name, NoFiles, Busy
<1>2. \A p \in Process : AtHand(p)
  BY DEF Init, AtHand, Busy
<1>3. FilesAreWhole
  BY DEF Init, FilesAreWhole
<1>4. \A p \in Process : Remembers(p)
  BY DEF Init, Remembers, Name
<1> QED
  BY <1>1, <1>2, <1>3, <1>4 DEF IInv

(***************************************************************************)
(* The image at hand is a name while there is one left.                    *)
(***************************************************************************)
LEMMA ImageIsName ==
    ASSUME Types, NEW p \in Process, done[p] < Len(opts[p].images)
    PROVE  image(p) \in Name
<1>1. opts[p] \in WarmerRun \cup ExecutorRun /\ done[p] \in Nat
  BY DEF Types
<1>2. opts[p].images \in Seq(Name)
  BY <1>1, RunAssumption DEF Name
<1> QED
  BY <1>1, <1>2 DEF image

-----------------------------------------------------------------------------
(***************************************************************************)
(* A step of one process leaves what the others have alone.                *)
(***************************************************************************)
Others(p) ==
    /\ opts' = opts
    /\ \A q \in Process \ {p} :
         /\ pc'[q] = pc[q] /\ done'[q] = done[q] /\ ask'[q] = ask[q]
         /\ digest'[q] = digest[q] /\ temp'[q] = temp[q]
         /\ manifestCache'[q] = manifestCache[q] /\ used'[q] = used[q]

(***************************************************************************)
(* A step that changes the variables of one process keeps what the         *)
(* invariant says of the others.                                           *)
(***************************************************************************)
LEMMA OneProcess ==
    ASSUME IInv, NEW p \in Process, Others(p), Types', FilesAreWhole', AtHand(p)', Remembers(p)'
    PROVE  IInv'
<1>1. ASSUME NEW q \in Process, q # p PROVE AtHand(q)'
  BY <1>1 DEF IInv, Others, AtHand, image
<1>2. ASSUME NEW q \in Process, q # p PROVE Remembers(q)'
  BY <1>2 DEF IInv, Others, Remembers, image
<1> QED
  BY <1>1, <1>2 DEF IInv

(***************************************************************************)
(* A step in which a process is not told anything new.                     *)
(***************************************************************************)
LEMMA ToldNothing ==
    ASSUME NEW p \in Process, Remembers(p), manifestCache'[p] = manifestCache[p],
           used'[p] = used[p], pc[p] # "killed", pc'[p] # "local"
    PROVE  Remembers(p)'
BY DEF Remembers

(***************************************************************************)
(* Forget keeps the types.                                                 *)
(***************************************************************************)
LEMMA ForgetTypes ==
    ASSUME Types, NEW p \in Process, Forget(p)
    PROVE  /\ why' \in [Process -> {"image", "key", "warm"}]
           /\ ask' \in [Process -> Seq(Registry)]
           /\ tries' \in [Process -> Nat]
           /\ digest' \in [Process -> Digest \cup {None}]
           /\ \A q \in Process \ {p} : ask'[q] = ask[q] /\ digest'[q] = digest[q]
BY DEF Types, Forget

(***************************************************************************)
(* nextImage keeps the types.                                              *)
(***************************************************************************)
LEMMA NextImageTypes ==
    ASSUME Types, NEW p \in Process, nextImage(p)
    PROVE  /\ pc' \in [Process -> Busy \cup Ended \cup {"next"}]
           /\ pc'[p] = "next"
           /\ done' \in [Process -> Nat]
           /\ temp' \in [Process -> [tar : File, mfst : File]]
           /\ why' \in [Process -> {"image", "key", "warm"}]
           /\ ask' \in [Process -> Seq(Registry)]
           /\ tries' \in [Process -> Nat]
           /\ digest' \in [Process -> Digest \cup {None}]
           /\ \A q \in Process \ {p} :
                /\ pc'[q] = pc[q] /\ done'[q] = done[q] /\ ask'[q] = ask[q]
                /\ digest'[q] = digest[q] /\ temp'[q] = temp[q]
BY ForgetTypes DEF Types, nextImage, NoFiles, File

(***************************************************************************)
(* RetrieveRemoteImage keeps the types.                                    *)
(***************************************************************************)
LEMMA RetrieveTypes ==
    ASSUME Types, NEW p \in Process, NEW for \in {"image", "key", "warm"},
           RetrieveRemoteImage(p, for)
    PROVE  /\ pc' \in [Process -> Busy \cup Ended \cup {"next"}]
           /\ pc'[p] = "ask" /\ ask'[p] # << >>
           /\ why' \in [Process -> {"image", "key", "warm"}]
           /\ ask' \in [Process -> Seq(Registry)]
           /\ tries' \in [Process -> Nat]
           /\ \A q \in Process \ {p} : pc'[q] = pc[q] /\ ask'[q] = ask[q]
BY Registries DEF Types, RetrieveRemoteImage, Busy

-----------------------------------------------------------------------------
(***************************************************************************)
(* Fields of the directory's entries and of the temporary files.           *)
(***************************************************************************)
LEMMA EntryTypes ==
    ASSUME NEW e \in [tar : File, mfst : File, old : BOOLEAN], NEW x \in File
    PROVE  /\ [e EXCEPT !.mfst = x] \in [tar : File, mfst : File, old : BOOLEAN]
           /\ [e EXCEPT !.tar = x, !.old = FALSE] \in [tar : File, mfst : File, old : BOOLEAN]
OBVIOUS

(***************************************************************************)
(* Writing temporary files keeps their type.                               *)
(***************************************************************************)
LEMMA TempTypes ==
    ASSUME NEW e \in [tar : File, mfst : File], NEW x \in File
    PROVE  /\ [e EXCEPT !.tar = x] \in [tar : File, mfst : File]
           /\ [e EXCEPT !.tar = x].mfst = e.mfst
OBVIOUS

(***************************************************************************)
(* The end of a process keeps the invariant.                               *)
(***************************************************************************)
LEMMA EndStep ==
    ASSUME IInv, NEW p \in Process, end(p)
    PROVE  IInv'
<1>1. Types' /\ Others(p) /\ pc'[p] \in Ended /\ pc'[p] # "killed" /\ pc[p] = "next"
  BY DEF IInv, Types, end, Others, Ended
<1>2. AtHand(p)'
  BY <1>1 DEF AtHand, Busy, Ended
<1>3. Remembers(p)'
  BY <1>1, ToldNothing DEF IInv, end, Ended
<1> QED
  BY <1>1, <1>2, <1>3, OneProcess DEF IInv, FilesAreWhole, end

(***************************************************************************)
(* A kill at any point keeps the invariant: only temporary files are left. *)
(***************************************************************************)
LEMMA KillStep ==
    ASSUME IInv, NEW p \in Process, kill(p)
    PROVE  IInv'
<1>1. manifestCache' = [manifestCache EXCEPT ![p] = [n \in Name |-> None]]
  BY DEF kill
<1>2. manifestCache' \in [Process -> [Name -> Digest \cup {None}]]
  BY <1>1 DEF IInv, Types
<1>3. Types' /\ Others(p) /\ pc'[p] = "killed"
  BY <1>1, <1>2, ForgetTypes DEF IInv, Types, kill, Others, Ended
<1>4. AtHand(p)'
  BY <1>3 DEF AtHand, Busy
<1>5. Remembers(p)'
  BY <1>1, <1>3 DEF IInv, Types, kill, Remembers, Name
<1> QED
  BY <1>3, <1>4, <1>5, OneProcess DEF IInv, FilesAreWhole, kill

(***************************************************************************)
(* RetrieveSourceImage, up to the first lookup, keeps the invariant.       *)
(***************************************************************************)
LEMMA RetrieveSourceImageStep ==
    ASSUME IInv, NEW p \in Process, RetrieveSourceImage(p)
    PROVE  IInv'
<1>1. /\ image(p) \in Name /\ image(p)' = image(p) /\ FilesAreWhole'
      /\ manifestCache' = manifestCache /\ used' = used
  BY ImageIsName DEF IInv, FilesAreWhole, RetrieveSourceImage, image
<1>2. CASE opts[p].CacheDir /\ image(p) \in Digest
  <2>1. Types' /\ Others(p) /\ pc'[p] = "local" /\ digest'[p] = image(p)
    BY <1>2, ZenonT(60) DEF IInv, Types, RetrieveSourceImage, Others, Busy
  <2>2. AtHand(p)'
    BY <1>1, <1>2, <2>1 DEF AtHand, Busy
  <2>3. Remembers(p)'
    BY <1>1, <1>2, <2>1 DEF IInv, RetrieveSourceImage, Remembers
  <2> QED
    BY <1>1, <2>1, <2>2, <2>3, OneProcess
<1>3. CASE ~(opts[p].CacheDir /\ image(p) \in Digest)
  <2>1. Types' /\ Others(p) /\ pc'[p] = "ask" /\ ask'[p] # << >>
    BY <1>3, RetrieveTypes DEF IInv, Types, RetrieveSourceImage, Others
  <2>2. AtHand(p)'
    BY <1>1, <2>1 DEF AtHand, Busy
  <2>3. Remembers(p)'
    BY <1>1, <2>1, ToldNothing DEF IInv, RetrieveSourceImage
  <2> QED
    BY <1>1, <2>1, <2>2, <2>3, OneProcess
<1> QED
  BY <1>2, <1>3

(***************************************************************************)
(* LocalSource in an executor: what it finds is the image of the digest it *)
(* asked for.                                                              *)
(***************************************************************************)
LEMMA CachedImageStep ==
    ASSUME IInv, NEW p \in Process, cachedImage(p)
    PROVE  IInv'
<1> DEFINE u == [name |-> image(p), image |-> digest[p]]
<1>1. /\ image(p) \in Name /\ digest[p] \in Digest /\ FilesAreWhole'
      /\ manifestCache' = manifestCache
  BY DEF IInv, AtHand, Busy, FilesAreWhole, cachedImage
<1>2. CASE LocalSource(digest[p]) = "found"
  <2>1. dir[digest[p]].tar = digest[p]
    BY <1>1, <1>2 DEF IInv, FilesAreWhole, LocalSource
  <2>2. used' = [used EXCEPT ![p] = @ \cup {u}] /\ nextImage(p)
    BY <1>2, <2>1 DEF cachedImage, goesOnWith
  <2>3. used' \in [Process -> SUBSET [name : Name, image : Digest]]
    BY <1>1, <2>2 DEF IInv, Types
  <2>4. Types' /\ Others(p) /\ pc'[p] = "next"
    BY <1>1, <2>2, <2>3, NextImageTypes DEF IInv, Types, cachedImage, Others
  <2>5. AtHand(p)'
    BY <2>4 DEF AtHand, Busy
  <2>6. u.name = image(p) /\ u.image = digest[p] /\ used'[p] = used[p] \cup {u}
    BY <2>2 DEF IInv, Types
  <2>7. Remembers(p)'
    BY <1>1, <2>4, <2>6 DEF IInv, cachedImage, Remembers
  <2> QED
    BY <1>1, <2>4, <2>5, <2>7, OneProcess
<1>3. CASE LocalSource(digest[p]) # "found"
  <2>1. Types' /\ Others(p) /\ pc'[p] = "ask" /\ ask'[p] # << >> /\ used' = used
    BY <1>1, <1>3, RetrieveTypes DEF IInv, Types, cachedImage, Others
  <2>2. AtHand(p)'
    BY <1>1, <1>3, <2>1 DEF AtHand, Busy, cachedImage, image
  <2>3. Remembers(p)'
    BY <1>1, <2>1, ToldNothing DEF IInv, cachedImage
  <2> QED
    BY <1>1, <2>1, <2>2, <2>3, OneProcess
<1> QED
  BY <1>2, <1>3

(***************************************************************************)
(* The start of warmToFile keeps the invariant.                            *)
(***************************************************************************)
LEMMA WarmToFileStep ==
    ASSUME IInv, NEW p \in Process, warmToFile(p)
    PROVE  IInv'
<1>1. image(p) \in Name /\ image(p)' = image(p) /\ FilesAreWhole'
  BY ImageIsName DEF IInv, FilesAreWhole, warmToFile, image
<1>2. Types' /\ Others(p) /\ pc'[p] = "ask" /\ ask'[p] # << >>
  BY RetrieveTypes DEF IInv, Types, warmToFile, Others
<1>3. AtHand(p)'
  BY <1>1, <1>2 DEF AtHand, Busy
<1>4. Remembers(p)'
  BY <1>2, ToldNothing DEF IInv, warmToFile
<1> QED
  BY <1>1, <1>2, <1>3, <1>4, OneProcess

(***************************************************************************)
(* LocalSource in a warmer keeps the invariant.                            *)
(***************************************************************************)
LEMMA WarmStep ==
    ASSUME IInv, NEW p \in Process, Warm(p)
    PROVE  IInv'
<1>1. Types' /\ Others(p) /\ pc'[p] \in {"next", "tar"}
  <2>1. CASE IsAlreadyCached(digest[p])
    BY <2>1, NextImageTypes DEF IInv, Types, Warm, Others
  <2>2. CASE ~IsAlreadyCached(digest[p])
    BY <2>2 DEF IInv, Types, Warm, Others, Busy
  <2> QED
    BY <2>1, <2>2
<1>2. AtHand(p)'
  BY <1>1 DEF IInv, AtHand, Warm, nextImage, Types, Busy, image
<1>3. Remembers(p)'
  BY <1>1, ToldNothing DEF IInv, Warm
<1> QED
  BY <1>1, <1>2, <1>3, OneProcess DEF IInv, FilesAreWhole, Warm

(***************************************************************************)
(* A partial image is in a temporary file only.                            *)
(***************************************************************************)
LEMMA StartTarStep ==
    ASSUME IInv, NEW p \in Process, startTar(p)
    PROVE  IInv'
<1>1. Types' /\ Others(p) /\ pc'[p] = "writing"
  BY DEF IInv, Types, startTar, Others, Busy, File
<1>2. AtHand(p)'
  BY <1>1 DEF IInv, AtHand, startTar, Busy, image
<1>3. Remembers(p)'
  BY <1>1, ToldNothing DEF IInv, startTar
<1> QED
  BY <1>1, <1>2, <1>3, OneProcess DEF IInv, FilesAreWhole, startTar

(***************************************************************************)
(* Both temporary files are whole when tarball.Write is through.           *)
(***************************************************************************)
LEMMA WriteTarStep ==
    ASSUME IInv, NEW p \in Process, writeTarAndManifest(p)
    PROVE  IInv'
<1>1. digest[p] \in Digest
  BY DEF IInv, AtHand, writeTarAndManifest, Busy
<1>2. Types' /\ Others(p) /\ pc'[p] = "rename tar"
  BY <1>1 DEF IInv, Types, writeTarAndManifest, Others, Busy, File
<1>3. AtHand(p)'
  BY <1>2 DEF IInv, Types, AtHand, writeTarAndManifest, Busy, image
<1>4. Remembers(p)'
  BY <1>2, ToldNothing DEF IInv, writeTarAndManifest
<1> QED
  BY <1>2, <1>3, <1>4, OneProcess DEF IInv, FilesAreWhole, writeTarAndManifest

(***************************************************************************)
(* The first os.Rename puts a whole image under its digest.                *)
(***************************************************************************)
LEMMA RenameTarStep ==
    ASSUME IInv, NEW p \in Process, renameTar(p)
    PROVE  IInv'
<1> DEFINE d == digest[p]
<1>1. d \in Digest /\ temp[p].tar = d /\ temp[p].mfst = d
  BY DEF IInv, AtHand, renameTar, Busy
<1>2. dir' = [dir EXCEPT ![d] = [@ EXCEPT !.tar = d, !.old = FALSE]]
  BY <1>1, Zenon DEF renameTar
<1>3. FilesAreWhole'
  BY <1>1, <1>2 DEF IInv, Types, FilesAreWhole
<1>4. dir' \in [Digest -> [tar : File, mfst : File, old : BOOLEAN]]
  <2>1. d \in File /\ dir \in [Digest -> [tar : File, mfst : File, old : BOOLEAN]]
    BY <1>1 DEF IInv, Types, File
  <2> QED
    BY <1>1, <1>2, <2>1, EntryTypes
<1>5. temp' \in [Process -> [tar : File, mfst : File]] /\ temp'[p].mfst = d
  <2>1. temp' = [temp EXCEPT ![p] = [@ EXCEPT !.tar = None]]
    BY Zenon DEF renameTar
  <2>2. None \in File /\ temp \in [Process -> [tar : File, mfst : File]]
    BY DEF IInv, Types, File
  <2> QED
    BY <1>1, <2>1, <2>2, TempTypes
<1>6. Types' /\ Others(p) /\ pc'[p] = "rename manifest" /\ temp'[p].mfst = d
  BY <1>4, <1>5 DEF IInv, Types, renameTar, Others, Busy
<1>7. AtHand(p)'
  BY <1>1, <1>6 DEF IInv, AtHand, renameTar, Busy, image
<1>8. Remembers(p)'
  BY <1>6, ToldNothing DEF IInv, renameTar
<1> QED
  BY <1>3, <1>6, <1>7, <1>8, OneProcess

(***************************************************************************)
(* The second os.Rename puts a whole manifest there.                       *)
(***************************************************************************)
LEMMA RenameManifestStep ==
    ASSUME IInv, NEW p \in Process, renameManifest(p)
    PROVE  IInv'
<1> DEFINE d == digest[p]
<1>1. d \in Digest /\ temp[p].mfst = d
  BY DEF IInv, AtHand, renameManifest, Busy
<1>2. dir' = [dir EXCEPT ![d] = [@ EXCEPT !.mfst = d]]
  BY <1>1, Zenon DEF renameManifest
<1>3. FilesAreWhole'
  BY <1>1, <1>2 DEF IInv, Types, FilesAreWhole
<1>4. dir' \in [Digest -> [tar : File, mfst : File, old : BOOLEAN]]
  <2>1. d \in File /\ dir \in [Digest -> [tar : File, mfst : File, old : BOOLEAN]]
    BY <1>1 DEF IInv, Types, File
  <2> QED
    BY <1>1, <1>2, <2>1, EntryTypes
<1>5. Types' /\ Others(p) /\ pc'[p] = "next"
  BY <1>4, NextImageTypes DEF IInv, Types, renameManifest, Others
<1>6. AtHand(p)'
  BY <1>5 DEF AtHand, Busy
<1>7. Remembers(p)'
  BY <1>5, ToldNothing DEF IInv, renameManifest
<1> QED
  BY <1>3, <1>5, <1>6, <1>7, OneProcess

(***************************************************************************)
(* An error of warmToFile keeps the invariant.                             *)
(***************************************************************************)
LEMMA WarmToFileFailsStep ==
    ASSUME IInv, NEW p \in Process, warmToFileFails(p)
    PROVE  IInv'
<1>1. Types' /\ Others(p) /\ pc'[p] = "next" /\ pc[p] # "killed"
  BY NextImageTypes DEF IInv, Types, warmToFileFails, warmFails, Others
<1>2. AtHand(p)'
  BY <1>1 DEF AtHand, Busy
<1>3. Remembers(p)'
  BY <1>1, ToldNothing DEF IInv, warmToFileFails
<1> QED
  BY <1>1, <1>2, <1>3, OneProcess DEF IInv, FilesAreWhole, warmToFileFails

(***************************************************************************)
(* The callers of RetrieveRemoteImage get d, which is in the manifestCache *)
(* after the step and was not contradicted by it before.                   *)
(***************************************************************************)
LEMMA ReturnsStep ==
    ASSUME IInv, NEW p \in Process, NEW d \in Digest, pc[p] = "ask", returns(p, d),
           manifestCache[p][image(p)] \in {None, d},
           manifestCache' = [manifestCache EXCEPT ![p][image(p)] = d],
           image(p) \in Digest => d = image(p),
           UNCHANGED <<tags, dir, opts>>
    PROVE  IInv'
<1> DEFINE n == image(p)
           u == [name |-> n, image |-> d]
           mc == [manifestCache[p] EXCEPT ![n] = d]
<1>1. n \in Name /\ FilesAreWhole'
  BY DEF IInv, AtHand, Busy, FilesAreWhole
<1>2. manifestCache[p] \in [Name -> Digest \cup {None}]
  BY DEF IInv, Types
<1>3. manifestCache' = [manifestCache EXCEPT ![p] = mc] /\ mc \in [Name -> Digest \cup {None}]
  BY <1>1, <1>2
<1>4. /\ manifestCache' \in [Process -> [Name -> Digest \cup {None}]]
      /\ manifestCache'[p] = mc
      /\ \A q \in Process \ {p} : manifestCache'[q] = manifestCache[q]
  BY <1>3 DEF IInv, Types
<1>5. /\ \A x \in Digest : mc[x] \in {None, x}
      /\ mc[n] = d
      /\ \A v \in used[p] : v.name \notin Digest => mc[v.name] = v.image
  <2>1. \A x \in Digest : manifestCache[p][x] \in {None, x}
    BY DEF IInv, Remembers
  <2>2. \A v \in used[p] : /\ v.name \in Name /\ v.image \in Digest
                           /\ v.name \notin Digest => manifestCache[p][v.name] = v.image
    <3>1. used[p] \subseteq [name : Name, image : Digest]
      BY DEF IInv, Types
    <3>2. \A v \in used[p] : v.name \notin Digest => manifestCache[p][v.name] = v.image
      BY DEF IInv, Remembers
    <3> QED
      BY <3>1, <3>2
  <2> QED
    BY <1>1, <1>2, <2>1, <2>2, Distinct DEF Name
<1>6. CASE why[p] = "image"
  <2>1. used' = [used EXCEPT ![p] = @ \cup {u}] /\ nextImage(p)
    BY <1>6 DEF returns, goesOnWith
  <2>2. used' \in [Process -> SUBSET [name : Name, image : Digest]]
    BY <1>1, <2>1 DEF IInv, Types
  <2>3. Types' /\ Others(p) /\ pc'[p] = "next"
    BY <1>4, <2>1, <2>2, NextImageTypes DEF IInv, Types, Others
  <2>4. u.name = n /\ u.image = d /\ used'[p] = used[p] \cup {u}
    BY <2>1 DEF IInv, Types
  <2>5. AtHand(p)'
    BY <2>3 DEF AtHand, Busy
  <2>6. Remembers(p)'
    <3>1. \A v \in used[p] : v.name \in Digest => v.image = v.name
      BY DEF IInv, Remembers
    <3>2. \A v \in used'[p] : v.name \in Digest => v.image = v.name
      BY <2>4, <3>1
    <3>3. \A v \in used'[p] : v.name \notin Digest => mc[v.name] = v.image
      BY <1>5, <2>4
    <3> QED
      BY <1>4, <1>5, <2>3, <3>2, <3>3 DEF Remembers
  <2> QED
    BY <1>1, <2>3, <2>5, <2>6, OneProcess
<1>7. CASE why[p] # "image"
  <2>1. /\ pc' = [pc EXCEPT ![p] = IF opts[p].Force THEN "tar" ELSE "local"]
        /\ digest' = [digest EXCEPT ![p] = d]
        /\ UNCHANGED <<done, why, ask, tries, temp, used>>
    BY <1>7 DEF returns
  <2>2. /\ pc' \in [Process -> Busy \cup Ended \cup {"next"}]
        /\ pc'[p] \in {"tar", "local"}
        /\ \A q \in Process \ {p} : pc'[q] = pc[q]
    BY <2>1 DEF IInv, Types, Busy
  <2>3. /\ digest' \in [Process -> Digest \cup {None}]
        /\ digest'[p] = d
        /\ \A q \in Process \ {p} : digest'[q] = digest[q]
    BY <2>1 DEF IInv, Types
  <2>4. Types' /\ Others(p)
    BY <1>4, <2>1, <2>2, <2>3 DEF IInv, Types, Others
  <2>5. image(p)' = n
    BY <2>1 DEF image
  <2>6. AtHand(p)'
    BY <1>1, <2>2, <2>3, <2>5 DEF AtHand, Busy
  <2>7. Remembers(p)'
    BY <1>4, <1>5, <2>1, <2>2, <2>3, <2>5 DEF IInv, Remembers
  <2> QED
    BY <1>1, <2>4, <2>6, <2>7, OneProcess
<1> QED
  BY <1>6, <1>7

(***************************************************************************)
(* An answer from manifestCache is the one given before.                   *)
(***************************************************************************)
LEMMA RememberedStep ==
    ASSUME IInv, NEW p \in Process, remembered(p)
    PROVE  IInv'
<1> DEFINE d == manifestCache[p][image(p)]
<1>1. image(p) \in Name /\ d \in Digest /\ (image(p) \in Digest => d = image(p))
  <2>1. image(p) \in Name
    BY DEF IInv, AtHand, Busy, remembered
  <2>2. manifestCache[p] \in [Name -> Digest \cup {None}] /\ d # None
    BY DEF IInv, Types, remembered
  <2>3. \A n \in Digest : manifestCache[p][n] \in {None, n}
    BY DEF IInv, Remembers
  <2> QED
    BY <2>1, <2>2, <2>3
<1>2. manifestCache' = [manifestCache EXCEPT ![p][image(p)] = d]
  BY <1>1 DEF IInv, Types, remembered
<1> QED
  BY <1>1, <1>2, ReturnsStep DEF remembered

(***************************************************************************)
(* The first answer of a registry is remembered.                           *)
(***************************************************************************)
LEMMA AnswersStep ==
    ASSUME IInv, NEW p \in Process, answers(p)
    PROVE  IInv'
<1> DEFINE d == IF image(p) \in Digest THEN image(p) ELSE tags[Head(ask[p])][image(p)]
<1>1. image(p) \in Name /\ Head(ask[p]) \in Registry
  <2>1. image(p) \in Name /\ ask[p] # << >>
    BY DEF IInv, AtHand, Busy, answers
  <2>2. ask[p] \in Seq(Registry)
    BY DEF IInv, Types
  <2> QED
    BY <2>1, <2>2
<1>2. d \in Digest
  BY <1>1 DEF IInv, Types, Name
<1> QED
  BY <1>1, <1>2, ReturnsStep DEF answers

(***************************************************************************)
(* Of two or more registries, one is left when the first has failed.       *)
(***************************************************************************)
LEMMA TailOfLonger ==
    ASSUME NEW S, NEW a \in Seq(S), Len(a) > 1
    PROVE  Tail(a) \in Seq(S) /\ Tail(a) # << >>
<1>1. a # << >> /\ Len(a) \in Nat
  OBVIOUS
<1>2. Tail(a) \in Seq(S) /\ Len(Tail(a)) = Len(a) - 1
  BY <1>1, HeadTailProperties
<1>3. \A n \in Nat : n > 1 => n - 1 # 0
  OBVIOUS
<1>4. Len(Tail(a)) # 0
  BY <1>1, <1>2, <1>3
<1> QED
  BY <1>2, <1>4, EmptySeq

(***************************************************************************)
(* A registry that fails, its retries and the fallback keep the invariant. *)
(***************************************************************************)
LEMMA AskFailsStep ==
    ASSUME IInv, NEW p \in Process, askFails(p)
    PROVE  IInv'
<1>1. /\ pc[p] = "ask" /\ ask[p] \in Seq(Registry) /\ image(p) \in Name /\ tries[p] \in Nat
      /\ FilesAreWhole' /\ manifestCache' = manifestCache /\ used' = used
  BY DEF IInv, Types, AtHand, Busy, FilesAreWhole, askFails
<1>2. CASE tries' = [tries EXCEPT ![p] = @ + 1] /\ UNCHANGED <<pc, why, ask, done, digest, temp>>
  <2>1. Types' /\ Others(p)
    BY <1>1, <1>2 DEF IInv, Types, Others, askFails
  <2>2. AtHand(p)'
    BY <1>2, <2>1 DEF IInv, AtHand, image, Others
  <2>3. Remembers(p)'
    BY <1>1, <1>2, ToldNothing DEF IInv
  <2> QED
    BY <1>1, <2>1, <2>2, <2>3, OneProcess
<1>3. CASE /\ Len(ask[p]) > 1 /\ ask' = [ask EXCEPT ![p] = Tail(@)]
           /\ tries' = [tries EXCEPT ![p] = 0]
           /\ UNCHANGED <<pc, why, done, digest, temp>>
  <2>1. Tail(ask[p]) \in Seq(Registry) /\ Tail(ask[p]) # << >>
    BY <1>1, <1>3, TailOfLonger
  <2>2. Types' /\ Others(p) /\ ask'[p] # << >>
    BY <1>1, <1>3, <2>1 DEF IInv, Types, Others, askFails
  <2>3. AtHand(p)'
    BY <1>1, <1>3, <2>2 DEF AtHand, Busy, image, Others
  <2>4. Remembers(p)'
    BY <1>1, <1>3, ToldNothing DEF IInv
  <2> QED
    BY <1>1, <2>2, <2>3, <2>4, OneProcess
<1>4. CASE RetrieveRemoteImage(p, "image") /\ UNCHANGED <<done, digest, temp>>
  <2>1. Types' /\ Others(p) /\ pc'[p] = "ask" /\ ask'[p] # << >>
    BY <1>1, <1>4, RetrieveTypes DEF IInv, Types, Others, askFails
  <2>2. AtHand(p)'
    BY <1>1, <1>4, <2>1 DEF AtHand, Busy, image, Others
  <2>3. Remembers(p)'
    BY <1>1, <2>1, ToldNothing DEF IInv
  <2> QED
    BY <1>1, <2>1, <2>2, <2>3, OneProcess
<1>5. CASE pc' = [pc EXCEPT ![p] = "failed"] /\ Forget(p) /\ UNCHANGED <<done, temp>>
  <2>1. Types' /\ Others(p) /\ pc'[p] = "failed"
    BY <1>1, <1>5, ForgetTypes DEF IInv, Types, Others, askFails, Ended
  <2>2. AtHand(p)'
    BY <2>1 DEF AtHand, Busy
  <2>3. Remembers(p)'
    BY <1>1, <2>1, ToldNothing DEF IInv
  <2> QED
    BY <1>1, <2>1, <2>2, <2>3, OneProcess
<1>6. CASE warmFails(p)
  <2>1. Types' /\ Others(p) /\ pc'[p] = "next"
    BY <1>1, <1>6, NextImageTypes DEF IInv, Types, Others, askFails, warmFails
  <2>2. AtHand(p)'
    BY <2>1 DEF AtHand, Busy
  <2>3. Remembers(p)'
    BY <1>1, <2>1, ToldNothing DEF IInv
  <2> QED
    BY <1>1, <2>1, <2>2, <2>3, OneProcess
<1> QED
  BY <1>2, <1>3, <1>4, <1>5, <1>6 DEF askFails, otherRegistries

(***************************************************************************)
(* Tags that move do not matter to what processes remember.                *)
(***************************************************************************)
LEMMA MoveTagStep ==
    ASSUME IInv, NEW r \in Registry, NEW t \in Tag, NEW d \in Digest, moveTag(r, t, d)
    PROVE  IInv'
<1>1. tags' \in [Registry -> [Tag -> Digest]]
  BY DEF IInv, Types, moveTag
<1>2. Types' /\ FilesAreWhole'
  BY <1>1 DEF IInv, Types, FilesAreWhole, moveTag
<1>3. ASSUME NEW p \in Process PROVE AtHand(p)' /\ Remembers(p)'
  BY DEF IInv, AtHand, Remembers, image, moveTag
<1> QED
  BY <1>2, <1>3 DEF IInv

(***************************************************************************)
(* Entries that expire stay whole.                                         *)
(***************************************************************************)
LEMMA ExpireStep ==
    ASSUME IInv, NEW d \in Digest, expire(d)
    PROVE  IInv'
<1>1. /\ dir' \in [Digest -> [tar : File, mfst : File, old : BOOLEAN]]
      /\ \A e \in Digest : dir'[e].tar = dir[e].tar /\ dir'[e].mfst = dir[e].mfst
  BY ZenonT(60) DEF IInv, Types, expire
<1>2. Types' /\ FilesAreWhole'
  BY <1>1 DEF IInv, Types, FilesAreWhole, expire
<1>3. ASSUME NEW p \in Process PROVE AtHand(p)' /\ Remembers(p)'
  BY DEF IInv, AtHand, Remembers, image, expire
<1> QED
  BY <1>2, <1>3 DEF IInv

(***************************************************************************)
(* Every step keeps the strengthened invariant.                            *)
(***************************************************************************)
LEMMA NextIInv == IInv /\ [Next]_vars => IInv'
<1> SUFFICES ASSUME IInv, [Next]_vars PROVE IInv'
  OBVIOUS
<1>1. CASE UNCHANGED vars
  BY <1>1, ZenonT(60) DEF vars, IInv, Types, FilesAreWhole, AtHand, Remembers, image
<1>2. ASSUME NEW p \in Process, step(p) PROVE IInv'
  BY <1>2, RememberedStep, AnswersStep, AskFailsStep, EndStep, WarmToFileStep, WarmStep,
     StartTarStep, WriteTarStep, RenameTarStep, RenameManifestStep, WarmToFileFailsStep,
     RetrieveSourceImageStep, CachedImageStep DEF step, warm, execute
<1> QED
  BY <1>1, <1>2, KillStep, MoveTagStep, ExpireStep DEF Next

-----------------------------------------------------------------------------
(***************************************************************************)
(* For any number of warmers and executors, killed or failing anywhere: a  *)
(* file under a digest is that image, whole, and so is its manifest        *)
(* (warmToFile writes to temporary files and renames them).                *)
(***************************************************************************)
THEOREM FilesStayWhole == Spec => []FilesAreWhole
<1>1. IInv => FilesAreWhole
  BY DEF IInv
<1> QED
  BY InitIInv, NextIInv, <1>1, PTL DEF Spec

(***************************************************************************)
(* For any mirrors and any moves of tags: one run of an executor gets one  *)
(* image for one name (RetrieveSourceImage, with manifestCache and         *)
(* LocalSource below it).                                                  *)
(***************************************************************************)
THEOREM NamesStandForOneImage == Spec => []OneNameOneImage
<1>1. IInv => OneNameOneImage
  BY DEF IInv, Remembers, OneNameOneImage, Process
<1> QED
  BY InitIInv, NextIInv, <1>1, PTL DEF Spec

-----------------------------------------------------------------------------
(***************************************************************************)
(* The count of errors.  A name is there for a process when it knows the   *)
(* digest and the directory has the image.                                 *)
(***************************************************************************)
There(p, n) == manifestCache[p][n] # None /\ dir[manifestCache[p][n]].tar # None

Missing(p) == {i \in 1 .. done[p] : ~There(p, opts[p].images[i])}

Counts(p) ==
    /\ errs[p] \in Nat /\ errs[p] <= done[p] /\ done[p] <= Len(opts[p].images)
    /\ pc[p] \in Busy => done[p] < Len(opts[p].images)
    /\ tries[p] <= ImageDownloadRetry

(***************************************************************************)
(* What a warmer knows of the image at hand, and what it has counted.      *)
(***************************************************************************)
Warms(p) ==
    /\ pc[p] = "ask" => why[p] = "warm"
    /\ pc[p] \in Busy \ {"ask"} => manifestCache[p][image(p)] = digest[p]
    /\ pc[p] = "rename manifest" => dir[digest[p]].tar # None
    /\ pc[p] # "killed" => Cardinality(Missing(p)) <= errs[p]

CInv ==
    /\ IInv
    /\ DOMAIN errs = Process
    /\ \A p \in Process : Counts(p)
    /\ \A p \in Warmer : Warms(p)

(***************************************************************************)
(* The names of the images that a process is past.                         *)
(***************************************************************************)
LEMMA NamesPast ==
    ASSUME IInv, NEW p \in Process, Counts(p)
    PROVE  /\ done[p] \in Nat
           /\ \A i \in 1 .. done[p] : opts[p].images[i] \in Name
<1>1. opts[p] \in WarmerRun \cup ExecutorRun /\ done[p] \in Nat
  BY DEF IInv, Types
<1>2. opts[p].images \in Seq(Name)
  BY <1>1, RunAssumption DEF Name
<1>3. done[p] <= Len(opts[p].images)
  BY DEF Counts
<1> QED
  BY <1>1, <1>2, <1>3

(***************************************************************************)
(* What is missing is a finite number of images.                           *)
(***************************************************************************)
LEMMA MissingFinite ==
    ASSUME NEW n \in Nat, NEW S \in SUBSET (1 .. n)
    PROVE  IsFiniteSet(S) /\ Cardinality(S) \in Nat
<1>1. IsFiniteSet(1 .. n)
  BY FS_Interval
<1>2. IsFiniteSet(S)
  BY <1>1, FS_Subset
<1> QED
  BY <1>2, FS_CardinalityType

(***************************************************************************)
(* A step that takes no image away and after which the process is not past *)
(* an image that is not there, unless it counts one.                       *)
(***************************************************************************)
LEMMA CountStaysHonest ==
    ASSUME IInv, NEW p \in Process, NEW m, m = image(p), Counts(p), opts' = opts,
           \A n \in Name : There(p, n) => There(p, n)',
           Cardinality(Missing(p)) <= errs[p],
           \/ done'[p] = done[p] /\ errs'[p] = errs[p]
           \/ done'[p] = done[p] + 1 /\ errs'[p] = errs[p] /\ There(p, m)'
           \/ done'[p] = done[p] + 1 /\ errs'[p] = errs[p] + 1
    PROVE  (Cardinality(Missing(p)) <= errs[p])'
<1> DEFINE M == {i \in 1 .. done[p] : ~There(p, opts[p].images[i])}
           M2 == {i \in 1 .. done'[p] : ~(There(p, opts[p].images[i])')}
<1>1. done[p] \in Nat /\ errs[p] \in Nat /\ \A i \in 1 .. done[p] : opts[p].images[i] \in Name
  BY NamesPast DEF Counts
<1>2. Missing(p) = M /\ Missing(p)' = M2
  BY DEF Missing
<1>3. IsFiniteSet(M) /\ Cardinality(M) \in Nat
  BY <1>1, MissingFinite
<1>4. ASSUME NEW i \in M2, i \in 1 .. done[p] PROVE i \in M
  <2>1. opts[p].images[i] \in Name /\ ~(There(p, opts[p].images[i])')
    BY <1>1, <1>4
  <2> QED
    BY <1>4, <2>1
<1> DEFINE x == done[p] + 1
<1>5. CASE done'[p] = x
  <2>1. M2 \subseteq M \cup {x}
    BY <1>1, <1>4, <1>5
  <2>2. IsFiniteSet(M \cup {x}) /\ Cardinality(M \cup {x}) <= Cardinality(M) + 1
    <3> HIDE DEF M, x
    <3>1. /\ IsFiniteSet(M \cup {x})
          /\ Cardinality(M \cup {x}) = IF x \in M THEN Cardinality(M) ELSE Cardinality(M) + 1
      BY <1>3, FS_AddElement
    <3> QED
      BY <1>3, <3>1
  <2>3. IsFiniteSet(M2) /\ Cardinality(M2) \in Nat
    <3>1. done'[p] \in Nat /\ M2 \in SUBSET (1 .. done'[p])
      BY <1>1, <1>5
    <3> QED
      BY <3>1, MissingFinite
  <2>4. CASE errs'[p] = errs[p] + 1
    <3>1. Cardinality(M2) <= Cardinality(M \cup {x})
      BY <2>1, <2>2, FS_Subset
    <3>2. Cardinality(M \cup {x}) \in Nat
      BY <2>2, FS_CardinalityType
    <3> HIDE DEF M, M2, x
    <3> QED
      BY <1>1, <1>2, <1>3, <2>2, <2>3, <2>4, <3>1, <3>2
  <2>5. CASE errs'[p] = errs[p] /\ There(p, m)'
    <3>1. x \notin M2
      <4> SUFFICES ASSUME x \in M2 PROVE FALSE
        OBVIOUS
      <4>1. opts'[p].images[x] = m
        BY DEF image
      <4>2. ~(manifestCache'[p][m] # None /\ dir'[manifestCache'[p][m]].tar # None)
        BY <4>1 DEF There
      <4> QED
        BY <2>5, <4>2 DEF There
    <3>2. M2 \subseteq M
      BY <1>1, <2>1, <3>1
    <3>3. Cardinality(M2) <= Cardinality(M)
      BY <1>3, <3>2, FS_Subset
    <3> HIDE DEF M, M2, x
    <3> QED
      BY <1>1, <1>2, <1>3, <2>3, <2>5, <3>3
  <2> QED
    BY <1>1, <1>5, <2>4, <2>5
<1>6. CASE done'[p] = done[p] /\ errs'[p] = errs[p]
  <2>1. M2 \subseteq M
    BY <1>4, <1>6
  <2>2. Cardinality(M2) <= Cardinality(M)
    BY <1>3, <2>1, FS_Subset
  <2>3. Cardinality(M2) \in Nat
    BY <1>1, <1>6, MissingFinite
  <2> HIDE DEF M, M2
  <2> QED
    BY <1>1, <1>2, <1>3, <1>6, <2>2, <2>3
<1> QED
  BY <1>5, <1>6

(***************************************************************************)
(* No image goes away, and an answer is not forgotten.                     *)
(***************************************************************************)
TarsStay == \A d \in Digest : dir[d].tar # None => dir'[d].tar # None

Knows(p) == \A n \in Name : manifestCache[p][n] # None => manifestCache'[p][n] = manifestCache[p][n]

(***************************************************************************)
(* What is there for a process stays there.                                *)
(***************************************************************************)
LEMMA ThereStays ==
    ASSUME IInv, NEW p \in Process, TarsStay, Knows(p), NEW n \in Name, There(p, n)
    PROVE  There(p, n)'
<1>1. manifestCache[p][n] \in Digest /\ manifestCache'[p][n] = manifestCache[p][n]
  BY DEF IInv, Types, There, Knows
<1> QED
  BY <1>1 DEF There, TarsStay

(***************************************************************************)
(* A step of p, seen by the other processes.                               *)
(***************************************************************************)
Alone(p) ==
    /\ opts' = opts /\ DOMAIN errs' = Process /\ TarsStay
    /\ \A q \in Process \ {p} :
         /\ pc'[q] = pc[q] /\ done'[q] = done[q] /\ why'[q] = why[q] /\ tries'[q] = tries[q]
         /\ errs'[q] = errs[q] /\ digest'[q] = digest[q]
         /\ manifestCache'[q] = manifestCache[q]

(***************************************************************************)
(* It is enough to look at the process that takes the step.                *)
(***************************************************************************)
LEMMA OneCounts ==
    ASSUME CInv, IInv', NEW p \in Process, Alone(p), Counts(p)', p \in Warmer => Warms(p)'
    PROVE  CInv'
<1>1. ASSUME NEW q \in Process, q # p PROVE Counts(q)'
  BY <1>1 DEF CInv, Alone, Counts
<1>2. ASSUME NEW q \in Warmer, q # p PROVE Warms(q)'
  <2>1. /\ q \in Process /\ opts' = opts /\ Knows(q) /\ TarsStay /\ Warms(q) /\ Counts(q)
        /\ pc'[q] = pc[q] /\ done'[q] = done[q] /\ why'[q] = why[q] /\ errs'[q] = errs[q]
        /\ digest'[q] = digest[q] /\ manifestCache'[q] = manifestCache[q]
    BY <1>2 DEF CInv, Alone, Knows, Process
  <2>2. \A n \in Name : There(q, n) => There(q, n)'
    BY <2>1, ThereStays DEF CInv
  <2>3. pc[q] # "killed" => (Cardinality(Missing(q)) <= errs[q])'
    <3> SUFFICES ASSUME pc[q] # "killed" PROVE (Cardinality(Missing(q)) <= errs[q])'
      OBVIOUS
    <3>1. PICK m : m = image(q)
      OBVIOUS
    <3>2. Cardinality(Missing(q)) <= errs[q]
      BY <2>1 DEF Warms
    <3> QED
      BY <2>1, <2>2, <3>1, <3>2, CountStaysHonest DEF CInv
  <2>4. image(q)' = image(q) /\ (pc[q] \in Busy \ {"ask"} => digest[q] \in Digest)
    BY <2>1 DEF image, CInv, IInv, AtHand
  <2>5. pc[q] = "rename manifest" => dir'[digest[q]].tar # None
    BY <2>1, <2>4 DEF Warms, TarsStay, Busy
  <2> QED
    BY <2>1, <2>3, <2>4, <2>5 DEF Warms
<1> QED
  BY <1>1, <1>2 DEF CInv, Alone

(***************************************************************************)
(* The count of the process that takes the step.                           *)
(***************************************************************************)
LEMMA OwnCount ==
    ASSUME CInv, NEW p \in Warmer, pc[p] # "killed", opts' = opts, TarsStay, Knows(p),
           NEW m, m = image(p),
           \/ done'[p] = done[p] /\ errs'[p] = errs[p]
           \/ done'[p] = done[p] + 1 /\ errs'[p] = errs[p] /\ There(p, m)'
           \/ done'[p] = done[p] + 1 /\ errs'[p] = errs[p] + 1
    PROVE  (Cardinality(Missing(p)) <= errs[p])'
<1>1. p \in Process /\ IInv /\ Counts(p) /\ Cardinality(Missing(p)) <= errs[p]
  BY DEF CInv, Warms, Process
<1>2. \A n \in Name : There(p, n) => There(p, n)'
  BY <1>1, ThereStays
<1> QED
  BY <1>1, <1>2, CountStaysHonest

(***************************************************************************)
(* What is known of the process before it takes a step.                    *)
(***************************************************************************)
LEMMA Before ==
    ASSUME CInv, NEW p \in Process
    PROVE  /\ done[p] \in Nat /\ errs[p] \in Nat /\ tries[p] \in Nat
           /\ errs[p] <= done[p] /\ done[p] <= Len(opts[p].images)
           /\ Len(opts[p].images) \in Nat
           /\ pc[p] \in Busy => done[p] < Len(opts[p].images)
           /\ tries[p] <= ImageDownloadRetry
           /\ ImageDownloadRetry \in Nat
           /\ p \in Warmer => Warms(p)
           /\ pc[p] \in Busy => image(p) \in Name
           /\ pc[p] \in Busy \ {"ask"} => digest[p] \in Digest
<1>1. opts[p] \in WarmerRun \cup ExecutorRun /\ done[p] \in Nat /\ tries[p] \in Nat
  BY DEF CInv, IInv, Types
<1>2. opts[p].images \in Seq(Name)
  BY <1>1, RunAssumption DEF Name
<1>3. Counts(p) /\ AtHand(p)
  BY DEF CInv, IInv
<1>4. Len(opts[p].images) \in Nat
  BY <1>2
<1>5. p \in Warmer => Warms(p)
  BY DEF CInv
<1> QED
  BY <1>1, <1>3, <1>4, <1>5, RetryAssumption DEF Counts, AtHand

(***************************************************************************)
(* A process that stays at its image, or goes past it.                     *)
(***************************************************************************)
LEMMA CountsStay ==
    ASSUME CInv, NEW p \in Process, opts' = opts, tries'[p] \in {0, tries[p]},
           done'[p] = done[p], errs'[p] = errs[p],
           pc'[p] \in Busy => pc[p] \in Busy \/ done[p] < Len(opts[p].images)
    PROVE  Counts(p)'
BY Before DEF Counts

(***************************************************************************)
(* A process that goes past its image, with or without an error.           *)
(***************************************************************************)
LEMMA CountsPast ==
    ASSUME CInv, NEW p \in Process, opts' = opts, tries'[p] = 0,
           done'[p] = done[p] + 1, errs'[p] \in {errs[p], errs[p] + 1},
           pc'[p] = "next", pc[p] \in Busy \/ done[p] < Len(opts[p].images)
    PROVE  Counts(p)'
<1>1. /\ done[p] \in Nat /\ errs[p] \in Nat /\ errs[p] <= done[p] /\ Len(opts[p].images) \in Nat
      /\ done[p] < Len(opts[p].images) /\ ImageDownloadRetry \in Nat
  BY Before
<1>2. /\ errs'[p] \in Nat /\ errs'[p] <= done'[p] /\ done'[p] <= Len(opts[p].images)
      /\ tries'[p] <= ImageDownloadRetry
  BY <1>1
<1> QED
  BY <1>2 DEF Counts, Busy

(***************************************************************************)
(* nextImage, for the others and for the process.                          *)
(***************************************************************************)
LEMMA NextImageAlone ==
    ASSUME CInv, NEW p \in Process, nextImage(p)
    PROVE  /\ pc'[p] = "next" /\ done'[p] = done[p] + 1 /\ tries'[p] = 0
           /\ \A q \in Process \ {p} :
                /\ pc'[q] = pc[q] /\ done'[q] = done[q] /\ why'[q] = why[q]
                /\ tries'[q] = tries[q] /\ digest'[q] = digest[q]
BY DEF CInv, IInv, Types, nextImage, Forget

(***************************************************************************)
(* RetrieveRemoteImage, for the others and for the process.                *)
(***************************************************************************)
LEMMA RetrieveAlone ==
    ASSUME CInv, NEW p \in Process, NEW for, RetrieveRemoteImage(p, for)
    PROVE  /\ pc'[p] = "ask" /\ why'[p] = for /\ tries'[p] = 0
           /\ \A q \in Process \ {p} :
                pc'[q] = pc[q] /\ why'[q] = why[q] /\ tries'[q] = tries[q]
BY DEF CInv, IInv, Types, RetrieveRemoteImage

-----------------------------------------------------------------------------
(***************************************************************************)
(* A warmer gets the digest of its image.                                  *)
(***************************************************************************)
LEMMA ReturnsCount ==
    ASSUME CInv, IInv', NEW p \in Process, NEW d \in Digest, pc[p] = "ask", returns(p, d),
           manifestCache[p][image(p)] \in {None, d},
           manifestCache' = [manifestCache EXCEPT ![p][image(p)] = d],
           UNCHANGED <<tags, dir, opts>>
    PROVE  CInv'
<1> DEFINE n == image(p)
<1>1. n \in Name /\ pc[p] \in Busy
  BY Before DEF Busy
<1>2. manifestCache \in [Process -> [Name -> Digest \cup {None}]] /\ errs' = errs
  BY DEF CInv, IInv, Types, returns
<1>3. /\ manifestCache'[p][n] = d
      /\ \A m \in Name \ {n} : manifestCache'[p][m] = manifestCache[p][m]
      /\ \A q \in Process \ {p} : manifestCache'[q] = manifestCache[q]
  BY <1>1, <1>2
<1>4. Knows(p) /\ TarsStay
  BY <1>1, <1>3 DEF Knows, TarsStay
<1>5. CASE why[p] = "image"
  <2>1. nextImage(p)
    BY <1>5 DEF returns, goesOnWith
  <2>2. Alone(p)
    BY <1>2, <1>3, <1>4, <2>1, NextImageAlone DEF CInv, Alone
  <2>3. Counts(p)'
    BY <1>1, <1>2, <2>1, NextImageAlone, CountsPast
  <2>4. p \notin Warmer
    BY <1>5 DEF CInv, Warms
  <2> QED
    BY <2>2, <2>3, <2>4, OneCounts
<1>6. CASE why[p] # "image"
  <2>1. /\ pc' = [pc EXCEPT ![p] = IF opts[p].Force THEN "tar" ELSE "local"]
        /\ digest' = [digest EXCEPT ![p] = d]
        /\ UNCHANGED <<done, why, tries>>
    BY <1>6 DEF returns
  <2>2. /\ pc'[p] \in {"tar", "local"} /\ digest'[p] = d
        /\ \A q \in Process \ {p} : pc'[q] = pc[q] /\ digest'[q] = digest[q]
    BY <2>1 DEF CInv, IInv, Types
  <2>3. Alone(p)
    BY <1>2, <1>3, <1>4, <2>1, <2>2 DEF CInv, Alone
  <2>4. Counts(p)'
    BY <1>1, <1>2, <2>1, CountsStay
  <2>5. ASSUME p \in Warmer PROVE Warms(p)'
    <3>1. PICK m : m = n
      OBVIOUS
    <3>2. (Cardinality(Missing(p)) <= errs[p])'
      BY <1>2, <1>4, <2>1, <2>5, <3>1, OwnCount
    <3>3. image(p)' = m
      BY <2>1, <3>1 DEF image
    <3> QED
      BY <1>3, <2>2, <3>1, <3>2, <3>3 DEF Warms
  <2> QED
    BY <2>3, <2>4, <2>5, OneCounts
<1> QED
  BY <1>5, <1>6

(***************************************************************************)
(* The answer of a registry, or the one remembered.                        *)
(***************************************************************************)
LEMMA AnswersCount ==
    ASSUME CInv, IInv', NEW p \in Process, answers(p) \/ remembered(p)
    PROVE  CInv'
<1>1. IInv /\ pc[p] = "ask" /\ image(p) \in Name /\ ask[p] \in Seq(Registry) /\ ask[p] # << >>
  BY DEF CInv, IInv, Types, AtHand, Busy, answers, remembered
<1>2. manifestCache \in [Process -> [Name -> Digest \cup {None}]]
  BY DEF CInv, IInv, Types
<1>3. CASE remembered(p)
  <2> DEFINE d == manifestCache[p][image(p)]
  <2>1. d \in Digest
    BY <1>1, <1>2, <1>3 DEF remembered
  <2>2. manifestCache' = [manifestCache EXCEPT ![p][image(p)] = d]
    BY <1>1, <1>2, <1>3 DEF remembered
  <2> QED
    BY <1>1, <1>3, <2>1, <2>2, ReturnsCount DEF remembered
<1>4. CASE answers(p)
  <2> DEFINE d == IF image(p) \in Digest THEN image(p) ELSE tags[Head(ask[p])][image(p)]
  <2>1. Head(ask[p]) \in Registry
    BY <1>1
  <2>2. d \in Digest
    BY <1>1, <2>1 DEF IInv, Types, Name
  <2> QED
    BY <1>1, <1>4, <2>2, ReturnsCount DEF answers
<1> QED
  BY <1>3, <1>4

(***************************************************************************)
(* A registry that fails: a warmer whose last registry failed counts it.   *)
(***************************************************************************)
LEMMA AskFailsCount ==
    ASSUME CInv, IInv', NEW p \in Process, askFails(p)
    PROVE  CInv'
<1>1. /\ pc[p] = "ask" /\ pc[p] \in Busy /\ UNCHANGED <<dir, opts, manifestCache>>
      /\ TarsStay /\ Knows(p)
  BY DEF askFails, Busy, TarsStay, Knows
<1>2. DOMAIN errs = Process /\ tries \in [Process -> Nat] /\ ask \in [Process -> Seq(Registry)]
      /\ pc \in [Process -> Busy \cup Ended \cup {"next"}]
  BY DEF CInv, IInv, Types
<1>3. PICK m : m = image(p)
  OBVIOUS
<1>4. CASE Retry(p) /\ tries' = [tries EXCEPT ![p] = @ + 1] /\ UNCHANGED <<pc, why, ask, done, digest, temp, errs>>
  <2>1. Alone(p)
    BY <1>1, <1>2, <1>4 DEF Alone
  <2>2. Counts(p)'
    <3>1. tries'[p] = tries[p] + 1 /\ tries[p] < ImageDownloadRetry
      BY <1>2, <1>4 DEF Retry
    <3>2. tries'[p] <= ImageDownloadRetry
      BY <3>1, Before
    <3> QED
      BY <1>1, <1>4, <3>2 DEF CInv, Counts
  <2>3. ASSUME p \in Warmer PROVE Warms(p)'
    <3>1. (Cardinality(Missing(p)) <= errs[p])'
      BY <1>1, <1>3, <1>4, <2>3, OwnCount
    <3> QED
      BY <1>1, <1>4, <2>3, <3>1, Before DEF Warms
  <2> QED
    BY <2>1, <2>2, <2>3, OneCounts
<1>5. CASE /\ tries' = [tries EXCEPT ![p] = 0]
           /\ UNCHANGED <<pc, why, done, digest, temp, errs>>
  <2>1. Alone(p)
    BY <1>1, <1>2, <1>5 DEF Alone
  <2>2. Counts(p)'
    BY <1>1, <1>2, <1>5, CountsStay
  <2>3. ASSUME p \in Warmer PROVE Warms(p)'
    <3>1. (Cardinality(Missing(p)) <= errs[p])'
      BY <1>1, <1>3, <1>5, <2>3, OwnCount
    <3> QED
      BY <1>1, <1>5, <2>3, <3>1, Before DEF Warms
  <2> QED
    BY <2>1, <2>2, <2>3, OneCounts
<1>6. CASE why[p] = "key" /\ RetrieveRemoteImage(p, "image") /\ UNCHANGED <<done, digest, temp, errs>>
  <2>1. Alone(p)
    BY <1>1, <1>2, <1>6, RetrieveAlone DEF Alone
  <2>2. Counts(p)'
    BY <1>1, <1>6, RetrieveAlone, CountsStay
  <2>3. p \notin Warmer
    BY <1>1, <1>6, Before DEF Warms
  <2> QED
    BY <2>1, <2>2, <2>3, OneCounts
<1>7. CASE /\ why[p] = "image" /\ pc' = [pc EXCEPT ![p] = "failed"] /\ Forget(p)
           /\ UNCHANGED <<done, temp, errs>>
  <2>1. /\ tries'[p] = 0 /\ pc'[p] = "failed"
        /\ \A q \in Process \ {p} : /\ pc'[q] = pc[q] /\ why'[q] = why[q]
                                    /\ tries'[q] = tries[q] /\ digest'[q] = digest[q]
    BY <1>7 DEF CInv, IInv, Types, Forget
  <2>2. Alone(p)
    BY <1>1, <1>2, <1>7, <2>1 DEF Alone
  <2>3. Counts(p)'
    BY <1>1, <1>7, <2>1, CountsStay
  <2>4. p \notin Warmer
    BY <1>1, <1>7, Before DEF Warms
  <2> QED
    BY <2>2, <2>3, <2>4, OneCounts
<1>8. CASE warmFails(p)
  <2>1. nextImage(p) /\ errs' = [errs EXCEPT ![p] = @ + 1]
    BY <1>8 DEF warmFails
  <2>2. Alone(p)
    BY <1>1, <1>2, <2>1, NextImageAlone DEF Alone
  <2>3. errs'[p] = errs[p] + 1
    BY <1>2, <2>1
  <2>4. Counts(p)'
    BY <1>1, <2>1, <2>3, NextImageAlone, CountsPast
  <2>5. ASSUME p \in Warmer PROVE Warms(p)'
    <3>1. (Cardinality(Missing(p)) <= errs[p])'
      BY <1>1, <1>3, <2>1, <2>3, <2>5, NextImageAlone, OwnCount
    <3> QED
      BY <2>1, <3>1, NextImageAlone DEF Warms, Busy
  <2> QED
    BY <2>2, <2>4, <2>5, OneCounts
<1> QED
  BY <1>4, <1>5, <1>6, <1>7, <1>8 DEF askFails

(***************************************************************************)
(* The end of a process, by itself or by a kill.                           *)
(***************************************************************************)
LEMMA EndCount ==
    ASSUME CInv, IInv', NEW p \in Process, end(p) \/ kill(p)
    PROVE  CInv'
<1>1. DOMAIN errs = Process /\ UNCHANGED <<dir, opts, done, errs>> /\ TarsStay
  BY DEF CInv, end, kill, TarsStay
<1>2. /\ pc'[p] \in Ended /\ tries'[p] \in {0, tries[p]}
      /\ \A q \in Process \ {p} :
           /\ pc'[q] = pc[q] /\ why'[q] = why[q] /\ tries'[q] = tries[q]
           /\ digest'[q] = digest[q] /\ manifestCache'[q] = manifestCache[q]
  BY DEF CInv, IInv, Types, end, kill, Forget, Ended
<1>3. Alone(p)
  BY <1>1, <1>2 DEF Alone
<1>4. Counts(p)'
  BY <1>1, <1>2, CountsStay DEF Busy, Ended
<1>5. ASSUME p \in Warmer PROVE Warms(p)'
  <2>1. PICK m : m = image(p)
    OBVIOUS
  <2>2. end(p) => pc[p] = "next" /\ Knows(p)
    BY DEF end, Knows
  <2>3. end(p) => (Cardinality(Missing(p)) <= errs[p])'
    BY <1>1, <1>5, <2>1, <2>2, OwnCount
  <2>4. kill(p) => pc'[p] = "killed"
    BY DEF kill, CInv, IInv, Types
  <2> QED
    BY <1>2, <2>3, <2>4 DEF Warms, Busy, Ended
<1> QED
  BY <1>3, <1>4, <1>5, OneCounts

(***************************************************************************)
(* Executors count nothing.                                                *)
(***************************************************************************)
LEMMA ExecuteCount ==
    ASSUME CInv, IInv', NEW p \in Process, p \in Executor, execute(p)
    PROVE  CInv'
<1>1. DOMAIN errs = Process /\ UNCHANGED <<dir, opts, manifestCache, errs>> /\ TarsStay
  BY DEF CInv, execute, RetrieveSourceImage, cachedImage, TarsStay
<1>2. p \notin Warmer
  BY NamesAssumption
<1>3. CASE RetrieveSourceImage(p)
  <2>1. UNCHANGED done /\ done[p] < Len(opts[p].images)
    BY <1>3 DEF RetrieveSourceImage
  <2>2. /\ tries'[p] \in {0, tries[p]}
        /\ \A q \in Process \ {p} :
           /\ pc'[q] = pc[q] /\ why'[q] = why[q] /\ tries'[q] = tries[q]
           /\ digest'[q] = digest[q]
    <3>1. CASE opts[p].CacheDir /\ image(p) \in Digest
      BY <1>3, <3>1 DEF CInv, IInv, Types, RetrieveSourceImage
    <3>2. CASE ~(opts[p].CacheDir /\ image(p) \in Digest)
      <4>1. /\ RetrieveRemoteImage(p, IF opts[p].CacheDir THEN "key" ELSE "image")
            /\ UNCHANGED digest
        BY <1>3, <3>2 DEF RetrieveSourceImage
      <4> QED
        BY <4>1, RetrieveAlone
    <3> QED
      BY <3>1, <3>2
  <2>3. Alone(p) /\ Counts(p)'
    BY <1>1, <2>1, <2>2, CountsStay DEF Alone
  <2> QED
    BY <1>2, <2>3, OneCounts
<1>4. CASE cachedImage(p) /\ LocalSource(digest[p]) = "found"
  <2>1. nextImage(p) /\ pc[p] \in Busy
    BY <1>4 DEF cachedImage, goesOnWith, Busy
  <2>2. Alone(p)
    BY <1>1, <2>1, NextImageAlone DEF Alone
  <2>3. Counts(p)'
    BY <1>1, <2>1, NextImageAlone, CountsPast
  <2> QED
    BY <1>2, <2>2, <2>3, OneCounts
<1>5. CASE cachedImage(p) /\ LocalSource(digest[p]) # "found"
  <2>1. /\ RetrieveRemoteImage(p, "image") /\ pc[p] \in Busy
        /\ UNCHANGED <<done, digest>>
    BY <1>5 DEF cachedImage, Busy
  <2>2. Alone(p)
    BY <1>1, <2>1, RetrieveAlone DEF Alone
  <2>3. Counts(p)'
    BY <1>1, <2>1, RetrieveAlone, CountsStay
  <2> QED
    BY <1>2, <2>2, <2>3, OneCounts
<1> QED
  BY <1>3, <1>4, <1>5 DEF execute

(***************************************************************************)
(* A step in which a warmer stays at its image, from one state to another  *)
(* of those after the answer.                                              *)
(***************************************************************************)
LEMMA WarmStays ==
    ASSUME CInv, IInv', NEW p \in Process, p \in Warmer, pc[p] \in Busy \ {"ask"},
           NEW s \in Busy \ {"ask"}, pc' = [pc EXCEPT ![p] = s], TarsStay,
           s = "rename manifest" => dir'[digest[p]].tar # None,
           UNCHANGED <<opts, done, why, tries, manifestCache, digest, errs>>
    PROVE  CInv'
<1>1. /\ DOMAIN errs = Process /\ pc'[p] = s
      /\ \A q \in Process \ {p} : pc'[q] = pc[q]
  BY DEF CInv, IInv, Types
<1>2. Alone(p)
  BY <1>1 DEF Alone
<1>3. Counts(p)'
  BY CountsStay
<1>4. PICK m : m = image(p)
  OBVIOUS
<1>5. Knows(p) /\ pc[p] # "killed"
  BY DEF Knows, Busy
<1>6. (Cardinality(Missing(p)) <= errs[p])'
  BY <1>4, <1>5, OwnCount
<1>7. Warms(p) /\ image(p)' = image(p)
  BY DEF CInv, image
<1>8. Warms(p)'
  BY <1>1, <1>6, <1>7 DEF Warms, Busy
<1> QED
  BY <1>2, <1>3, <1>8, OneCounts

(***************************************************************************)
(* A step in which a warmer goes past its image: it is there, or counted.  *)
(***************************************************************************)
LEMMA WarmPast ==
    ASSUME CInv, IInv', NEW p \in Process, p \in Warmer,
           pc[p] \in Busy \/ (pc[p] = "next" /\ done[p] < Len(opts[p].images)),
           nextImage(p), TarsStay, UNCHANGED <<opts, manifestCache>>,
           \/ UNCHANGED errs /\ pc[p] \in Busy \ {"ask"} /\ dir'[digest[p]].tar # None
           \/ errs' = [errs EXCEPT ![p] = @ + 1]
    PROVE  CInv'
<1>1. DOMAIN errs = Process /\ Knows(p) /\ pc[p] # "killed"
  BY DEF CInv, Knows, Busy
<1>2. Alone(p)
  BY <1>1, NextImageAlone DEF Alone
<1>3. errs'[p] \in {errs[p], errs[p] + 1}
  BY <1>1
<1>4. Counts(p)'
  BY <1>3, NextImageAlone, CountsPast
<1>5. PICK m : m = image(p)
  OBVIOUS
<1>6. \/ errs'[p] = errs[p] /\ There(p, m)'
      \/ errs'[p] = errs[p] + 1
  <2>1. CASE UNCHANGED errs /\ pc[p] \in Busy \ {"ask"} /\ dir'[digest[p]].tar # None
    <3>1. manifestCache[p][m] = digest[p] /\ digest[p] \in Digest
      BY <1>5, <2>1, Before DEF Warms
    <3>2. digest[p] # None
      BY <3>1, Distinct
    <3> QED
      BY <2>1, <3>1, <3>2 DEF There
  <2>2. CASE errs' = [errs EXCEPT ![p] = @ + 1]
    BY <1>1, <2>2
  <2> QED
    BY <2>1, <2>2
<1>7. (Cardinality(Missing(p)) <= errs[p])'
  BY <1>1, <1>5, <1>6, NextImageAlone, OwnCount
<1>8. Warms(p)'
  BY <1>7, NextImageAlone DEF Warms, Busy
<1> QED
  BY <1>2, <1>4, <1>8, OneCounts

(***************************************************************************)
(* The steps of a warmer.                                                  *)
(***************************************************************************)
LEMMA WarmCount ==
    ASSUME CInv, IInv', NEW p \in Process, p \in Warmer, warm(p)
    PROVE  CInv'
<1>1. CASE warmToFile(p)
  <2>1. /\ RetrieveRemoteImage(p, "warm") /\ pc[p] = "next" /\ done[p] < Len(opts[p].images)
        /\ UNCHANGED <<dir, opts, done, manifestCache, digest, errs>> /\ TarsStay /\ Knows(p)
    BY <1>1 DEF warmToFile, TarsStay, Knows
  <2>2. Alone(p)
    BY <2>1, RetrieveAlone DEF CInv, Alone
  <2>3. Counts(p)'
    BY <2>1, RetrieveAlone, CountsStay
  <2>4. PICK m : m = image(p)
    OBVIOUS
  <2>5. (Cardinality(Missing(p)) <= errs[p])'
    BY <2>1, <2>4, OwnCount
  <2>6. Warms(p)'
    BY <2>1, <2>5, RetrieveAlone DEF Warms, Busy
  <2> QED
    BY <2>2, <2>3, <2>6, OneCounts
<1>2. CASE Warm(p) /\ IsAlreadyCached(digest[p])
  <2>1. dir[digest[p]].tar # None
    BY <1>2 DEF IsAlreadyCached, LocalSource
  <2>2. /\ nextImage(p) /\ pc[p] \in Busy \ {"ask"} /\ UNCHANGED <<dir, opts, manifestCache, errs>>
        /\ TarsStay
    BY <1>2 DEF Warm, Busy, TarsStay
  <2> QED
    BY <2>1, <2>2, WarmPast
<1>3. CASE Warm(p) /\ ~IsAlreadyCached(digest[p])
  <2>1. /\ pc[p] \in Busy \ {"ask"} /\ pc' = [pc EXCEPT ![p] = "tar"] /\ TarsStay
        /\ UNCHANGED <<opts, done, why, tries, manifestCache, digest, errs>>
    BY <1>3 DEF Warm, Busy, TarsStay
  <2>2. "tar" \in Busy \ {"ask"}
    BY DEF Busy
  <2> QED
    BY <2>1, <2>2, WarmStays
<1>4. CASE startTar(p)
  <2>1. /\ pc[p] \in Busy \ {"ask"} /\ pc' = [pc EXCEPT ![p] = "writing"] /\ TarsStay
        /\ UNCHANGED <<opts, done, why, tries, manifestCache, digest, errs>>
    BY <1>4 DEF startTar, Busy, TarsStay
  <2>2. "writing" \in Busy \ {"ask"}
    BY DEF Busy
  <2> QED
    BY <2>1, <2>2, WarmStays
<1>5. CASE writeTarAndManifest(p)
  <2>1. /\ pc[p] \in Busy \ {"ask"} /\ pc' = [pc EXCEPT ![p] = "rename tar"] /\ TarsStay
        /\ UNCHANGED <<opts, done, why, tries, manifestCache, digest, errs>>
    BY <1>5 DEF writeTarAndManifest, Busy, TarsStay
  <2>2. "rename tar" \in Busy \ {"ask"}
    BY DEF Busy
  <2> QED
    BY <2>1, <2>2, WarmStays
<1>6. CASE renameTar(p)
  <2>1. /\ pc[p] \in Busy \ {"ask"} /\ pc' = [pc EXCEPT ![p] = "rename manifest"]
        /\ UNCHANGED <<opts, done, why, tries, manifestCache, digest, errs>>
    BY <1>6 DEF renameTar, Busy
  <2>2. "rename manifest" \in Busy \ {"ask"}
    BY DEF Busy
  <2>3. digest[p] \in Digest /\ temp[p].tar = digest[p] /\ digest[p] # None
    BY <1>6, Distinct DEF renameTar, Busy, CInv, IInv, AtHand
  <2>4. dir' = [dir EXCEPT ![digest[p]] = [@ EXCEPT !.tar = digest[p], !.old = FALSE]]
    BY <1>6, <2>3, Zenon DEF renameTar
  <2>5. dir'[digest[p]].tar # None /\ TarsStay
    BY <2>3, <2>4 DEF CInv, IInv, Types, TarsStay
  <2> QED
    BY <2>1, <2>2, <2>5, WarmStays
<1>7. CASE renameManifest(p)
  <2>1. /\ nextImage(p) /\ pc[p] \in Busy \ {"ask"} /\ UNCHANGED <<opts, manifestCache, errs>>
        /\ pc[p] = "rename manifest"
    BY <1>7 DEF renameManifest, Busy
  <2>2. dir[digest[p]].tar # None /\ digest[p] \in Digest
    BY <2>1, Before DEF Warms
  <2>3. dir' = [dir EXCEPT ![digest[p]] = [@ EXCEPT !.mfst = temp[p].mfst]]
    BY <1>7, Zenon DEF renameManifest
  <2>4. \A d \in Digest : dir'[d].tar = dir[d].tar
    BY <2>2, <2>3 DEF CInv, IInv, Types
  <2>5. dir'[digest[p]].tar # None /\ TarsStay
    BY <2>2, <2>4 DEF TarsStay
  <2> QED
    BY <2>1, <2>5, WarmPast
<1>8. CASE warmToFileFails(p)
  <2>1. /\ nextImage(p) /\ UNCHANGED <<dir, opts, manifestCache>> /\ TarsStay
        /\ errs' = [errs EXCEPT ![p] = @ + 1]
        /\ pc[p] \in Busy \/ (pc[p] = "next" /\ done[p] < Len(opts[p].images))
    BY <1>8 DEF warmToFileFails, warmFails, Busy, TarsStay
  <2> QED
    BY <2>1, WarmPast
<1> QED
  BY <1>1, <1>2, <1>3, <1>4, <1>5, <1>6, <1>7, <1>8 DEF warm

(***************************************************************************)
(* Steps of the world: a tag moves, an entry expires, nothing changes.     *)
(***************************************************************************)
LEMMA WorldCount ==
    ASSUME CInv, IInv', TarsStay,
           UNCHANGED <<opts, pc, done, why, tries, manifestCache, digest, errs>>
    PROVE  CInv'
<1>1. ASSUME NEW p \in Process PROVE CInv'
  <2>1. Alone(p)
    BY DEF CInv, Alone
  <2>2. Counts(p)'
    BY DEF CInv, Counts
  <2>3. ASSUME p \in Warmer PROVE Warms(p)'
    <3>1. PICK m : m = image(p)
      OBVIOUS
    <3>2. Knows(p)
      BY DEF Knows
    <3>3. pc[p] # "killed" => (Cardinality(Missing(p)) <= errs[p])'
      BY <2>3, <3>1, <3>2, OwnCount
    <3>4. Warms(p) /\ image(p)' = image(p)
      BY <2>3 DEF CInv, image
    <3>5. pc[p] = "rename manifest" => dir'[digest[p]].tar # None
      BY <3>4, Before DEF Warms, TarsStay, Busy
    <3> QED
      BY <3>3, <3>4, <3>5 DEF Warms
  <2> QED
    BY <2>1, <2>2, <2>3, OneCounts
<1>2. CASE Process = {}
  BY <1>2 DEF CInv, Process
<1> QED
  BY <1>1, <1>2

(***************************************************************************)
(* The invariant of the count.                                             *)
(***************************************************************************)
LEMMA CInvHolds == Spec => []CInv
<1>1. Init => CInv
  <2> SUFFICES ASSUME Init PROVE CInv
    OBVIOUS
  <2>1. IInv
    BY InitIInv
  <2>2. ASSUME NEW p \in Process PROVE Counts(p)
    <3>1. opts[p] \in WarmerRun \cup ExecutorRun
      BY <2>1 DEF IInv, Types
    <3>2. Len(opts[p].images) \in Nat
      BY <3>1, RunAssumption
    <3> QED
      BY <3>2, RetryAssumption DEF Init, Counts, Busy
  <2>3. ASSUME NEW p \in Warmer PROVE Warms(p)
    <3>1. p \in Process /\ done[p] = 0 /\ errs[p] = 0 /\ pc[p] = "next"
      BY DEF Init, Process
    <3>2. Missing(p) = {}
      BY <3>1 DEF Missing
    <3>3. Cardinality(Missing(p)) = 0
      BY <3>2, FS_EmptySet
    <3> QED
      BY <3>1, <3>3 DEF Warms, Busy
  <2> QED
    BY <2>1, <2>2, <2>3 DEF CInv, Init
<1>2. CInv /\ [Next]_vars => CInv'
  <2> SUFFICES ASSUME CInv, [Next]_vars PROVE CInv'
    OBVIOUS
  <2>1. IInv'
    BY NextIInv DEF CInv
  <2>2. CASE UNCHANGED vars
    BY <2>1, <2>2, WorldCount DEF vars, TarsStay
  <2>3. ASSUME NEW p \in Process, step(p) \/ kill(p) PROVE CInv'
    BY <2>1, <2>3, AnswersCount, AskFailsCount, EndCount, WarmCount, ExecuteCount DEF step
  <2>4. ASSUME NEW r \in Registry, NEW t \in Tag, NEW d \in Digest, moveTag(r, t, d) PROVE CInv'
    BY <2>1, <2>4, WorldCount DEF moveTag, TarsStay
  <2>5. ASSUME NEW d \in Digest, expire(d) PROVE CInv'
    <3>1. \A e \in Digest : dir'[e].tar = dir[e].tar
      BY <2>5 DEF CInv, IInv, Types, expire
    <3>2. TarsStay
      BY <3>1 DEF TarsStay
    <3> QED
      BY <2>1, <2>5, <3>2, WorldCount DEF expire
  <2> QED
    BY <2>2, <2>3, <2>4, <2>5 DEF Next
<1> QED
  BY <1>1, <1>2, PTL DEF Spec

(***************************************************************************)
(* For any number of warmers, images and failures: what a warmer is past   *)
(* and did not count as an error is in the directory, for as long as the   *)
(* warmer lives (WarmCache and warmToFile; an image found by LocalSource   *)
(* counts as warmed).                                                      *)
(***************************************************************************)
THEOREM ErrorsAreCounted == Spec => []MissingIsCounted
<1>1. CInv => MissingIsCounted
  BY DEF CInv, Warms, Missing, There, MissingIsCounted
<1> QED
  BY CInvHolds, <1>1, PTL

(***************************************************************************)
(* The state has its types, no registry is asked more often than           *)
(* ImageDownloadRetry allows, and no more errors are counted than there    *)
(* were images (RetryWithResult, WarmCache).                               *)
(***************************************************************************)
THEOREM TypeCorrect == Spec => []TypeOK
<1>1. CInv => TypeOK
  <2> SUFFICES ASSUME CInv PROVE TypeOK
    OBVIOUS
  <2>1. tries \in [Process -> 0 .. ImageDownloadRetry]
    <3>1. \A p \in Process : tries[p] \in 0 .. ImageDownloadRetry
      BY Before
    <3> QED
      BY <3>1 DEF CInv, IInv, Types
  <2> QED
    BY <2>1 DEF CInv, IInv, Types, Counts, TypeOK
<1> QED
  BY CInvHolds, <1>1, PTL

=============================================================================
