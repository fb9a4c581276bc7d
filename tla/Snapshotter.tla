----------------------------- MODULE Snapshotter -----------------------------
(***************************************************************************)
(* pkg/snapshot/snapshot.go with the walk and the path resolution it uses  *)
(* (pkg/util/fs_util.go, pkg/filesystem/resolve.go): cutting a changing    *)
(* file system into layers.                                                *)
(*                                                                         *)
(* Between two snapshots the commands of a Dockerfile edit the file        *)
(* system.  A snapshot is taken in the steps in which the code reads the   *)
(* disk: the walk that hashes the files (Scan), the resolution of the      *)
(* changed paths and their recording in the layered map (Record), and the  *)
(* writing of the tarball (WriteTar).  A process that a RUN command left   *)
(* behind may write between these steps, and remove a file during the walk *)
(* just before its hash is taken, which ends the walk.  (Whatever else it  *)
(* does to a file during the walk is as if done before or after it.)       *)
(*                                                                         *)
(* Left out: sockets (never put in a tarball), hard links, and the mtime a *)
(* directory gets from a change of its entries, which only makes the code  *)
(* add more parent directories to a layer.                                 *)
(***************************************************************************)
EXTENDS LayeredMap, FiniteSets

CONSTANTS
    BaseTrees,   \* file systems a base image may unpack to
    Ignored,     \* entries of the default ignore list: mount points, /kaniko
    BadLinks,    \* may commands make links that EvalSymlinks fails on?
    Daemon       \* may a process left by RUN write during a snapshot?

ASSUME SnapshotterAssumption ==
    /\ BaseTrees \subseteq {d \in [Path -> Node] : IsTree(d)}
    /\ \A d \in BaseTrees, p \in Path : d[p].mtime = 0    \* older than the build
    /\ Ignored \subseteq Path \ {Root}
    /\ BadLinks \in BOOLEAN
    /\ Daemon \in BOOLEAN

VARIABLES
    fs,          \* the file system under config.RootDir
    clock,       \* the time that stamps mtimes
    image,       \* the base image with the layers written so far on top
    l,           \* the LayeredMap
    volumes,     \* VOLUME paths: ignored below, not themselves
    pc,          \* "idle", "scanned", "recorded" or "failed"
    snap,        \* the snapshot being taken
    inited,      \* Init() has scanned the base file system
    touched,     \* history: paths edited since the last snapshot began
    broke        \* history: did a walk end early, in the last snapshot or "before"?

vars == <<fs, clock, image, l, volumes, pc, snap, inited, touched, broke>>

NoSnap == [toTar |-> FALSE, changed |-> {}, deleted |-> {},
           files |-> {}, whiteouts |-> {}]

Snap == [toTar : BOOLEAN, changed : SUBSET Path, deleted : SUBSET Path,
         files : SUBSET Path, whiteouts : SUBSET Path]

(***************************************************************************)
(* The state has its types: below the root, disk and image stay trees in   *)
(* which everything that exists lies below directories, however layers are *)
(* cut and laid on each other.                                             *)
(***************************************************************************)
TypeOK ==
    /\ fs \in [Path -> Node] /\ IsTree(fs)
    /\ image \in [Path -> Node] /\ IsTree(image)
    /\ clock \in 0 .. MaxTime
    /\ l \in LayeredMaps
    /\ volumes \subseteq Path
    /\ pc \in {"idle", "scanned", "recorded", "failed"}
    /\ snap \in Snap
    /\ inited \in BOOLEAN
    /\ touched \subseteq Path
    /\ broke \in {"no", "last", "before"}

Init ==
    /\ fs \in BaseTrees
    /\ image = fs
    /\ clock = 0
    /\ \E mode \in SnapshotModes : l = NewLayeredMap(mode)
    /\ volumes = {}
    /\ pc = "idle"
    /\ snap = NoSnap
    /\ inited = FALSE
    /\ touched = {}
    /\ broke = "no"

-----------------------------------------------------------------------------
(***************************************************************************)
(* The ignore list.  IsInIgnoreList matches an entry exactly and never a   *)
(* volume (PrefixMatchOnly); CheckIgnoreList also matches below an entry.  *)
(***************************************************************************)
CheckIgnoreList(p) ==
    \/ \E e \in Ignored : HasPrefix(p, e)
    \/ \E v \in volumes : Below(p, v)

(***************************************************************************)
(* The paths the walk calls back on: it skips an ignored directory with    *)
(* everything below it, and walks volumes.                                 *)
(***************************************************************************)
Walked(d) == {p \in Path : Exists(d, p) /\ \A e \in Ignored : ~HasPrefix(p, e)}

(***************************************************************************)
(* The loop body of ResolvePaths for one path: the path itself (the paths  *)
(* given have no link above them, so the ancestor link is the path) and    *)
(* what it evaluates to unless that is ignored.                            *)
(***************************************************************************)
ResolvePath(d, p) ==
    IF ~Exists(d, p) \/ p \in Ignored THEN {}
    ELSE {p} \cup {q \in Path : /\ evalSymlinks(d, p) = [err |-> "ok", path |-> q]
                               /\ Exists(d, q) /\ ~CheckIgnoreList(q)}

(***************************************************************************)
(* A path on which EvalSymlinks fails with anything but "not exist": a     *)
(* link in a loop, or one that leads through a regular file.               *)
(***************************************************************************)
EvalFails(d, p) ==
    Exists(d, p) /\ p \notin Ignored /\ evalSymlinks(d, p).err \in {"ELOOP", "ENOTDIR"}

ASSUME BaseLinksAssumption == BadLinks \/ \A d \in BaseTrees, p \in Path : ~EvalFails(d, p)

(***************************************************************************)
(* The results ResolvePaths(paths) may have, one for each order the paths  *)
(* may come in.  On the first path whose evaluation fails it returns what  *)
(* it has so far, without the parents and without an error.                *)
(***************************************************************************)
ResolvePaths(d, paths) ==
    LET bad == {p \in paths : EvalFails(d, p)}
        resolved(S) == UNION {ResolvePath(d, p) : p \in S}
    IN IF bad = {} THEN {filesWithParentDirs(resolved(paths))}
       ELSE {resolved(S) \cup {p} : S \in SUBSET (paths \ bad), p \in bad}

-----------------------------------------------------------------------------
(***************************************************************************)
(* scanFullFilesystem up to the walk: open a layer, hash every file, find  *)
(* the changed ones and the recorded ones that are gone.  V are the files  *)
(* the walk hashes, W those it does not count as deleted.                  *)
(***************************************************************************)
Walk(toTar, V, W) ==
    LET l1 == Snapshot(l)
    IN /\ pc = "idle"
       /\ l' = CheckFileChanges(l1, fs, V)
       /\ snap' = [NoSnap EXCEPT !.toTar = toTar,
                       !.changed = ChangedFiles(l1, fs, V),
                       !.deleted = GetCurrentPaths(l1) \ W]
       /\ pc' = "scanned"
       /\ UNCHANGED <<image, volumes, inited>>

Scan(toTar) ==
    /\ Walk(toTar, Walked(fs), Walked(fs))
    /\ touched' = {}
    /\ broke' = IF broke = "no" THEN "no" ELSE "before"
    /\ UNCHANGED <<fs, clock>>

(***************************************************************************)
(* Snapshotter.Init: a scan whose files are dropped.  The builder calls it *)
(* before the first command whose changes it will have to find by a scan;  *)
(* all that earlier commands did is in layers, but for directories made    *)
(* by VOLUME.                                                              *)
(***************************************************************************)
InitSnapshot ==
    /\ ~inited
    /\ touched \subseteq volumes
    /\ Scan(FALSE)

(***************************************************************************)
(* TakeSnapshotFS.                                                         *)
(***************************************************************************)
TakeSnapshotFS == inited /\ Scan(TRUE)

(***************************************************************************)
(* scanFullFilesystem after the walk: resolve the changed paths, drop the  *)
(* ignored ones, record additions and deletions in the layered map.        *)
(***************************************************************************)
Record ==
    /\ pc = "scanned"
    /\ \E resolved \in ResolvePaths(fs, snap.changed) :
         LET files == {p \in resolved : ~CheckIgnoreList(p)}
         IN /\ l' = AddDelete(Add(l, fs, files), snap.deleted)
            /\ snap' = IF ~snap.toTar THEN NoSnap
                       ELSE [snap EXCEPT !.files = files,
                                 !.whiteouts = removeObsoleteWhiteouts(snap.deleted)]
    /\ pc' = IF snap.toTar THEN "recorded" ELSE "idle"
    /\ inited' = TRUE
    /\ UNCHANGED <<fs, clock, image, volumes, touched, broke>>

(***************************************************************************)
(* TakeSnapshot up to the tarball.  With no files it returns after opening *)
(* the layer, unless the build asks for one layer per command.  (Its walk  *)
(* hashes nothing, and so does not end early.)                             *)
(***************************************************************************)
TakeSnapshot(files, shdCheckDelete, forceBuildMetadata) ==
    LET l1 == Snapshot(l)
    IN /\ pc = "idle"
       /\ touched' = {}
       /\ IF files = {} /\ ~forceBuildMetadata
          THEN l' = l1 /\ UNCHANGED <<snap, pc>>
          ELSE \E resolved \in ResolvePaths(fs, files) :
                 LET l2 == Add(l1, fs, resolved)
                     deleted == IF shdCheckDelete THEN GetCurrentPaths(l2) \ Walked(fs)
                                ELSE {}
                 IN /\ l' = AddDelete(l2, deleted)
                    /\ snap' = [NoSnap EXCEPT !.toTar = TRUE, !.files = resolved,
                           !.deleted = deleted,
                           !.whiteouts = removeObsoleteWhiteouts(deleted)]
                    /\ pc' = "recorded"
       /\ UNCHANGED <<fs, clock, image, volumes, inited, broke>>

(***************************************************************************)
(* writeToTar.  A parent of a whiteout that is missing is an error, and so *)
(* is a file that is missing when it is put in the tarball.                *)
(***************************************************************************)
parentPathMissing(p) ==
    \E q \in ParentDirectories(p) :
        /\ ~Exists(fs, q)
        /\ \A r \in ParentDirectories(p) : Below(q, r) => fs[r].kind = "dir"

AddFileToTarFails(p) == ~Exists(fs, p)

TarLayer == writeToTar(fs, snap.files, snap.whiteouts)

WriteTar ==
    /\ pc = "recorded"
    /\ IF \/ \E p \in snap.whiteouts : parentPathMissing(p)
          \/ \E p \in TarLayer.adds : AddFileToTarFails(p)
       THEN pc' = "failed" /\ UNCHANGED <<image, snap>>
       ELSE /\ image' = ApplyLayer(image, TarLayer)
            /\ snap' = NoSnap
            /\ pc' = "idle"
    /\ UNCHANGED <<fs, clock, l, volumes, inited, touched, broke>>

-----------------------------------------------------------------------------
(***************************************************************************)
(* What commands do to the file system between snapshots.  A write stamps  *)
(* a fresh mtime; chmod and chown do not.  Every edit takes time, so       *)
(* MaxTime also bounds their number.                                       *)
(***************************************************************************)
Allowed(d) == BadLinks \/ \A p \in Path : ~EvalFails(d, p)

Edit(p, node) ==
    /\ fs' = [fs EXCEPT ![p] = node]
    /\ Allowed(fs')
    /\ touched' = touched \cup {p}
    /\ UNCHANGED <<image, l, volumes, pc, snap, inited, broke>>

Tick == clock < MaxTime /\ clock' = clock + 1

Umask == CHOOSE m \in Perm : TRUE     \* permissions of what is created

CanCreate(p) == p # Root /\ fs[Dir(p)].kind = "dir" /\ ~Exists(fs, p)

WriteFile(p, x) ==
    /\ pc = "idle" /\ Tick
    /\ CanCreate(p) \/ fs[p].kind = "file"
    /\ Edit(p, [kind |-> "file", perm |-> IF Exists(fs, p) THEN fs[p].perm ELSE Umask,
                mtime |-> clock', data |-> x])

Mkdir(p) ==
    /\ pc = "idle" /\ Tick
    /\ CanCreate(p)
    /\ Edit(p, [kind |-> "dir", perm |-> Umask, mtime |-> clock', data |-> Root])

Symlink(p, target) ==
    /\ pc = "idle" /\ Tick
    /\ CanCreate(p)
    /\ Edit(p, [kind |-> "link", perm |-> Umask, mtime |-> clock', data |-> target])

Chmod(p, m) ==
    /\ pc = "idle" /\ Tick
    /\ fs[p].kind \in {"file", "dir"}
    /\ fs[p].perm # m
    /\ Edit(p, [fs[p] EXCEPT !.perm = m])

Remove(p) ==
    LET gone == {q \in Path : HasPrefix(q, p) /\ Exists(fs, q)}
    IN /\ pc = "idle" /\ Tick
       /\ p # Root /\ Exists(fs, p)
       /\ \A e \in Ignored : ~HasPrefix(e, p)
       /\ fs' = [q \in Path |-> IF q \in gone THEN Absent ELSE fs[q]]
       /\ Allowed(fs')
       /\ touched' = touched \cup gone
       /\ UNCHANGED <<image, l, volumes, pc, snap, inited, broke>>

(***************************************************************************)
(* VOLUME p: ignored from now on; the directory is made if it is missing   *)
(* (p here has a parent that exists).                                      *)
(***************************************************************************)
Volume(p) ==
    /\ pc = "idle" /\ Tick
    /\ p # Root /\ p \notin volumes
    /\ volumes' = volumes \cup {p}
    /\ \/ /\ fs[p].kind = "dir"
          /\ UNCHANGED <<fs, touched>>
       \/ /\ CanCreate(p)
          /\ fs' = [fs EXCEPT ![p] = [kind |-> "dir", perm |-> Umask,
                                      mtime |-> clock', data |-> Root]]
          /\ Allowed(fs')
          /\ touched' = touched \cup {p}
    /\ UNCHANGED <<image, l, pc, snap, inited, broke>>

(***************************************************************************)
(* A process that outlived its RUN command (only its process group is      *)
(* killed) writes to or removes a regular file while a snapshot is taken.  *)
(* There is none before the first RUN, so none during Init.                *)
(***************************************************************************)
DaemonWrite(p, x) ==
    /\ Daemon /\ snap.toTar /\ pc \in {"scanned", "recorded"} /\ Tick
    /\ fs[p].kind = "file"
    /\ Edit(p, [fs[p] EXCEPT !.mtime = clock', !.data = x])

DaemonRemove(p) ==
    /\ Daemon /\ snap.toTar /\ pc \in {"scanned", "recorded"} /\ Tick
    /\ fs[p].kind = "file"
    /\ Edit(p, Absent)

(***************************************************************************)
(* It removes p when the walk is there: the callback has taken p for a     *)
(* file that exists, and fails to hash it.  gowalkDir drops the error with *)
(* which godirwalk returns, so that everything not reached yet counts as   *)
(* deleted.  V was reached before p: the directories above p, and others   *)
(* with all that is in them, in any order ("Unsorted").                    *)
(***************************************************************************)
ReachedBefore(p, V) ==
    /\ p \notin V /\ ParentDirectories(p) \subseteq V
    /\ \A q \in V : ParentDirectories(q) \subseteq V
    /\ \A q \in V, r \in Walked(fs) : Below(r, q) => Below(p, q) \/ r \in V

WalkBreaksOff(p, V) ==
    /\ Daemon /\ inited /\ Tick
    /\ fs[p].kind = "file" /\ p \in Walked(fs)
    /\ ReachedBefore(p, V)
    /\ Walk(TRUE, V, V \cup {p})
    /\ fs' = [fs EXCEPT ![p] = Absent]
    /\ Allowed(fs')
    /\ touched' = {p}
    /\ broke' = "last"

(***************************************************************************)
(* The snapshot a command asks for.  One that lists its files lists all    *)
(* those it changed, and the directories it removed entries from (their    *)
(* mtime changed); the volumes are added to its list.  RunMarkerCommand    *)
(* asks for deletions to be looked for; COPY, ADD and WORKDIR never delete *)
(* and do not.  Without a scan of the base file system deletions cannot be *)
(* found, see the module StageBuilder for the order of these calls.        *)
(***************************************************************************)
Removed == {p \in touched : ~Exists(fs, p)}

FilesToSnapshot == {p \in touched \cup {Dir(q) : q \in Removed} : Exists(fs, p)}

CommandSnapshot ==
    \/ TakeSnapshotFS
    \/ \E shdCheckDelete, forceBuildMetadata \in BOOLEAN :
         /\ Removed # {} => inited /\ shdCheckDelete
         /\ TakeSnapshot(FilesToSnapshot \cup volumes, shdCheckDelete, forceBuildMetadata)

Command ==
    \E p \in Path :
        \/ \E x \in Data : WriteFile(p, x)
        \/ Mkdir(p)
        \/ \E t \in Path : Symlink(p, t)
        \/ \E m \in Perm : Chmod(p, m)
        \/ Remove(p)
        \/ Volume(p)

Interference ==
    \E p \in Path :
        \/ \E x \in Data : DaemonWrite(p, x)
        \/ DaemonRemove(p)
        \/ \E V \in SUBSET Walked(fs) : WalkBreaksOff(p, V)

Next == Command \/ Interference \/ InitSnapshot \/ CommandSnapshot \/ Record \/ WriteTar

Spec == Init /\ [][Next]_vars

-----------------------------------------------------------------------------
(***************************************************************************)
(* Properties.                                                             *)
(***************************************************************************)

(***************************************************************************)
(* Paths that snapshots are responsible for: VOLUMEs and what the ignore   *)
(* list covers are left to their own devices.                              *)
(***************************************************************************)
Visible(p) ==
    /\ \A e \in Ignored : ~HasPrefix(p, e)
    /\ \A v \in volumes : ~HasPrefix(p, v)

HashIn(d, p) == IF Exists(d, p) THEN hasher(l.mode, d[p]) ELSE NoHash

(***************************************************************************)
(* The layered map never vouches for a file the image does not have: when  *)
(* no snapshot is under way and the map holds, for a path, the hash the    *)
(* path has on disk now (so that the next scan will skip it), the image    *)
(* holds that very file; and when the map, once the base has been scanned, *)
(* has no entry for a path missing on disk, the image has none either.     *)
(* scanFullFilesystem hashes files before it writes them to the tarball,   *)
(* so it holds even when a process left over from RUN writes in between.   *)
(* (Walks that broke off are excluded: a link may then put a file in the   *)
(* layer that the map has as deleted.)                                     *)
(***************************************************************************)
MapNeverVouchesWrongly ==
    pc = "idle" /\ broke = "no" =>
        \A p \in Path :
            /\ Visible(p)
            /\ getCurrentImage(l)[p] = HashIn(fs, p)
            /\ inited \/ Exists(fs, p)
            => image[p] = fs[p]

(***************************************************************************)
(* Base image plus layers reproduce the file system: when no snapshot is   *)
(* under way, a path that was not edited since the last one began is in    *)
(* the image exactly as it is on disk, or is missing from both; even when  *)
(* the hash leaves out the contents, as in "redo", because a write always  *)
(* leaves a new mtime.  This is so with processes left over from RUN that  *)
(* write and remove files meanwhile, but not once one of them has made a   *)
(* walk break off: then the layer deletes what was not reached.            *)
(***************************************************************************)
ImageReproducesFS ==
    pc = "idle" /\ broke = "no" =>
        \A p \in Path \ touched : Visible(p) => image[p] = fs[p]

(***************************************************************************)
(* What a broken walk deleted from the image comes back with the next full *)
(* scan: the map has recorded the deletions too, so that the files look    *)
(* new.                                                                    *)
(***************************************************************************)
LostFilesComeBack ==
    pc = "idle" /\ broke = "before" =>
        \A p \in Path \ touched : Visible(p) /\ Exists(fs, p) => image[p] = fs[p]

(***************************************************************************)
(* A snapshot fails (Lstat on a path that is not there) only when a file   *)
(* was removed under its feet: pruning whiteouts by their parents and      *)
(* skipping those below a non-directory leaves no whiteout whose parents   *)
(* are missing.                                                            *)
(***************************************************************************)
FailsOnlyOnRace == pc = "failed" /\ broke = "no" => Removed # {}

=============================================================================
