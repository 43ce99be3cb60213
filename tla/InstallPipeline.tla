--------------------------- MODULE InstallPipeline ---------------------------
(***************************************************************************)
(* Installing one `tool@version` from an archive: the pipeline that runs   *)
(* under a per-version file lock, the content-addressed store it fills and *)
(* links from, the removal of an install, and the store's mark-and-sweep   *)
(* collection, as separate operating-system processes that may be killed   *)
(* between any two steps.                                                  *)
(*                                                                         *)
(* A version is installed exactly when its directory holds the completion  *)
(* marker.  File contents are abstracted to one hash per file; an inode    *)
(* carries the bytes, because a hard-linked install shares the store's     *)
(* bytes and an edit of one is an edit of both.                            *)
(***************************************************************************)
EXTENDS Integers, FiniteSets

CONSTANTS
  Version,          \* install directories (tool@version)
  Hash,             \* content hashes, one per distinct file
  Tree,             \* Tree[v]: the files the archive of v unpacks to
  Installer,        \* processes running `osdk install` / `osdk install --force`
  Remover,          \* processes running `osdk uninstall`
  Collector,        \* processes running `osdk prune`
  Inode,            \* file-system inodes
  Modes,            \* link modes configured: of "hardlink", "copy", "symlink"
  SameDevice,       \* can an extracted file be renamed into the store?
  Locked,           \* versions whose backend uninstalls and unmarks under the install lock
  Attested,         \* versions whose installs verify an attestation
  Evictable,        \* versions whose archive the download cache may drop
  MaxUrls,          \* candidate sources of one plan
  MaxOps,           \* operations begun
  MaxKills,         \* processes killed
  MaxEdits,         \* in-place edits of installed files
  None              \* no inode, no version, no holder

Process == Installer \cup Remover \cup Collector

\* A symlinked install holds a path into the store, not an inode of its own.
Link == "link"

\* The files an install directory holds besides the tree itself.
Metadata == {"marker", "receipt", "manifest"}

ASSUME ConstantsAssumption ==
  /\ Tree \in [Version -> SUBSET Hash]
  /\ Modes \in SUBSET {"hardlink", "copy", "symlink"}
  /\ Locked \subseteq Version /\ Attested \subseteq Version /\ Evictable \subseteq Version
  /\ SameDevice \in BOOLEAN
  /\ MaxUrls \in Nat /\ MaxOps \in Nat /\ MaxKills \in Nat /\ MaxEdits \in Nat
  /\ None \notin Inode \cup Version \cup Process \cup Hash \cup {Link}
  /\ Link \notin Inode /\ Hash \cap Metadata = {}

VARIABLES
  marker,     \* marker[v]: .osdk-complete exists
  receipt,    \* receipt[v]: .osdk-artifact.json, "none", "torn" (truncated) or "ok"
  manifest,   \* manifest[v]: "none", "torn" or "ok"
  tree,       \* tree[v][h]: the installed file, an inode, Link or None
  object,     \* object[h]: inode of the store object filed under h, or None
  temp,       \* temp[h]: inode of the store's temporary file for h, or None
  writing,    \* writing[p]: the inode that p truncated last and has not filled, or None
  bad,        \* inodes whose bytes no longer match their hash
  archive,    \* archive[v]: the cached download, "none", "good" or "bad"
  lock,       \* lock[v]: process holding the version's lock file, or None
  pc,         \* pc[p]: the next step of p
  op,         \* op[p]: what p works on
  spoilt,     \* history: versions an uninstall took from lock-free, or was cut off in
  shared,     \* history: hashes whose temporary name two ingestions had in hand at once
  ops, kills, edits   \* bounds on the exploration

copies == <<temp, writing>>
disk == <<marker, receipt, manifest, tree, object, copies, bad, archive>>
bounds == <<ops, kills, edits>>
history == <<spoilt, shared>>
vars == <<disk, lock, pc, op, history, bounds>>

(***************************************************************************)
(* op[p] of a process: the version, the link mode, whether it reinstalls   *)
(* (--force) and whether it is offline, the URLs left to try, the files    *)
(* not yet visited, the file in hand, the live set of a collection and the *)
(* versions it has not marked, and whether a user edited a file since p    *)
(* began.                                                                  *)
(***************************************************************************)
Idle == [ver |-> None, mode |-> "copy", forced |-> FALSE, offline |-> FALSE, urls |-> 0,
         todo |-> {}, file |-> None, live |-> {}, unmarked |-> {}, edited |-> FALSE]

OpType == [ver : Version \cup {None}, mode : {"hardlink", "copy", "symlink"},
           forced : BOOLEAN, offline : BOOLEAN, urls : 0..MaxUrls, todo : SUBSET (Hash \cup Metadata),
           file : Hash \cup {None}, live : SUBSET Hash, unmarked : SUBSET Version,
           edited : BOOLEAN]

Placing == {"hash", "drop", "store", "copy", "publish", "discard", "link"}
Renewing == {"evidence", "renew", "renewing"}
InstallSteps == {"clear", "lock", "check", "fetch", "verify", "place", "manifest", "receipt",
                 "describe", "commit"} \cup Placing \cup Renewing
Steps == {"idle"} \cup InstallSteps
           \cup {"rmlock", "remove", "mark", "sweep"}

TypeOK ==
  /\ marker \in [Version -> BOOLEAN]
  /\ receipt \in [Version -> {"none", "torn", "ok"}]
  /\ manifest \in [Version -> {"none", "torn", "ok"}]
  /\ tree \in [Version -> [Hash -> Inode \cup {Link, None}]]
  /\ object \in [Hash -> Inode \cup {None}]
  /\ temp \in [Hash -> Inode \cup {None}] /\ writing \in [Process -> Inode \cup {None}]
  /\ bad \in SUBSET Inode
  /\ archive \in [Version -> {"none", "good", "bad"}]
  /\ lock \in [Version -> Process \cup {None}]
  /\ pc \in [Process -> Steps]
  /\ op \in [Process -> OpType]
  /\ spoilt \in SUBSET Version /\ shared \in SUBSET Hash
  /\ ops \in Nat /\ kills \in Nat /\ edits \in Nat

Init ==
  /\ marker = [v \in Version |-> FALSE]
  /\ receipt = [v \in Version |-> "none"]
  /\ manifest = [v \in Version |-> "none"]
  /\ tree = [v \in Version |-> [h \in Hash |-> None]]
  /\ object = [h \in Hash |-> None]
  /\ temp = [h \in Hash |-> None] /\ writing = [p \in Process |-> None]
  /\ bad = {}
  /\ archive = [v \in Version |-> "none"]
  /\ lock = [v \in Version |-> None]
  /\ pc = [p \in Process |-> "idle"]
  /\ op = [p \in Process |-> Idle]
  /\ spoilt = {} /\ shared = {}
  /\ ops = 0 /\ kills = 0 /\ edits = 0

-----------------------------------------------------------------------------
(* Helpers *)

Goto(p, from, to) == pc[p] = from /\ pc' = [pc EXCEPT ![p] = to]

\* Mutant: the lock file outlives the command.
ReturnHolding(p) ==
  /\ pc' = [pc EXCEPT ![p] = "idle"] /\ op' = [op EXCEPT ![p] = Idle] /\ UNCHANGED lock

\* The process returns: its lock file is released when the guard is dropped.
Return(p) ==
  /\ pc' = [pc EXCEPT ![p] = "idle"]
  /\ op' = [op EXCEPT ![p] = Idle]
  /\ lock' = [v \in Version |-> IF lock[v] = p THEN None ELSE lock[v]]

InUse ==
  {object[h] : h \in Hash} \cup {temp[h] : h \in Hash} \cup {tree[v][h] : v \in Version, h \in Hash}
    \cup {writing[p] : p \in {q \in Process : pc[q] = "copy"}}
Free == Inode \ InUse
\* Which free inode the file system hands out makes no difference.
Fresh == CHOOSE i \in Inode : i \in Free

\* What a command begins with.
NewInstall(v, m, off) ==
  [Idle EXCEPT !.ver = v, !.mode = m, !.forced = marker[v], !.offline = off,
               !.urls = MaxUrls, !.todo = Tree[v]]
NewRemoval(v) == [Idle EXCEPT !.ver = v, !.todo = Tree[v] \cup Metadata]
NewCollection == [Idle EXCEPT !.unmarked = Version]

Begin(p, step, record) ==
  /\ pc[p] = "idle" /\ ops < MaxOps /\ ops' = ops + 1
  /\ pc' = [pc EXCEPT ![p] = step]
  /\ op' = [op EXCEPT ![p] = record]

Intact(h, f) == IF f = Link THEN object[h] # None /\ object[h] \notin bad
                            ELSE f # None /\ f \notin bad

EmptyDir(v) ==
  /\ ~marker[v] /\ receipt[v] = "none" /\ manifest[v] = "none"
  /\ \A h \in Hash : tree[v][h] = None

-----------------------------------------------------------------------------
(* `osdk install`: Backend::install -> run_with_attestation_inner_at *)

\* The command skips a version that is_installed unless it was forced.
BeginInstall(p, v) ==
  /\ \E m \in Modes, off \in BOOLEAN :
       Begin(p, IF marker[v] THEN "clear" ELSE "lock", NewInstall(v, m, off))
  /\ UNCHANGED <<disk, lock, history, kills, edits>>

\* clear_complete_marker, without the version's lock; clear_dynamic_complete_marker
\* takes the lock and gives it back.
ClearMarker(p) ==
  /\ Goto(p, "clear", "lock")
  /\ op[p].ver \in Locked => lock[op[p].ver] = None
  /\ marker' = [marker EXCEPT ![op[p].ver] = FALSE]
  /\ UNCHANGED <<receipt, manifest, tree, object, bad, copies, archive, lock, op, history, bounds>>

\* Mutant: the lock is taken whoever holds it.
AcquireLockAnyway(p) ==
  /\ Goto(p, "lock", "check")
  /\ lock' = [lock EXCEPT ![op[p].ver] = p]
  /\ UNCHANGED <<disk, op, history, bounds>>

AcquireLock(p) ==
  /\ Goto(p, "lock", "check")
  /\ lock[op[p].ver] = None
  /\ lock' = [lock EXCEPT ![op[p].ver] = p]
  /\ UNCHANGED <<disk, op, history, bounds>>

\* Idempotency: another process completed the version while this one waited.  An
\* attestation is verified once more before the command returns.
AlreadyComplete(p) ==
  /\ pc[p] = "check" /\ marker[op[p].ver]
  /\ IF op[p].ver \in Attested
       THEN Goto(p, "check", "evidence") /\ UNCHANGED <<lock, op>>
       ELSE Return(p)
  /\ UNCHANGED <<disk, history, bounds>>

\* merge_artifact_evidence reads the receipt and has evidence to add to it.
ReadReceipt(p) ==
  /\ Goto(p, "evidence", "renew") /\ receipt[op[p].ver] = "ok"
  /\ UNCHANGED <<disk, lock, op, history, bounds>>

\* The receipt stays as it is: the verification fails, there is no evidence or none
\* that is new, the receipt cannot be read, or the directory has gone meanwhile.
KeepReceipt(p) ==
  /\ \/ pc[p] = "evidence"
     \/ pc[p] = "renew" /\ EmptyDir(op[p].ver)
  /\ Return(p)
  /\ UNCHANGED <<disk, history, bounds>>

\* An unmarked directory is residue.  Its removal is best effort (the result
\* of remove_dir_all is ignored), so any part of the files may survive it.
CleanResidue(p) ==
  LET v == op[p].ver IN
  /\ Goto(p, "check", "fetch") /\ ~marker[v]
  /\ \E kept \in SUBSET Hash :
       tree' = [tree EXCEPT ![v] = [h \in Hash |-> IF h \in kept THEN tree[v][h] ELSE None]]
  /\ \E r \in {"none", receipt[v]} : receipt' = [receipt EXCEPT ![v] = r]
  /\ \E m \in {"none", manifest[v]} : manifest' = [manifest EXCEPT ![v] = m]
  /\ spoilt' = spoilt \ {v}
  /\ UNCHANGED <<marker, object, bad, copies, archive, lock, op, shared, bounds>>

\* The cached archive is tried before any source.
UseCached(p) ==
  /\ Goto(p, "fetch", "verify")
  /\ archive[op[p].ver] # "none" /\ op[p].urls = MaxUrls
  /\ UNCHANGED <<disk, lock, op, history, bounds>>

\* One source of the plan: it fails, or leaves a complete file whose content
\* may still be wrong (an error page, a lagging mirror).
Download(p) ==
  /\ pc[p] = "fetch"
  /\ archive[op[p].ver] = "none" /\ ~op[p].offline /\ op[p].urls > 0
  /\ op' = [op EXCEPT ![p].urls = @ - 1]
  /\ \/ /\ Goto(p, "fetch", "verify")
        /\ \E content \in {"good", "bad"} : archive' = [archive EXCEPT ![op[p].ver] = content]
     \/ UNCHANGED <<pc, archive>>
  /\ UNCHANGED <<marker, receipt, manifest, tree, object, bad, copies, lock, history, bounds>>

\* prepare_archive_candidate: verify, then extract to the process's scratch.  The
\* sources are not looked at again.
Accept(p) ==
  /\ Goto(p, "verify", "place") /\ archive[op[p].ver] = "good"
  /\ op' = [op EXCEPT ![p].urls = 0, ![p].offline = FALSE]
  /\ UNCHANGED <<disk, lock, history, bounds>>

\* A rejected candidate is discarded and the next source tried.
Reject(p) ==
  /\ Goto(p, "verify", "fetch") /\ archive[op[p].ver] # "good" /\ ~op[p].offline
  /\ archive' = [archive EXCEPT ![op[p].ver] = "none"]
  /\ UNCHANGED <<marker, receipt, manifest, tree, object, bad, copies, lock, op, history, bounds>>

\* Nothing usable: an offline cache miss, an offline mismatch, or no source left.
GiveUp(p) ==
  LET v == op[p].ver IN
  /\ \/ pc[p] = "fetch" /\ archive[v] = "none" /\ (op[p].offline \/ op[p].urls = 0)
     \/ pc[p] = "verify" /\ archive[v] # "good" /\ op[p].offline
  /\ Return(p)
  /\ UNCHANGED <<disk, history, bounds>>

\* Cas::ingest_file on one extracted file: the look at the object's path.
Ingest(p, h) ==
  /\ pc[p] = "place" /\ h \in op[p].todo
  /\ op' = [op EXCEPT ![p].file = h, ![p].todo = @ \ {h}]
  /\ pc' = [pc EXCEPT ![p] = IF object[h] = None THEN "store" ELSE "hash"]
  /\ UNCHANGED <<disk, lock, history, bounds>>

\* Mutant: an object is trusted because of its name.
HashMatches(h) == TRUE

\* object_is_intact: the object's bytes are hashed before it is reused.
HashIs(h) == object[h] \notin bad

ReuseObject(p) ==
  /\ Goto(p, "hash", "link") /\ object[op[p].file] # None /\ HashIs(op[p].file)
  /\ UNCHANGED <<disk, lock, op, history, bounds>>

RejectObject(p) ==
  /\ Goto(p, "hash", "drop") /\ object[op[p].file] # None /\ ~HashIs(op[p].file)
  /\ UNCHANGED <<disk, lock, op, history, bounds>>

\* A collection took the object between the two looks: it cannot be hashed.
HashFails(p) ==
  /\ pc[p] = "hash" /\ object[op[p].file] = None
  /\ Return(p)
  /\ UNCHANGED <<disk, history, bounds>>

\* What is at the path by now is removed; that it cannot be is no error.
DropObject(p) ==
  /\ Goto(p, "drop", "store")
  /\ \E left \in {None, object[op[p].file]} : object' = [object EXCEPT ![op[p].file] = left]
  /\ UNCHANGED <<marker, receipt, manifest, tree, bad, copies, archive, lock, op, history, bounds>>

\* The extracted file is renamed to be the object, over one stored meanwhile.
Store(p) ==
  /\ Goto(p, "store", "link") /\ SameDevice /\ Free # {}
  /\ object' = [object EXCEPT ![op[p].file] = Fresh] /\ bad' = bad \ {Fresh}
  /\ UNCHANGED <<marker, receipt, manifest, tree, copies, archive, lock, op, history, bounds>>

\* Mutant: the file is copied under its final name.
CopyInPlace(p) ==
  /\ Goto(p, "store", "copy") /\ ~SameDevice /\ Free # {}
  /\ object' = [object EXCEPT ![op[p].file] = Fresh] /\ writing' = [writing EXCEPT ![p] = Fresh]
  /\ bad' = bad \cup {Fresh}
  /\ UNCHANGED <<marker, receipt, manifest, tree, temp, archive, lock, op, history, bounds>>

\* From another file system it is copied first, to a temporary name that every
\* ingestion of that hash shares: who opens it truncates what is there, and it is
\* whole again when the last to truncate it has written all.
CopyTemp(p) ==
  /\ Goto(p, "store", "copy") /\ ~SameDevice
  /\ \E i \in Inode :
       /\ IF temp[op[p].file] = None THEN Free # {} /\ i = Fresh ELSE i = temp[op[p].file]
       /\ temp' = [temp EXCEPT ![op[p].file] = i] /\ bad' = bad \cup {i}
       /\ writing' = [q \in Process |-> IF q = p THEN i ELSE IF writing[q] = i THEN None ELSE writing[q]]
  /\ shared' = shared \cup {h \in Hash : h = op[p].file /\ \E q \in Process \ {p} :
                                          pc[q] \in {"copy", "publish"} /\ op[q].file = h}
  /\ UNCHANGED <<marker, receipt, manifest, tree, object, archive, lock, op, spoilt, bounds>>

EndCopy(p) ==
  /\ Goto(p, "copy", "publish")
  /\ bad' = bad \ {writing[p]} /\ writing' = [writing EXCEPT ![p] = None]
  /\ UNCHANGED <<marker, receipt, manifest, tree, object, temp, archive, lock, op, history, bounds>>

\* The temporary file is renamed to be the object; that it is gone is no error.
PublishObject(p) ==
  LET h == op[p].file IN
  /\ Goto(p, "publish", "discard")
  /\ object' = [object EXCEPT ![h] = IF temp[h] = None THEN @ ELSE temp[h]]
  /\ temp' = [temp EXCEPT ![h] = None]
  /\ UNCHANGED <<marker, receipt, manifest, tree, writing, bad, archive, lock, op, history, bounds>>

\* The temporary name is removed, whoever has created it again.
DiscardTemp(p) ==
  /\ Goto(p, "discard", "link")
  /\ temp' = [temp EXCEPT ![op[p].file] = None]
  /\ UNCHANGED <<marker, receipt, manifest, tree, object, writing, bad, archive, lock, op, history, bounds>>

\* link::materialize, over whatever is at the destination.
Materialize(p) ==
  LET v == op[p].ver  h == op[p].file IN
  /\ Goto(p, "link", "place")
  /\ \/ /\ op[p].mode = "symlink"
        /\ tree' = [tree EXCEPT ![v][h] = Link] /\ UNCHANGED bad
     \/ /\ op[p].mode = "hardlink" /\ object[h] # None
        /\ tree' = [tree EXCEPT ![v][h] = object[h]] /\ UNCHANGED bad
     \/ /\ op[p].mode = "copy" /\ object[h] # None /\ Free # {}
        /\ tree' = [tree EXCEPT ![v][h] = Fresh]
        /\ bad' = IF object[h] \in bad THEN bad \cup {Fresh} ELSE bad \ {Fresh}
  /\ op' = [op EXCEPT ![p].file = None]
  /\ UNCHANGED <<marker, receipt, manifest, object, copies, archive, lock, history, bounds>>

\* The object vanished between its ingestion and its link: the install fails, the
\* old file at the destination already removed.
ObjectVanished(p) ==
  /\ pc[p] = "link" /\ op[p].mode # "symlink" /\ object[op[p].file] = None
  /\ tree' = [tree EXCEPT ![op[p].ver][op[p].file] = None]
  /\ Return(p)
  /\ UNCHANGED <<marker, receipt, manifest, object, copies, bad, archive, history, bounds>>

\* Manifest::save truncates the file, then writes it.
TruncateManifest(p) ==
  /\ op[p].todo = {} /\ Goto(p, "place", "manifest")
  /\ manifest' = [manifest EXCEPT ![op[p].ver] = "torn"]
  /\ UNCHANGED <<marker, receipt, tree, object, bad, copies, archive, lock, op, history, bounds>>

\* What is written to a file that was removed meanwhile is gone with it.
Filled(content) == IF content = "none" THEN "none" ELSE "ok"

WriteManifest(p) ==
  /\ Goto(p, "manifest", "receipt")
  /\ manifest' = [manifest EXCEPT ![op[p].ver] = Filled(@)]
  /\ UNCHANGED <<marker, receipt, tree, object, bad, copies, archive, lock, op, history, bounds>>

\* So does write_artifact_receipt, for a new install and for new evidence alike.
TruncateReceipt(p) ==
  /\ \/ Goto(p, "receipt", "describe")
     \/ Goto(p, "renew", "renewing")
  /\ receipt' = [receipt EXCEPT ![op[p].ver] = "torn"]
  /\ UNCHANGED <<marker, manifest, tree, object, bad, copies, archive, lock, op, history, bounds>>

WriteReceipt(p) ==
  /\ \/ Goto(p, "describe", "commit") /\ UNCHANGED <<lock, op>>
     \/ pc[p] = "renewing" /\ Return(p)
  /\ receipt' = [receipt EXCEPT ![op[p].ver] = Filled(@)]
  /\ UNCHANGED <<marker, manifest, tree, object, bad, copies, archive, history, bounds>>

\* The marker is the last file written.
Commit(p) ==
  /\ pc[p] = "commit"
  /\ marker' = [marker EXCEPT ![op[p].ver] = TRUE]
  /\ Return(p)
  /\ UNCHANGED <<receipt, manifest, tree, object, bad, copies, archive, history, bounds>>

-----------------------------------------------------------------------------
(* `osdk uninstall`: Backend::uninstall *)

BeginRemove(p, v) ==
  /\ Begin(p, IF v \in Locked THEN "rmlock" ELSE "remove", NewRemoval(v))
  /\ UNCHANGED <<disk, lock, history, kills, edits>>

\* Mutant: the lock is taken whoever holds it.
AcquireRemovalLockAnyway(p) ==
  /\ Goto(p, "rmlock", "remove")
  /\ lock' = [lock EXCEPT ![op[p].ver] = p]
  /\ UNCHANGED <<disk, op, history, bounds>>

AcquireRemovalLock(p) ==
  /\ Goto(p, "rmlock", "remove")
  /\ lock[op[p].ver] = None
  /\ lock' = [lock EXCEPT ![op[p].ver] = p]
  /\ UNCHANGED <<disk, op, history, bounds>>

\* remove_dir_all visits the entries in directory order and unlinks each.
RemoveEntry(p, e) ==
  LET v == op[p].ver IN
  /\ pc[p] = "remove" /\ e \in op[p].todo
  /\ op' = [op EXCEPT ![p].todo = @ \ {e}]
  /\ tree' = [tree EXCEPT ![v] = [h \in Hash |-> IF h = e THEN None ELSE tree[v][h]]]
  /\ marker' = [marker EXCEPT ![v] = @ /\ e # "marker"]
  /\ receipt' = [receipt EXCEPT ![v] = IF e = "receipt" THEN "none" ELSE @]
  /\ manifest' = [manifest EXCEPT ![v] = IF e = "manifest" THEN "none" ELSE @]
  /\ spoilt' = spoilt \cup ({v} \cap (Version \ Locked))
  /\ UNCHANGED <<object, bad, copies, archive, lock, pc, shared, bounds>>

\* The final rmdir of an empty directory; the command then reclaims objects.
FinishRemove(p) ==
  /\ pc[p] = "remove" /\ op[p].todo = {} /\ EmptyDir(op[p].ver)
  /\ pc' = [pc EXCEPT ![p] = "mark"]
  /\ op' = [op EXCEPT ![p] = NewCollection]
  /\ lock' = [v \in Version |-> IF lock[v] = p THEN None ELSE lock[v]]
  /\ UNCHANGED <<disk, history, bounds>>

\* The rmdir fails on an entry that was added behind the scan.
FailRemove(p) ==
  /\ pc[p] = "remove" /\ op[p].todo = {} /\ ~EmptyDir(op[p].ver)
  /\ Return(p)
  /\ UNCHANGED <<disk, history, bounds>>

-----------------------------------------------------------------------------
(* `osdk prune`, and the collection that ends an uninstall: Cas::gc_roots *)

BeginCollect(p) ==
  /\ Begin(p, "mark", NewCollection)
  /\ UNCHANGED <<disk, lock, history, kills, edits>>

\* One manifest is read: its hashes are live; a corrupt one refuses the pass.
Mark(p, v) ==
  /\ pc[p] = "mark" /\ v \in op[p].unmarked /\ manifest[v] # "torn"
  /\ op' = [op EXCEPT ![p].unmarked = @ \ {v},
                      ![p].live = IF manifest[v] = "ok" THEN @ \cup Tree[v] ELSE @]
  /\ UNCHANGED <<disk, lock, pc, history, bounds>>

RefuseCollect(p) ==
  /\ pc[p] = "mark" /\ \E v \in op[p].unmarked : manifest[v] = "torn"
  /\ Return(p)
  /\ UNCHANGED <<disk, history, bounds>>

BeginSweep(p) ==
  /\ op[p].unmarked = {} /\ Goto(p, "mark", "sweep")
  /\ op' = [op EXCEPT ![p].todo = Hash]
  /\ UNCHANGED <<disk, lock, history, bounds>>

\* The files stored under one hash are visited, a temporary one among them or not.
Sweep(p, h) ==
  /\ pc[p] = "sweep" /\ h \in op[p].todo
  /\ op' = [op EXCEPT ![p].todo = @ \ {h}]
  /\ object' = [object EXCEPT ![h] = IF h \in op[p].live THEN @ ELSE None]
  /\ \E t \in {None, temp[h]} : temp' = [temp EXCEPT ![h] = t]
  /\ UNCHANGED <<marker, receipt, manifest, tree, writing, bad, archive, lock, pc, history, bounds>>

FinishCollect(p) ==
  /\ pc[p] = "sweep" /\ op[p].todo = {}
  /\ Return(p)
  /\ UNCHANGED <<disk, history, bounds>>

-----------------------------------------------------------------------------
(* The environment *)

\* A process is killed, or an I/O error ends it; its lock is dropped either way.
Kill(p) ==
  /\ pc[p] # "idle" /\ kills < MaxKills /\ kills' = kills + 1
  /\ Return(p)
  /\ spoilt' = spoilt \cup {v \in Version : pc[p] = "remove" /\ op[p].ver = v}
  /\ UNCHANGED <<disk, shared, ops, edits>>

\* A user, or the tool itself, rewrites an installed file in place: through a
\* hard link or a symlink the store's object changes with it.
Edit(v, h) ==
  /\ edits < MaxEdits /\ edits' = edits + 1
  /\ tree[v][h] # None
  /\ LET i == IF tree[v][h] = Link THEN object[h] ELSE tree[v][h]
     IN i \in Inode /\ bad' = bad \cup {i}
  /\ op' = [p \in Process |->
            IF op[p].ver = None THEN op[p] ELSE [op[p] EXCEPT !.edited = TRUE]]
  /\ UNCHANGED <<marker, receipt, manifest, tree, object, copies, archive, lock, pc, history, ops, kills>>

\* The download cache drops an archive.  It needs the cache to itself, so no
\* install may be past the point where it took its shared lease.
EvictArchive(v) ==
  /\ v \in Evictable /\ archive[v] # "none"
  /\ \A p \in Installer : pc[p] \in {"idle", "clear"}
  /\ archive' = [archive EXCEPT ![v] = "none"]
  /\ UNCHANGED <<marker, receipt, manifest, tree, object, bad, copies, lock, pc, op, history, bounds>>

-----------------------------------------------------------------------------
InstallStep(p) ==
  \/ ClearMarker(p) \/ AcquireLock(p) \/ CleanResidue(p)
  \/ AlreadyComplete(p) \/ ReadReceipt(p) \/ KeepReceipt(p)
  \/ UseCached(p) \/ Download(p) \/ Accept(p) \/ Reject(p) \/ GiveUp(p)
  \/ \E h \in Hash : Ingest(p, h)
  \/ ReuseObject(p) \/ RejectObject(p) \/ HashFails(p) \/ DropObject(p)
  \/ Store(p) \/ CopyTemp(p) \/ EndCopy(p) \/ PublishObject(p) \/ DiscardTemp(p)
  \/ Materialize(p) \/ ObjectVanished(p)
  \/ TruncateManifest(p) \/ WriteManifest(p) \/ TruncateReceipt(p) \/ WriteReceipt(p) \/ Commit(p)

RemoveStep(p) ==
  \/ AcquireRemovalLock(p)
  \/ \E e \in Hash \cup Metadata : RemoveEntry(p, e)
  \/ FinishRemove(p) \/ FailRemove(p)

CollectStep(p) ==
  \/ \E v \in Version : Mark(p, v)
  \/ RefuseCollect(p) \/ BeginSweep(p)
  \/ \E h \in Hash : Sweep(p, h)
  \/ FinishCollect(p)

Next ==
  \/ \E p \in Installer : (\E v \in Version : BeginInstall(p, v)) \/ InstallStep(p)
  \/ \E p \in Remover : (\E v \in Version : BeginRemove(p, v)) \/ RemoveStep(p) \/ CollectStep(p)
  \/ \E p \in Collector : BeginCollect(p) \/ CollectStep(p)
  \/ \E p \in Process : Kill(p)
  \/ \E v \in Version : EvictArchive(v) \/ \E h \in Hash : Edit(v, h)

Spec == Init /\ [][Next]_vars

\* The operating system runs every process that can move and wakes the waiters
\* of a released lock.  Nobody is obliged to start, kill or edit anything.
Fairness ==
  \A p \in Process : WF_vars(InstallStep(p)) /\ WF_vars(RemoveStep(p)) /\ WF_vars(CollectStep(p))

FairSpec == Spec /\ Fairness

-----------------------------------------------------------------------------
(* Properties *)

Complete(v) ==
  /\ receipt[v] # "none" /\ manifest[v] = "ok"
  /\ \A h \in Tree[v] : tree[v][h] # None

BeingRemoved(v) == \E p \in Process : pc[p] = "remove" /\ op[p].ver = v

\* "Every install path treats the marker as proof that the contents are already
\* correct": a marked version has every file of its archive, a complete manifest and a
\* receipt, whatever was killed, raced or collected the store, with three exceptions:
\* an uninstall that holds the lock is at work; or since the version was last rebuilt
\* an uninstall was cut off in it, or one without the lock has taken something.
MarkerMeansComplete ==
  \A v \in Version : marker[v] /\ v \notin spoilt /\ ~(v \in Locked /\ BeingRemoved(v)) => Complete(v)

\* A reinstall repairs: when an install is about to commit, nobody edited a file
\* since it began and no uninstall took one without the lock, every file it placed has
\* the right bytes, even if an earlier edit went through a hard link into the store.
RepairedAtCommit ==
  \A p \in Installer : pc[p] = "commit" /\ ~op[p].edited /\ op[p].ver \notin spoilt =>
    \A h \in Tree[op[p].ver] : Intact(h, tree[op[p].ver][h])

-----------------------------------------------------------------------------
(* The inductive invariant behind MarkerMeansComplete *)

Building == {"fetch", "verify", "place", "manifest", "receipt", "describe", "commit"} \cup Placing

\* Whoever builds or renews holds the lock, and so does who removes what is Locked.
Holds(p) ==
  /\ pc[p] \in Building \cup Renewing \cup {"clear", "lock", "check", "rmlock", "remove"} =>
       op[p].ver \in Version
  /\ pc[p] \in Building \cup Renewing \cup {"check"} => lock[op[p].ver] = p
  /\ pc[p] = "remove" /\ op[p].ver \in Locked => lock[op[p].ver] = p

\* How far the holder has come, in a directory that no uninstall has spoilt.
Progresses(p) ==
  LET v == op[p].ver IN
    /\ pc[p] \in Building => ~marker[v]
    /\ pc[p] \in {"lock", "check", "clear", "fetch", "verify"} => op[p].todo = Tree[v]
    /\ pc[p] \in {"manifest", "receipt", "describe", "commit"} => op[p].todo = {}
    /\ pc[p] \in Placing => op[p].file \in Hash
    /\ pc[p] \notin Placing => op[p].file = None
    /\ v \notin spoilt =>
         /\ pc[p] \in {"place", "manifest", "receipt", "describe", "commit"} \cup Placing =>
              \A h \in Tree[v] \ (op[p].todo \cup {op[p].file}) : tree[v][h] # None
         /\ pc[p] \in {"manifest", "receipt", "describe", "commit"} => manifest[v] # "none"
         /\ pc[p] \in {"receipt", "describe", "commit"} => manifest[v] = "ok"
         /\ pc[p] \in {"describe", "commit"} => receipt[v] # "none"

\* Only a remover removes, and one with the lock that has passed the marker has deleted it.
Removes(p) ==
  /\ pc[p] = "rmlock" => p \in Remover /\ op[p].ver \in Locked /\ "marker" \in op[p].todo
  /\ pc[p] = "remove" =>
       /\ p \in Remover
       /\ op[p].ver \in Locked /\ "marker" \notin op[p].todo => ~marker[op[p].ver]

HoldersHold == \A p \in Process : Holds(p)
InstallProgress == \A p \in Process : Progresses(p)
RemovalProgress == \A p \in Process : Removes(p)

IInv == TypeOK /\ HoldersHold /\ InstallProgress /\ RemovalProgress /\ MarkerMeansComplete

-----------------------------------------------------------------------------
Renews(p, v) == pc[p] \in {"renew", "renewing"} /\ op[p].ver = v /\ lock[v] = p

UndisturbedStep ==
  \A v \in Version : marker[v] /\ marker'[v] /\ ~BeingRemoved(v) =>
    /\ tree'[v] = tree[v] /\ manifest'[v] = manifest[v]
    /\ receipt'[v] = receipt[v] \/ \E p \in Installer : Renews(p, v)

\* Nothing is changed underneath a complete install: while a version stays marked and
\* nobody is removing it, no step changes its files or its manifest (an in-place edit
\* changes an inode, not the directory), and its receipt is rewritten only by an
\* install that has found it marked under the lock and adds evidence to it.
CompleteIsStable == [][UndisturbedStep]_vars

\* "Use a temp name then atomic rename": as long as nobody edits a file, an object is
\* there in part only if two ingestions of its hash had the temporary name in hand at
\* once, wherever else they were killed or collected.
NoPartialObject ==
  edits = 0 => \A h \in Hash \ shared : object[h] # None => object[h] \notin bad

\* "... so concurrent ingests don't see partial objects": an ingestion that links an
\* object that nobody has edited links a whole one.
ConcurrentIngestsSeeWhole ==
  edits = 0 => \A p \in Installer : pc[p] = "link" => object[op[p].file] \notin bad

\* A complete install can be run: each of its files leads to bytes.  With
\* symlinks that takes the store's object too.
CompleteIsUsable ==
  \A v \in Version : marker[v] /\ ~BeingRemoved(v) =>
    \A h \in Tree[v] : tree[v][h] # None /\ (tree[v][h] = Link => object[h] # None)

\* "Leaves the directory in place: ... doing it here would throw the install away
\* even if the download that follows fails": a reinstall that finds no usable
\* artifact leaves the files that were installed.
FailedReinstallKeepsFiles ==
  [][\A p \in Installer : op[p].forced /\ GiveUp(p) =>
       \A h \in Tree[op[p].ver] : tree'[op[p].ver][h] # None]_vars

\* Every command ends: no lock is left held and no two commands wait for each
\* other, also when some are killed.
EveryCommandEnds == \A p \in Process : pc[p] # "idle" ~> pc[p] = "idle"

=============================================================================
