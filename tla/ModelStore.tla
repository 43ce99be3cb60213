----------------------------- MODULE ModelStore -----------------------------
(***************************************************************************)
(* The snapshots of one model.  A pull, an import or an offline replay      *)
(* publishes a snapshot under the lock of that snapshot: an intact one is   *)
(* only made current, a damaged one is rebuilt beside it and replaced by    *)
(* two renames, and one that holds edits of the user is refused.  Then      *)
(* current.json and the `current` link name it.  `model remove` deletes it  *)
(* all, without a lock.  The link mode copies, so that snapshots share no   *)
(* bytes with the store.                                                    *)
(***************************************************************************)
EXTENDS Naturals, FiniteSets

CONSTANTS
  Process, Snapshot, None,
  Command,      \* the commands users run: records [op, snapshot]
  MaxCommands, MaxEdits, MaxKills, MaxErrors

ASSUME ConstantsAssumption ==
  /\ Command \subseteq [op : {"publish", "remove"}, snapshot : Snapshot]
  /\ None \notin Snapshot \cup Process
  /\ MaxCommands \in Nat /\ MaxEdits \in Nat /\ MaxKills \in Nat /\ MaxErrors \in Nat

VARIABLES
  tree,       \* tree[s]: the directory of snapshot s
  parked,     \* parked[p]: the directory p has moved aside
  orphan,     \* orphan[s]: directories of s moved aside by processes that are gone
  temp,       \* temp[p]: the directory p builds
  current,    \* the snapshot current.json names, or None
  link,       \* the snapshot the `current` link resolves to, or None
  lock,       \* lock[s]: the process that holds the lock of s, or None
  pc, snap,
  damaged,    \* snapshots edited or removed since they were last published (history)
  disturbed,  \* processes at work beside a removal, which takes their locks away,
              \* and those beside them (history)
  found,      \* found[p]: the directory when p took its lock, as users have changed it
              \* since, until p moves it (history)
  late,       \* publications past protect_existing_snapshot whose snapshot has got
              \* content of a user since (history)
  commands, edits, kills, errors

files == <<tree, parked, orphan, temp, current, link>>
counters == <<commands, edits, kills, errors>>
history == <<damaged, disturbed, found>>
vars == <<files, lock, pc, snap, history, late, counters>>

\* "lacking": some of its files are lost; "unmarked": its marker too; "extra": all of
\* the snapshot and files it did not have; "edited": files it did not have, or not
\* with these bytes, and not all of its own.
Tree == {"gone", "whole", "lacking", "unmarked", "extra", "edited"}
OfUser == {"extra", "edited"}

TypeOK ==
  /\ tree \in [Snapshot -> Tree] /\ orphan \in [Snapshot -> SUBSET (Tree \ {"gone"})]
  /\ parked \in [Process -> Tree] /\ temp \in [Process -> Tree]
  /\ current \in Snapshot \cup {None} /\ link \in Snapshot \cup {None}
  /\ lock \in [Snapshot -> Process \cup {None}]
  /\ pc \in [Process -> {"idle", "lock", "check", "protect", "build", "park", "place", "json",
                         "unlink", "relink", "clean", "unplace", "unpark", "delete link",
                         "delete"}]
  /\ snap \in [Process -> Snapshot \cup {None}]
  /\ damaged \in SUBSET Snapshot /\ disturbed \in SUBSET Process
  /\ found \in [Process -> Tree] /\ late \in SUBSET Process
  /\ commands \in 0..MaxCommands /\ edits \in 0..MaxEdits
  /\ kills \in 0..MaxKills /\ errors \in 0..MaxErrors

Init ==
  /\ tree = [s \in Snapshot |-> "gone"] /\ orphan = [s \in Snapshot |-> {}]
  /\ parked = [p \in Process |-> "gone"] /\ temp = [p \in Process |-> "gone"]
  /\ current = None /\ link = None /\ lock = [s \in Snapshot |-> None]
  /\ pc = [p \in Process |-> "idle"] /\ snap = [p \in Process |-> None]
  /\ damaged = {} /\ disturbed = {}
  /\ found = [p \in Process |-> "gone"] /\ late = {}
  /\ commands = 0 /\ edits = 0 /\ kills = 0 /\ errors = 0

-----------------------------------------------------------------------------

Step(p, from, to) == pc[p] = from /\ pc' = [pc EXCEPT ![p] = to]
Fails == errors < MaxErrors /\ errors' = errors + 1
Put(s, t) == tree' = [tree EXCEPT ![s] = t]

\* Mutant: the lock is kept.
LeaveHolding(p, aside) ==
  /\ pc' = [pc EXCEPT ![p] = "idle"] /\ snap' = [snap EXCEPT ![p] = None]
  /\ orphan' = IF aside = "gone" THEN orphan ELSE [orphan EXCEPT ![snap[p]] = @ \cup {aside}]
  /\ parked' = [parked EXCEPT ![p] = "gone"] /\ temp' = [temp EXCEPT ![p] = "gone"]
  /\ disturbed' = disturbed \ {p} /\ found' = [found EXCEPT ![p] = "gone"]
  /\ UNCHANGED lock

\* The process ends: its lock is free, what it moved aside stays where it is and
\* the directory it was building is no part of the model.
Leave(p, aside) ==
  /\ pc' = [pc EXCEPT ![p] = "idle"] /\ snap' = [snap EXCEPT ![p] = None]
  /\ lock' = [s \in Snapshot |-> IF lock[s] = p THEN None ELSE lock[s]]
  /\ orphan' = IF aside = "gone" THEN orphan ELSE [orphan EXCEPT ![snap[p]] = @ \cup {aside}]
  /\ parked' = [parked EXCEPT ![p] = "gone"] /\ temp' = [temp EXCEPT ![p] = "gone"]
  /\ disturbed' = disturbed \ {p} /\ found' = [found EXCEPT ![p] = "gone"]

Removing == {p \in Process : pc[p] \in {"delete link", "delete"}}

Start(p) ==
  /\ pc[p] = "idle" /\ commands < MaxCommands /\ commands' = commands + 1
  /\ \E c \in Command :
       \/ /\ c.op = "publish" /\ pc' = [pc EXCEPT ![p] = "lock"]
          /\ snap' = [snap EXCEPT ![p] = c.snapshot] /\ UNCHANGED damaged
          /\ disturbed' = IF Removing = {} THEN disturbed ELSE disturbed \cup {p}
       \/ /\ c.op = "remove" /\ pc' = [pc EXCEPT ![p] = "delete link"]
          /\ damaged' = Snapshot /\ UNCHANGED snap
          /\ disturbed' = {q \in Process : pc[q] # "idle"}
  /\ UNCHANGED <<files, lock, found, edits, kills, errors>>

AcquireLock(p) ==
  /\ Step(p, "lock", "check")
  /\ lock[snap[p]] = None /\ lock' = [lock EXCEPT ![snap[p]] = p]
  /\ found' = [found EXCEPT ![p] = tree[snap[p]]]
  /\ disturbed' = IF \E q \in disturbed : snap[q] = snap[p] THEN disturbed \cup {p}
                  ELSE disturbed
  /\ UNCHANGED <<files, snap, damaged, counters>>

\* Mutant: the manifest is believed, and every snapshot rebuilt.
CheckNothing(p) ==
  /\ Step(p, "check", "protect")
  /\ UNCHANGED <<files, lock, snap, history, counters>>

\* A snapshot with its marker and every file of the expected hash is not rebuilt,
\* whatever else is there.
Check(p) ==
  /\ Step(p, "check", IF tree[snap[p]] \in {"whole", "extra"} THEN "json" ELSE "protect")
  /\ UNCHANGED <<files, lock, snap, history, counters>>

\* Mutant: only what lacks its marker is looked at.
ProtectMarked(p) ==
  /\ Step(p, "protect", "build")
  /\ UNCHANGED <<files, lock, snap, history, counters>>

\* protect_existing_snapshot refuses what the user has changed or added.
Protect(p) ==
  /\ pc[p] = "protect"
  /\ IF tree[snap[p]] \in OfUser THEN Leave(p, "gone") /\ UNCHANGED <<tree, current, link>>
     ELSE Step(p, "protect", "build") /\ UNCHANGED <<files, lock, snap, disturbed, found>>
  /\ UNCHANGED <<damaged, counters>>

\* Verified files, the manifests and then the marker, in a directory of its own.
Build(p) ==
  /\ pc[p] = "build"
  /\ \/ /\ Step(p, "build", "park") /\ temp' = [temp EXCEPT ![p] = "whole"]
        /\ UNCHANGED <<tree, parked, orphan, current, link, lock, snap, disturbed, found, errors>>
     \/ Fails /\ Leave(p, "gone") /\ UNCHANGED <<tree, current, link>>
  /\ UNCHANGED <<damaged, commands, edits, kills>>

\* Mutant: the old directory is deleted to make room.
ParkDeletes(p) ==
  /\ Step(p, "park", "place") /\ Put(snap[p], "gone")
  /\ UNCHANGED <<parked, orphan, temp, current, link, lock, snap, history, counters>>

Park(p) ==
  LET s == snap[p] IN
  /\ pc[p] = "park"
  /\ \/ /\ Step(p, "park", "place") /\ parked' = [parked EXCEPT ![p] = tree[s]]
        /\ Put(s, "gone") /\ UNCHANGED <<orphan, temp, lock, snap, disturbed, found, errors>>
     \/ tree[s] # "gone" /\ Fails /\ Leave(p, "gone") /\ UNCHANGED tree
  /\ UNCHANGED <<current, link, damaged, commands, edits, kills>>

\* A directory is not renamed over another, nor one that a removal has deleted.
Place(p) ==
  LET s == snap[p]  free == tree[s] = "gone" /\ temp[p] # "gone" IN
  /\ \/ /\ Step(p, "place", "json") /\ free /\ Put(s, temp[p])
        /\ temp' = [temp EXCEPT ![p] = "gone"] /\ UNCHANGED errors
     \/ /\ Step(p, "place", "unplace") /\ UNCHANGED <<tree, temp>>
        /\ IF free THEN Fails ELSE UNCHANGED errors
  /\ UNCHANGED <<parked, orphan, current, link, lock, snap, history, commands, edits,
                 kills>>

\* current.json is replaced atomically.
WriteCurrent(p) ==
  /\ \/ Step(p, "json", "unlink") /\ current' = snap[p] /\ UNCHANGED errors
     \/ Step(p, "json", "unplace") /\ Fails /\ UNCHANGED current
  /\ UNCHANGED <<tree, parked, orphan, temp, link, lock, snap, history, commands, edits,
                 kills>>

\* The link is removed and created again; a failure is a warning.
Unlink(p) ==
  /\ \/ Step(p, "unlink", "relink") /\ link' = None /\ UNCHANGED errors
     \/ Step(p, "unlink", "clean") /\ link # None /\ Fails /\ UNCHANGED link
  /\ UNCHANGED <<tree, parked, orphan, temp, current, lock, snap, history, commands,
                 edits, kills>>

Relink(p) ==
  /\ Step(p, "relink", "clean")
  /\ \/ link = None /\ link' = snap[p] /\ UNCHANGED errors
     \/ link # None /\ UNCHANGED <<link, errors>>
     \/ link = None /\ Fails /\ UNCHANGED link
  /\ UNCHANGED <<tree, parked, orphan, temp, current, lock, snap, history, commands,
                 edits, kills>>

\* Published: the old directory is deleted, or stays.
Clean(p) ==
  /\ pc[p] = "clean"
  /\ \E aside \in {"gone", parked[p]} : Leave(p, aside)
  /\ damaged' = IF tree[snap[p]] = "whole" /\ \A q \in disturbed : snap[q] # snap[p] THEN damaged \ {snap[p]} ELSE damaged
  /\ UNCHANGED <<tree, current, link, counters>>

\* Mutant: the replacement is not parked before the old directory comes back.
UnplaceNothing(p) ==
  /\ Step(p, "unplace", "unpark")
  /\ UNCHANGED <<files, lock, snap, history, counters>>

\* The publication failed: what it replaced goes back, if it replaced anything.  What
\* is in its place goes where it was built, unless that is still there.
Unplace(p) ==
  LET s == snap[p]  free == temp[p] = "gone" IN
  /\ pc[p] = "unplace"
  /\ \/ parked[p] = "gone" /\ Leave(p, "gone") /\ UNCHANGED <<tree, errors>>
     \/ /\ parked[p] # "gone" /\ tree[s] = "gone" /\ Step(p, "unplace", "unpark")
        /\ UNCHANGED <<tree, temp, parked, orphan, lock, snap, disturbed, found, errors>>
     \/ /\ parked[p] # "gone" /\ tree[s] # "gone" /\ free /\ Step(p, "unplace", "unpark")
        /\ Put(s, "gone") /\ temp' = [temp EXCEPT ![p] = tree[s]]
        /\ UNCHANGED <<parked, orphan, lock, snap, disturbed, found, errors>>
     \/ /\ parked[p] # "gone" /\ tree[s] # "gone" /\ Leave(p, parked[p]) /\ UNCHANGED tree
        /\ IF free THEN Fails ELSE UNCHANGED errors
  /\ UNCHANGED <<current, link, damaged, commands, edits, kills>>

Unpark(p) ==
  LET s == snap[p] IN
  /\ pc[p] = "unpark"
  /\ \/ tree[s] = "gone" /\ Put(s, parked[p]) /\ Leave(p, "gone") /\ UNCHANGED errors
     \/ /\ IF tree[s] = "gone" THEN Fails ELSE UNCHANGED errors
        /\ Leave(p, parked[p]) /\ UNCHANGED tree
  /\ UNCHANGED <<current, link, damaged, commands, edits, kills>>

-----------------------------------------------------------------------------
(* model remove: the link first, then everything, in any order *)

DeleteLink(p) ==
  /\ \/ Step(p, "delete link", "delete") /\ link' = None
        /\ UNCHANGED <<errors, snap, lock, orphan, parked, temp, disturbed, found>>
     \/ pc[p] = "delete link" /\ link # None /\ Fails /\ Leave(p, "gone") /\ UNCHANGED link
  /\ UNCHANGED <<tree, current, damaged, commands, edits, kills>>

\* What the removal of some of its files leaves of a directory.
Fewer(t) == CASE t = "whole" -> {"lacking", "unmarked", "gone"}
              [] t = "lacking" -> {"unmarked", "gone"}
              [] t = "extra" -> {"whole", "edited", "lacking", "unmarked", "gone"}
              [] t = "edited" -> {"unmarked", "lacking", "gone"}
              [] OTHER -> {"gone"}

DeleteTree(p) ==
  /\ Step(p, "delete", "delete")
  /\ \/ \E s \in Snapshot : /\ tree[s] # "gone" /\ \E t \in Fewer(tree[s]) : Put(s, t)
                            /\ UNCHANGED <<temp, parked, orphan, current>>
     \/ \E q \in Process : /\ temp[q] # "gone"
                           /\ \E t \in Fewer(temp[q]) : temp' = [temp EXCEPT ![q] = t]
                           /\ UNCHANGED <<tree, parked, orphan, current>>
     \/ \E q \in Process : /\ parked[q] # "gone" /\ parked' = [parked EXCEPT ![q] = "gone"]
                           /\ UNCHANGED <<tree, temp, orphan, current>>
     \/ \E s \in Snapshot : /\ orphan[s] # {} /\ orphan' = [orphan EXCEPT ![s] = {}]
                            /\ UNCHANGED <<tree, temp, parked, current>>
     \/ current # None /\ current' = None /\ UNCHANGED <<tree, temp, parked, orphan>>
  /\ UNCHANGED <<link, lock, snap, history, counters>>

\* The directory of the locks goes with the rest, held or not.
DeleteLocks(p) ==
  /\ Step(p, "delete", "delete")
  /\ \E s \in Snapshot : lock[s] # None /\ lock' = [lock EXCEPT ![s] = None]
  /\ UNCHANGED <<files, snap, history, counters>>

\* All is gone, or the removal stopped half-way.
Removed(p) ==
  /\ pc[p] = "delete" /\ Leave(p, "gone")
  /\ \/ /\ \A s \in Snapshot : tree[s] = "gone" /\ orphan[s] = {}
        /\ current = None /\ UNCHANGED errors
     \/ Fails
  /\ UNCHANGED <<tree, current, link, damaged, commands, edits, kills>>

-----------------------------------------------------------------------------
(* The surroundings *)

\* What a user makes of a directory, losing, changing or adding files.
Edits(t) == CASE t = "whole" -> {"lacking", "unmarked", "extra", "edited"}
              [] t = "lacking" -> {"unmarked", "edited"}
              [] t \in {"unmarked", "extra"} -> {"edited"}
              [] OTHER -> {}

\* Users edit a snapshot at any moment, whatever is at work on it.
Edit(s) ==
  /\ edits < MaxEdits /\ edits' = edits + 1
  /\ \E t \in Edits(tree[s]) :
       /\ Put(s, t)
       /\ found' = [p \in Process |->
                      IF snap[p] = s /\ parked[p] = "gone" /\ pc[p] # "lock" THEN t ELSE found[p]]
  /\ damaged' = damaged \cup {s}
  /\ UNCHANGED <<parked, orphan, temp, current, link, lock, pc, snap, disturbed, commands,
                 kills, errors>>

\* `model path --stable` makes a link that is not there.
StablePath ==
  /\ link = None /\ current # None /\ tree[current] \notin {"gone", "unmarked"}
  /\ link' = current
  /\ UNCHANGED <<tree, parked, orphan, temp, current, lock, pc, snap, history, counters>>

Kill(p) ==
  /\ pc[p] # "idle" /\ kills < MaxKills /\ kills' = kills + 1
  /\ Leave(p, parked[p])
  /\ UNCHANGED <<tree, current, link, damaged, commands, edits, errors>>

\* A publication that has looked for content of a user, and may move the directory.
Looked(p) == pc[p] \in {"build", "park", "place"} \/ parked[p] # "gone"

\* Content of a user has come to the snapshot of p after p has looked for it.
ComesLate(p) ==
  /\ Looked(p) /\ tree[snap[p]] \notin OfUser /\ tree'[snap[p]] \in OfUser

Notes == late' = {p \in Process : Looked(p)' /\ (p \in late \/ ComesLate(p))}

Publish(p) ==
  \/ AcquireLock(p) \/ Check(p) \/ Protect(p) \/ Build(p) \/ Park(p) \/ Place(p)
  \/ WriteCurrent(p) \/ Unlink(p) \/ Relink(p) \/ Clean(p) \/ Unplace(p) \/ Unpark(p)

Remove(p) == DeleteLink(p) \/ DeleteTree(p) \/ DeleteLocks(p) \/ Removed(p)

Act ==
  \/ \E p \in Process : Start(p) \/ Publish(p) \/ Remove(p) \/ Kill(p)
  \/ \E s \in Snapshot : Edit(s)
  \/ StablePath

Next == Act /\ Notes

Spec == Init /\ [][Next]_vars

\* A command goes on; nobody has to start one or to use a model.
FairSpec == Spec /\ \A p \in Process : WF_vars((Publish(p) \/ Remove(p)) /\ Notes)

-----------------------------------------------------------------------------
(* Properties *)

\* current.json and the link only ever name a snapshot that is whole, unless the user
\* has damaged it: however publications of this and of other snapshots interleave,
\* fail or are killed, an intact one is not taken apart while programs read it.
PointersAreWhole ==
  \A s \in {current, link} \ {None} : s \notin damaged => tree[s] = "whole"

\* "Never destroy it before rename": while a snapshot is replaced, its files, as users
\* have left them, are at its place or beside it.
NothingIsDestroyed ==
  \A p \in Process :
    /\ pc[p] \in {"place", "json", "unlink", "relink", "clean", "unplace", "unpark"}
    /\ p \notin disturbed /\ found[p] # "gone"
    => found[p] \in {tree[snap[p]], parked[p]}

\* "Must not replace extra or edited user content": no publication, however it ends,
\* takes from its place what a user has changed or added before it looked for that.
EditsAreKept ==
  [][\A s \in Snapshot, p \in Process :
       tree[s] \in OfUser /\ Publish(p) => p \in late \/ tree'[s] = tree[s]]_vars

\* A publication that one error stops, at whatever step, leaves a damaged snapshot as
\* users have left it before it was moved aside, also what they changed while the
\* replacement was built, and a new one whole or not at all.
FailureRestores ==
  [][\A p \in Process :
       /\ pc[p] \in {"build", "park", "unplace", "unpark"} /\ pc'[p] = "idle"
       /\ kills' = kills /\ errors' <= 1 /\ p \notin disturbed
       => \/ tree'[snap[p]] = found[p]
          \/ found[p] = "gone" /\ tree'[snap[p]] = "whole"]_vars

\* Every command on a model ends: each process is idle again and again.
CommandsEnd == \A p \in Process : []<>(pc[p] = "idle")
=============================================================================
