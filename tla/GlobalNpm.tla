------------------------------- MODULE GlobalNpm -------------------------------
(***************************************************************************)
(* Global npm tools: `osdk use -g npm:pkg` stages a tree, promotes it to    *)
(* the canonical root under a journal, and publishes shims, config and      *)
(* lock; `osdk uninstall -g` moves the root away under a journal of its     *)
(* own.  An install holds the mutation lock of its version throughout and   *)
(* the global state lock while it recovers and while it publishes; an       *)
(* uninstall holds only the state lock.  A kill releases the locks and      *)
(* leaves the files.  One package; the config pins exact versions.          *)
(***************************************************************************)
EXTENDS Naturals, FiniteSets

CONSTANTS
  Process, Version, Name,
  Bins,         \* Bins[v]: the commands version v exposes
  Tree,         \* complete install trees
  Damage,       \* what a partial removal may leave: "torn" fails the checks for
                \* a completed install, "hollow" passes them with files missing
  Command,      \* the commands users run: records [op, ver]
  MaxCommands, MaxKills, MaxErrors,
  None

ASSUME ConstantsAssumption ==
  /\ Bins \in [Version -> SUBSET Name]
  /\ Damage \subseteq {"torn", "hollow"}
  /\ Tree \cap {"gone", "torn", "hollow"} = {}
  /\ Command \subseteq [op : {"install", "uninstall"}, ver : Version]
  /\ None \notin Version \cup Process \cup Tree
  /\ MaxCommands \in Nat /\ MaxKills \in Nat /\ MaxErrors \in Nat

VARIABLES
  root,       \* root[v]: the tree at the canonical install root
  backup,     \* backup[v]: the previous tree a promotion has set aside
  away,       \* away[v]: the tree an uninstall has set aside
  promotion,  \* promotion[v]: the promotion journal of v
  removal,    \* removal[v]: the uninstall journal of v
  config,     \* the version the global config pins, or None
  lock,       \* the version the user lockfile records, or None
  shims,      \* the shims there are
  held,       \* held[v]: the process that holds v's mutation lock, or None
  state,      \* the process that holds the global state lock, or None
  pc, cmd,
  commands, kills, errors,
  \* History, which no command reads:
  promised,   \* versions an install reported and no uninstall committed to remove
  hollowed,   \* versions of which a removal cut short has left a tree that passes
  clashed     \* versions whose root an uninstall took while a promotion was open

trees == <<root, backup, away>>
journals == <<promotion, removal>>
metadata == <<config, lock, shims>>
locks == <<held, state>>
counters == <<commands, kills, errors>>
history == <<hollowed, clashed>>
vars == <<trees, journals, metadata, locks, pc, cmd, promised, counters, history>>

Place == Tree \cup {"gone", "torn", "hollow"}
NoPromotion == [phase |-> "none", had |-> FALSE]
NoRemoval == [phase |-> "none", config |-> FALSE, lock |-> FALSE]

\* The section a command is in, its version, the staged tree ("gone" when the
\* install is reused), the tree moved aside, what the root, the config and the
\* lock were, and how often a rollback was tried (2: it went through).
Idle == [do |-> "none", ver |-> None, new |-> "gone", aside |-> "gone", old |-> "gone",
         config |-> None, lock |-> None, tries |-> 0]

InstallSteps == {"version", "recover", "check", "open", "move", "moved", "place", "placed",
  "unplace", "drop", "validate", "shim", "pin", "record", "stale", "activate", "finish",
  "cleared", "relock", "relocked", "repin", "repinned", "rollback", "restore", "unjournal",
  "reconcile"}
UninstallSteps == {"select", "prepare", "take", "commit", "unpin", "unrecord", "unshim",
  "clean", "tidy", "back_lock", "back_pin", "back_root", "back_journal", "back_shim"}

TypeOK ==
  /\ root \in [Version -> Place] /\ backup \in [Version -> Place] /\ away \in [Version -> Place]
  /\ promotion \in [Version -> [phase : {"none", "prepared", "old_moved", "new_promoted",
                                         "activated"}, had : BOOLEAN]]
  /\ removal \in [Version -> [phase : {"none", "moving", "committed"},
                              config : BOOLEAN, lock : BOOLEAN]]
  /\ config \in Version \cup {None} /\ lock \in Version \cup {None} /\ shims \in SUBSET Name
  /\ held \in [Version -> Process \cup {None}] /\ state \in Process \cup {None}
  /\ pc \in [Process -> {"idle", "state", "undo"} \cup InstallSteps \cup UninstallSteps]
  /\ cmd \in [Process -> [do : {"none", "recover", "publish", "find", "remove", "discard"},
                          ver : Version \cup {None}, new : Place, aside : Place, old : Place,
                          config : Version \cup {None}, lock : Version \cup {None},
                          tries : 0..2]]
  /\ promised \in SUBSET Version /\ hollowed \in SUBSET Version /\ clashed \in SUBSET Version
  /\ commands \in 0..MaxCommands /\ kills \in 0..MaxKills /\ errors \in 0..MaxErrors

\* Some versions are installed; the config pins one of them, or none.
Init ==
  /\ root \in [Version -> Tree \cup {"gone"}]
  /\ promised = {v \in Version : root[v] # "gone"}
  /\ config \in promised \cup {None} /\ lock = config
  /\ shims = IF config = None THEN {} ELSE Bins[config]
  /\ backup = [v \in Version |-> "gone"] /\ away = backup
  /\ promotion = [v \in Version |-> NoPromotion]
  /\ removal = [v \in Version |-> NoRemoval]
  /\ held = [v \in Version |-> None] /\ state = None
  /\ pc = [p \in Process |-> "idle"] /\ cmd = [p \in Process |-> Idle]
  /\ commands = 0 /\ kills = 0 /\ errors = 0 /\ hollowed = {} /\ clashed = {}

-----------------------------------------------------------------------------
(* Helpers *)

\* completed_install_matches_at and existing_global_install_root look for the
\* marker, the manifest, the receipt and the commands, not at every file.
Passes(t) == t \in Tree \cup {"hollow"}

\* installed_shim_owners: the commands of the version the config selects.
Owned == IF config # None /\ Passes(root[config]) THEN Bins[config] ELSE {}

Step(p, from, to) == pc[p] = from /\ pc' = [pc EXCEPT ![p] = to]
With(p, field, value) == cmd' = [cmd EXCEPT ![p][field] = value]
Put(place, v, t) == [place EXCEPT ![v] = t]

\* The process is done with its command; its locks are released.
Leave(p) ==
  /\ pc' = [pc EXCEPT ![p] = "idle"] /\ cmd' = [cmd EXCEPT ![p] = Idle]
  /\ held' = [v \in Version |-> IF held[v] = p THEN None ELSE held[v]]
  /\ state' = IF state = p THEN None ELSE state

\* An operation of the file system reports an error; the command goes on at `to`.
Fails(p, from, to) == errors < MaxErrors /\ errors' = errors + 1 /\ Step(p, from, to)
FailsAndLeaves(p) == errors < MaxErrors /\ errors' = errors + 1 /\ Leave(p)

\* Removing a tree: at once, or with something left for the moment.
Removed(t) == {"gone"} \cup (IF t \in Tree THEN Damage ELSE {})

Start(p) ==
  /\ commands < MaxCommands /\ commands' = commands + 1
  /\ \E c \in Command :
       /\ Step(p, "idle", IF c.op = "install" THEN "version" ELSE "state")
       /\ cmd' = [cmd EXCEPT ![p].do = IF c.op = "install" THEN "recover" ELSE "find",
                             ![p].ver = c.ver]
  /\ UNCHANGED <<trees, journals, metadata, locks, promised, kills, errors>>

\* The mutation lock of the version comes first, the state lock second.
TakeVersion(p) ==
  /\ Step(p, "version", "state")
  /\ held[cmd[p].ver] = None /\ held' = [held EXCEPT ![cmd[p].ver] = p]
  /\ UNCHANGED <<trees, journals, metadata, state, cmd, promised, counters>>

TakeState(p) ==
  /\ state = None /\ state' = p
  /\ Step(p, "state", IF cmd[p].do = "recover" THEN "recover" ELSE "undo")
  /\ UNCHANGED <<trees, journals, metadata, held, cmd, promised, counters>>

Kill(p) ==
  /\ pc[p] # "idle" /\ kills < MaxKills /\ kills' = kills + 1
  /\ Leave(p)
  /\ UNCHANGED <<trees, journals, metadata, promised, commands, errors>>

-----------------------------------------------------------------------------
(* recover_interrupted_promotion, under the state lock; every step reads the *)
(* files again, so that a rerun goes on where a killed one stopped.          *)

Late(v) == promotion[v].phase \in {"new_promoted", "activated"}
Early(v) == promotion[v].phase \in {"prepared", "old_moved"}

\* Mutant: only a backup without a journal comes back.
WantsLegacy(v) == backup[v] # "gone" /\ root[v] = "gone" /\ promotion[v].phase = "none"
\* The journal, or a backup without one, asks for the backup to come back.
WantsBackup(v) ==
  /\ backup[v] # "gone" /\ root[v] = "gone"
  /\ (promotion[v].phase = "none" \/ (Early(v) /\ promotion[v].had))
WantsAside(v) == Early(v) /\ promotion[v].had /\ root[v] # "gone" /\ backup[v] # "gone"
WantsClear(v) == Early(v) /\ ~promotion[v].had /\ root[v] # "gone"
\* What cannot be recovered.
Lost(v) ==
  /\ root[v] = "gone"
  /\ (Late(v) \/ (Early(v) /\ promotion[v].had /\ backup[v] = "gone"))
Settled(v) == ~WantsBackup(v) /\ ~WantsAside(v) /\ ~WantsClear(v) /\ ~Lost(v)

RecoverAside(p) ==
  LET v == cmd[p].ver IN
  /\ Step(p, "recover", "recover") /\ WantsAside(v)
  /\ With(p, "aside", root[v]) /\ root' = Put(root, v, "gone")
  /\ UNCHANGED <<backup, away, journals, metadata, locks, promised, counters>>

RecoverBackup(p) ==
  LET v == cmd[p].ver IN
  /\ Step(p, "recover", "recover") /\ WantsBackup(v)
  /\ root' = Put(root, v, backup[v]) /\ backup' = Put(backup, v, "gone")
  /\ UNCHANGED <<away, journals, metadata, locks, cmd, promised, counters>>

RecoverClear(p) ==
  LET v == cmd[p].ver IN
  /\ Step(p, "recover", "recover") /\ WantsClear(v)
  /\ \E t \in Removed(root[v]) : root' = Put(root, v, t)
  /\ UNCHANGED <<backup, away, journals, metadata, locks, cmd, promised, counters>>

\* The backup of a promotion that went through, or debris.
RecoverDebris(p) ==
  LET v == cmd[p].ver IN
  /\ Step(p, "recover", "recover") /\ Settled(v) /\ backup[v] # "gone"
  /\ \E t \in Removed(backup[v]) : backup' = Put(backup, v, t)
  /\ UNCHANGED <<root, away, journals, metadata, locks, cmd, promised, counters>>

RecoverJournal(p) ==
  LET v == cmd[p].ver IN
  /\ Step(p, "recover", "recover")
  /\ Settled(v) /\ backup[v] = "gone" /\ promotion[v].phase # "none"
  /\ promotion' = [promotion EXCEPT ![v] = NoPromotion]
  /\ UNCHANGED <<trees, removal, metadata, locks, cmd, promised, counters>>

Recovered(p) ==
  LET v == cmd[p].ver IN
  /\ Step(p, "recover", "check") /\ state' = None
  /\ Settled(v) /\ backup[v] = "gone" /\ promotion[v].phase = "none"
  /\ UNCHANGED <<trees, journals, metadata, held, cmd, promised, counters>>

\* Any operation of the recovery may fail; a tree moved aside goes back when
\* the backup cannot take its place.
RecoverFails(p) ==
  LET v == cmd[p].ver IN
  /\ pc[p] = "recover" /\ FailsAndLeaves(p)
  /\ root' = IF root[v] = "gone" /\ cmd[p].aside # "gone" THEN Put(root, v, cmd[p].aside)
             ELSE root
  /\ UNCHANGED <<backup, away, journals, metadata, promised, commands, kills>>

Refuse(p) ==
  /\ pc[p] = "recover" /\ Lost(cmd[p].ver)
  /\ Leave(p)
  /\ UNCHANGED <<trees, journals, metadata, promised, counters>>

-----------------------------------------------------------------------------
(* recover_interrupted_global_npm_uninstalls, under the state lock: an       *)
(* uninstall that was not committed is undone, one that was is completed.    *)

\* Mutant: a committed uninstall is undone like any other.
UndoingAny(p, v) == pc[p] = "undo" /\ removal[v].phase # "none"
Undoing(p, v) == pc[p] = "undo" /\ removal[v].phase = "moving"
Completing(p, v) == pc[p] = "undo" /\ removal[v].phase = "committed"

UndoRoot(p) ==
  \E v \in Version :
    /\ Undoing(p, v) /\ away[v] # "gone" /\ root[v] = "gone"
    /\ root' = Put(root, v, away[v]) /\ away' = Put(away, v, "gone")
    /\ UNCHANGED <<backup, journals, metadata, locks, pc, cmd, promised, counters>>

UndoShim(p) ==
  \E v \in Version : \E n \in Bins[v] \ shims :
    /\ Undoing(p, v) /\ away[v] = "gone" /\ config = v
    /\ shims' = shims \cup {n}
    /\ UNCHANGED <<trees, journals, config, lock, locks, pc, cmd, promised, counters>>

CompleteConfig(p) ==
  \E v \in Version :
    /\ Completing(p, v) /\ removal[v].config /\ config = v
    /\ config' = None
    /\ UNCHANGED <<trees, journals, lock, shims, locks, pc, cmd, promised, counters>>

CompleteLock(p) ==
  \E v \in Version :
    /\ Completing(p, v) /\ ~(removal[v].config /\ config = v) /\ removal[v].lock /\ lock = v
    /\ lock' = None
    /\ UNCHANGED <<trees, journals, config, shims, locks, pc, cmd, promised, counters>>

\* No metadata the journal names is left.
Unselected(v) == ~(removal[v].config /\ config = v) /\ ~(removal[v].lock /\ lock = v)

CompleteShim(p) ==
  \E v \in Version : \E n \in (Bins[v] \cap shims) \ Owned :
    /\ Completing(p, v) /\ Unselected(v)
    /\ shims' = shims \ {n}
    /\ UNCHANGED <<trees, journals, config, lock, locks, pc, cmd, promised, counters>>

CompleteRoot(p) ==
  \E v \in Version :
    /\ Completing(p, v) /\ Unselected(v) /\ Bins[v] \cap shims \subseteq Owned
    /\ away[v] # "gone" /\ \E t \in Removed(away[v]) : away' = Put(away, v, t)
    /\ UNCHANGED <<root, backup, journals, metadata, locks, pc, cmd, promised, counters>>

UndoJournal(p) ==
  \E v \in Version :
    /\ \/ Undoing(p, v) /\ (config = v => Bins[v] \subseteq shims)
       \/ Completing(p, v) /\ Unselected(v) /\ Bins[v] \cap shims \subseteq Owned
    /\ away[v] = "gone"
    /\ removal' = [removal EXCEPT ![v] = NoRemoval]
    /\ UNCHANGED <<trees, promotion, metadata, locks, pc, cmd, promised, counters>>

\* Both the root and its copy are there: refusing to overwrite.
UndoRefuses(p) ==
  /\ \E v \in Version : Undoing(p, v) /\ away[v] # "gone" /\ root[v] # "gone"
  /\ Leave(p)
  /\ UNCHANGED <<trees, journals, metadata, promised, counters>>

UndoFails(p) ==
  /\ pc[p] = "undo" /\ \E v \in Version : removal[v].phase # "none"
  /\ FailsAndLeaves(p)
  /\ UNCHANGED <<trees, journals, metadata, promised, commands, kills>>

\* Mutant: the lookup of an uninstall keeps the lock.
UndoneHolds(p) ==
  /\ \A v \in Version : removal[v].phase = "none"
  /\ Step(p, "undo", CASE cmd[p].do = "publish" -> "open"
                        [] cmd[p].do = "find" -> "select"
                        [] OTHER -> "prepare")
  /\ UNCHANGED <<trees, journals, metadata, locks, cmd, promised, counters>>

Undone(p) ==
  /\ \A v \in Version : removal[v].phase = "none"
  /\ Step(p, "undo", CASE cmd[p].do = "publish" -> "open"
                        [] cmd[p].do = "find" -> "select"
                        [] OTHER -> "prepare")
  /\ state' = IF cmd[p].do = "find" THEN None ELSE state
  /\ UNCHANGED <<trees, journals, metadata, held, cmd, promised, counters>>

-----------------------------------------------------------------------------
(* An install: check and stage under the mutation lock, then publish_global  *)

\* A completed install is reused when its recorded identity matches.
Reuse(p) ==
  /\ Step(p, "check", "state") /\ Passes(root[cmd[p].ver]) /\ With(p, "do", "publish")
  /\ UNCHANGED <<trees, journals, metadata, locks, promised, counters>>

Stage(p) ==
  /\ Step(p, "check", "state")
  /\ \E t \in Tree \ {root[cmd[p].ver]} :
       cmd' = [cmd EXCEPT ![p].do = "publish", ![p].new = t]
  /\ UNCHANGED <<trees, journals, metadata, locks, promised, counters>>

StageFails(p) ==
  /\ pc[p] = "check" /\ FailsAndLeaves(p)
  /\ UNCHANGED <<trees, journals, metadata, promised, commands, kills>>

\* An uninstall has taken the tree that was to be reused.
ReuseIsGone(p) ==
  /\ pc[p] = "open" /\ cmd[p].new = "gone" /\ root[cmd[p].ver] = "gone"
  /\ Leave(p)
  /\ UNCHANGED <<trees, journals, metadata, promised, counters>>

\* The metadata is captured; a staged tree is announced in the journal.
Open(p) ==
  LET v == cmd[p].ver  c == cmd[p]  had == root[v] # "gone" IN
  /\ pc[p] = "open" /\ (c.new # "gone" \/ had)
  /\ cmd' = [cmd EXCEPT ![p].config = config, ![p].lock = lock, ![p].old = root[v]]
  /\ \/ /\ c.new = "gone" /\ Step(p, "open", "shim")
        /\ UNCHANGED <<promotion, errors>>
     \/ /\ c.new # "gone" /\ Step(p, "open", IF had THEN "move" ELSE "place")
        /\ promotion' = [promotion EXCEPT ![v] = [phase |-> "prepared", had |-> had]]
        /\ UNCHANGED errors
     \/ /\ c.new # "gone" /\ Fails(p, "open", "drop")
        /\ promotion' \in {promotion, [promotion EXCEPT ![v] = [phase |-> "prepared",
                                                               had |-> had]]}
  /\ UNCHANGED <<trees, removal, metadata, locks, promised, commands, kills>>

MoveOld(p) ==
  LET v == cmd[p].ver IN
  /\ \/ /\ Step(p, "move", "moved") /\ UNCHANGED errors
        /\ backup' = Put(backup, v, root[v]) /\ root' = Put(root, v, "gone")
     \/ Fails(p, "move", "drop") /\ UNCHANGED <<root, backup>>
  /\ UNCHANGED <<away, journals, metadata, locks, cmd, promised, commands, kills>>

\* The journal is replaced by a rename: what reports an error may have gone through.
Journal(v, phase) == [promotion EXCEPT ![v].phase = phase]

OldMoved(p) ==
  LET v == cmd[p].ver IN
  /\ \/ (Step(p, "moved", "place") /\ promotion' = Journal(v, "old_moved") /\ UNCHANGED errors)
     \/ (Fails(p, "moved", "drop") /\ promotion' \in {promotion, Journal(v, "old_moved")})
  /\ UNCHANGED <<trees, removal, metadata, locks, cmd, promised, commands, kills>>

PlaceNew(p) ==
  LET v == cmd[p].ver IN
  /\ \/ Step(p, "place", "placed") /\ root' = Put(root, v, cmd[p].new) /\ UNCHANGED errors
     \/ Fails(p, "place", "drop") /\ UNCHANGED root
  /\ UNCHANGED <<backup, away, journals, metadata, locks, cmd, promised, commands, kills>>

NewPromoted(p) ==
  LET v == cmd[p].ver IN
  /\ \/ /\ Step(p, "placed", "validate") /\ promotion' = Journal(v, "new_promoted")
        /\ UNCHANGED errors
     \/ Fails(p, "placed", "unplace") /\ promotion' \in {promotion, Journal(v, "new_promoted")}
  /\ UNCHANGED <<trees, removal, metadata, locks, cmd, promised, commands, kills>>

\* The journal could not say that the new tree is in place: it is moved aside.
Unplace(p) ==
  /\ \/ Step(p, "unplace", "drop") /\ root' = Put(root, cmd[p].ver, "gone") /\ UNCHANGED errors
     \/ Fails(p, "unplace", "drop") /\ UNCHANGED root
  /\ UNCHANGED <<backup, away, journals, metadata, locks, cmd, promised, commands, kills>>

\* A staged install that was not promoted is dropped: the old tree goes back,
DropBackup(p) ==
  LET v == cmd[p].ver IN
  /\ pc[p] = "drop" /\ backup[v] # "gone" /\ root[v] = "gone"
  /\ \/ /\ root' = Put(root, v, backup[v]) /\ backup' = Put(backup, v, "gone")
        /\ UNCHANGED <<locks, pc, cmd, errors>>
     \/ FailsAndLeaves(p) /\ UNCHANGED <<root, backup>>
  /\ UNCHANGED <<away, journals, metadata, promised, commands, kills>>

\* and the journal goes, whether or not that can be done.
DropJournal(p) ==
  LET v == cmd[p].ver IN
  /\ pc[p] = "drop" /\ (backup[v] = "gone" \/ root[v] # "gone")
  /\ \/ /\ Leave(p) /\ promotion' = [promotion EXCEPT ![v] = NoPromotion]
        /\ UNCHANGED errors
     \/ FailsAndLeaves(p) /\ UNCHANGED promotion
  /\ UNCHANGED <<trees, removal, metadata, promised, commands, kills>>

Validate(p) ==
  /\ \/ /\ Step(p, "validate", "shim") /\ Passes(root[cmd[p].ver])
        /\ UNCHANGED <<cmd, errors>>
     \/ Fails(p, "validate", "rollback") /\ With(p, "do", "discard")
  /\ UNCHANGED <<trees, journals, metadata, locks, promised, commands, kills>>

GenerateShim(p) ==
  pc[p] = "shim" /\ \E n \in Bins[cmd[p].ver] \ shims :
    /\ Step(p, "shim", "shim") /\ shims' = shims \cup {n}
    /\ UNCHANGED <<trees, journals, config, lock, locks, cmd, promised, counters>>

Generated(p) ==
  /\ Step(p, "shim", "pin") /\ Bins[cmd[p].ver] \subseteq shims
  /\ UNCHANGED <<trees, journals, metadata, locks, cmd, promised, counters>>

\* Config and lock are replaced atomically, and then synced, which may fail.
PersistConfig(p) ==
  /\ \/ Step(p, "pin", "record") /\ config' = cmd[p].ver /\ UNCHANGED errors
     \/ Fails(p, "pin", "relock") /\ config' \in {config, cmd[p].ver}
  /\ UNCHANGED <<trees, journals, lock, shims, locks, cmd, promised, commands, kills>>

PersistLock(p) ==
  /\ \/ Step(p, "record", "stale") /\ lock' = cmd[p].ver /\ UNCHANGED errors
     \/ Fails(p, "record", "relock") /\ lock' \in {lock, cmd[p].ver}
  /\ UNCHANGED <<trees, journals, config, shims, locks, cmd, promised, commands, kills>>

\* Shims of the version selected before, and any other without an owner.
RemoveStale(p) ==
  \E n \in shims \ Owned :
    /\ Step(p, "stale", "stale") /\ shims' = shims \ {n}
    /\ UNCHANGED <<trees, journals, config, lock, locks, cmd, promised, counters>>

\* A staged install is activated once all is published; a reused one is done.
Published(p) ==
  /\ pc[p] = "stale" /\ shims \subseteq Owned
  /\ IF cmd[p].new = "gone"
       THEN Leave(p) /\ promised' = promised \cup {cmd[p].ver}
       ELSE Step(p, "stale", "activate") /\ UNCHANGED <<locks, cmd, promised>>
  /\ UNCHANGED <<trees, journals, metadata, counters>>

ShimFails(p) ==
  /\ Fails(p, "shim", "relock") \/ Fails(p, "stale", "relock")
  /\ UNCHANGED <<trees, journals, metadata, locks, cmd, promised, commands, kills>>

Activate(p) ==
  LET v == cmd[p].ver IN
  /\ \/ /\ Step(p, "activate", IF cmd[p].old # "gone" THEN "finish" ELSE "cleared")
        /\ promotion' = Journal(v, "activated") /\ UNCHANGED errors
     \/ Fails(p, "activate", "relock") /\ promotion' \in {promotion, Journal(v, "activated")}
  /\ UNCHANGED <<trees, removal, metadata, locks, cmd, promised, commands, kills>>

\* Failures to clean up are warnings.
Finish(p) ==
  LET v == cmd[p].ver IN
  /\ pc[p] = "finish"
  /\ \/ /\ \E t \in Removed(backup[v]) :
             backup' = Put(backup, v, t) /\ Step(p, "finish", IF t = "gone" THEN "cleared"
                                                             ELSE "finish")
        /\ UNCHANGED errors
     \/ Fails(p, "finish", "cleared") /\ UNCHANGED backup
  /\ UNCHANGED <<root, away, journals, metadata, locks, cmd, promised, commands, kills>>

Cleared(p) ==
  LET v == cmd[p].ver IN
  /\ pc[p] = "cleared"
  /\ \/ /\ Leave(p) /\ promotion' = [promotion EXCEPT ![v] = NoPromotion]
        /\ UNCHANGED errors
     \/ FailsAndLeaves(p) /\ UNCHANGED promotion
  /\ promised' = promised \cup {v}
  /\ UNCHANGED <<trees, removal, metadata, commands, kills>>

-----------------------------------------------------------------------------
(* A publication that failed: lock, config and root go back; the shims are   *)
(* reconciled with what is then selected.                                    *)

\* A file goes back by two renames; when that fails the next is tried.
Relock(p) ==
  /\ \/ Step(p, "relock", "relocked") /\ lock' = None /\ UNCHANGED errors
     \/ Step(p, "relocked", "repin") /\ lock' = cmd[p].lock /\ UNCHANGED errors
     \/ Fails(p, "relock", "repin") /\ UNCHANGED lock
  /\ UNCHANGED <<trees, journals, config, shims, locks, cmd, promised, commands, kills>>

Repinned(p) == IF cmd[p].new = "gone" THEN "reconcile" ELSE "rollback"
\* Mutant: the config stays as published.
RepinSkipped(p) ==
  /\ Step(p, "repin", Repinned(p))
  /\ UNCHANGED <<trees, journals, metadata, locks, cmd, promised, counters>>

Repin(p) ==
  /\ \/ Step(p, "repin", "repinned") /\ config' = None /\ UNCHANGED errors
     \/ Step(p, "repinned", Repinned(p)) /\ config' = cmd[p].config /\ UNCHANGED errors
     \/ Fails(p, "repin", Repinned(p)) /\ UNCHANGED config
  /\ UNCHANGED <<trees, journals, lock, shims, locks, cmd, promised, commands, kills>>

\* A rollback that did not go through is tried once more when it is dropped.
RollbackEnds(p, done) ==
  IF cmd[p].tries = 1 \/ (done /\ cmd[p].do = "discard") THEN Leave(p)
  ELSE /\ pc' = [pc EXCEPT ![p] = IF cmd[p].do = "discard" THEN "rollback" ELSE "reconcile"]
       /\ With(p, "tries", IF done THEN 2 ELSE 1) /\ UNCHANGED locks

Rollback(p) ==
  LET v == cmd[p].ver IN
  /\ pc[p] = "rollback"
  /\ \/ /\ root[v] # "gone" /\ root' = Put(root, v, "gone")
        /\ Step(p, "rollback", IF cmd[p].old # "gone" THEN "restore" ELSE "unjournal")
        /\ UNCHANGED <<locks, cmd, errors>>
     \/ /\ root[v] = "gone" \/ errors < MaxErrors
        /\ errors' = IF root[v] = "gone" THEN errors ELSE errors + 1
        /\ RollbackEnds(p, FALSE) /\ UNCHANGED root
  /\ UNCHANGED <<backup, away, journals, metadata, promised, commands, kills>>

Restore(p) ==
  LET v == cmd[p].ver IN
  /\ pc[p] = "restore"
  /\ \/ /\ backup[v] # "gone" /\ root' = Put(root, v, backup[v])
        /\ backup' = Put(backup, v, "gone")
        /\ Step(p, "restore", "unjournal") /\ UNCHANGED <<locks, cmd, errors>>
     \/ /\ backup[v] = "gone" \/ errors < MaxErrors
        /\ errors' = IF backup[v] = "gone" THEN errors ELSE errors + 1
        /\ RollbackEnds(p, FALSE) /\ UNCHANGED <<root, backup>>
  /\ UNCHANGED <<away, journals, metadata, promised, commands, kills>>

Unjournal(p) ==
  /\ pc[p] = "unjournal"
  /\ \/ /\ promotion' = [promotion EXCEPT ![cmd[p].ver] = NoPromotion]
        /\ RollbackEnds(p, TRUE) /\ UNCHANGED errors
     \/ /\ errors < MaxErrors /\ errors' = errors + 1
        /\ RollbackEnds(p, FALSE) /\ UNCHANGED promotion
  /\ UNCHANGED <<trees, removal, metadata, promised, commands, kills>>

Reconcile(p) ==
  \E n \in shims \ Owned :
    /\ Step(p, "reconcile", "reconcile") /\ shims' = shims \ {n}
    /\ UNCHANGED <<trees, journals, config, lock, locks, cmd, promised, counters>>

Reconciled(p) ==
  /\ pc[p] = "reconcile"
  /\ \/ shims \subseteq Owned /\ UNCHANGED errors
     \/ errors < MaxErrors /\ errors' = errors + 1
  /\ IF cmd[p].tries = 1 THEN Step(p, "reconcile", "rollback") /\ UNCHANGED <<locks, cmd>>
     ELSE Leave(p)
  /\ UNCHANGED <<trees, journals, metadata, promised, commands, kills>>

-----------------------------------------------------------------------------
(* uninstall_global_npm                                                      *)

Select(p) ==
  /\ pc[p] = "select"
  /\ IF Passes(root[cmd[p].ver])
       THEN Step(p, "select", "state") /\ With(p, "do", "remove") /\ UNCHANGED locks
       ELSE Leave(p)
  /\ UNCHANGED <<trees, journals, metadata, promised, counters>>

\* Looked up again under the lock.
NotInstalled(p) ==
  /\ pc[p] = "prepare" /\ ~Passes(root[cmd[p].ver]) /\ Leave(p)
  /\ UNCHANGED <<trees, journals, metadata, promised, counters>>

Prepare(p) ==
  LET v == cmd[p].ver
      journal == [removal EXCEPT ![v] = [phase |-> "moving", config |-> config = v,
                                         lock |-> lock = v]] IN
  /\ pc[p] = "prepare" /\ Passes(root[v])
  /\ \/ Step(p, "prepare", "take") /\ removal' = journal /\ UNCHANGED errors
     \/ Fails(p, "prepare", "back_root") /\ removal' \in {removal, journal}
  /\ cmd' = [cmd EXCEPT ![p].config = config, ![p].lock = lock, ![p].old = root[v],
                        ![p].do = IF errors' = errors THEN "remove" ELSE "discard"]
  /\ UNCHANGED <<trees, promotion, metadata, locks, promised, commands, kills>>

Take(p) ==
  LET v == cmd[p].ver IN
  /\ \/ /\ Step(p, "take", "commit") /\ UNCHANGED <<cmd, errors>>
        /\ away' = Put(away, v, root[v]) /\ root' = Put(root, v, "gone")
     \/ /\ Fails(p, "take", "back_root") /\ With(p, "do", "discard")
        /\ UNCHANGED <<root, away>>
  /\ UNCHANGED <<backup, journals, metadata, locks, promised, commands, kills>>

\* mark_committed: from here a kill completes the uninstall.
Commit(p) ==
  LET v == cmd[p].ver
      committed == [removal EXCEPT ![v].phase = "committed"] IN
  /\ promised' = promised \ {v}
  /\ \/ /\ Step(p, "commit", "unpin") /\ removal' = committed /\ UNCHANGED <<cmd, errors>>
     \/ /\ Fails(p, "commit", "back_root") /\ With(p, "do", "discard")
        /\ removal' \in {removal, committed}
  /\ UNCHANGED <<trees, promotion, metadata, locks, commands, kills>>

\* Mutant: the pin is left in the config.
RemoveNoConfig(p) ==
  /\ Step(p, "unpin", "unrecord")
  /\ UNCHANGED <<trees, journals, metadata, locks, cmd, promised, counters>>

RemoveConfig(p) ==
  LET without == IF cmd[p].config = cmd[p].ver THEN None ELSE config IN
  /\ \/ Step(p, "unpin", "unrecord") /\ config' = without /\ UNCHANGED errors
     \/ Fails(p, "unpin", "back_lock") /\ config' \in {config, without}
  /\ UNCHANGED <<trees, journals, lock, shims, locks, cmd, promised, commands, kills>>

RemoveLock(p) ==
  LET without == IF cmd[p].lock = cmd[p].ver THEN None ELSE lock IN
  /\ \/ Step(p, "unrecord", "unshim") /\ lock' = without /\ UNCHANGED errors
     \/ Fails(p, "unrecord", "back_lock") /\ lock' \in {lock, without}
  /\ UNCHANGED <<trees, journals, config, shims, locks, cmd, promised, commands, kills>>

Unowned(p) == (Bins[cmd[p].ver] \cap shims) \ Owned

RemoveShim(p) ==
  pc[p] = "unshim" /\ \E n \in Unowned(p) :
    /\ Step(p, "unshim", "unshim") /\ shims' = shims \ {n}
    /\ UNCHANGED <<trees, journals, config, lock, locks, cmd, promised, counters>>

ShimsRemoved(p) ==
  /\ \/ Step(p, "unshim", "clean") /\ Unowned(p) = {} /\ UNCHANGED errors
     \/ Fails(p, "unshim", "back_lock")
  /\ UNCHANGED <<trees, journals, metadata, locks, cmd, promised, commands, kills>>

\* finish: when the tree cannot be deleted the journal stays for the next command.
Clean(p) ==
  LET v == cmd[p].ver IN
  /\ pc[p] = "clean"
  /\ \/ \E t \in Removed(away[v]) :
          /\ away' = Put(away, v, t) /\ Step(p, "clean", IF t = "gone" THEN "tidy" ELSE "clean")
          /\ UNCHANGED <<locks, cmd, errors>>
     \/ FailsAndLeaves(p) /\ UNCHANGED away
  /\ UNCHANGED <<root, backup, journals, metadata, promised, commands, kills>>

Tidy(p) ==
  /\ pc[p] = "tidy"
  /\ \/ /\ Leave(p) /\ removal' = [removal EXCEPT ![cmd[p].ver] = NoRemoval]
        /\ UNCHANGED errors
     \/ FailsAndLeaves(p) /\ UNCHANGED removal
  /\ UNCHANGED <<trees, promotion, metadata, promised, commands, kills>>

\* An uninstall that failed after its commit: lock and config go back first.
BackMetadata(p) ==
  /\ \/ /\ Step(p, "back_lock", "back_pin") /\ lock' = cmd[p].lock
        /\ UNCHANGED <<config, errors>>
     \/ /\ Fails(p, "back_lock", "back_pin") /\ lock' \in {lock, cmd[p].lock}
        /\ UNCHANGED config
     \/ /\ Step(p, "back_pin", "back_root") /\ config' = cmd[p].config
        /\ UNCHANGED <<lock, errors>>
     \/ /\ Fails(p, "back_pin", "back_root") /\ config' \in {config, cmd[p].config}
        /\ UNCHANGED lock
  /\ UNCHANGED <<trees, journals, shims, locks, cmd, promised, commands, kills>>

\* After a rollback: the shims too, when the metadata had been touched.
RootsBack(p) ==
  IF cmd[p].do = "discard" THEN Leave(p)
  ELSE pc' = [pc EXCEPT ![p] = "back_shim"] /\ UNCHANGED <<locks, cmd>>

BackRoot(p) ==
  LET v == cmd[p].ver IN
  /\ pc[p] = "back_root"
  /\ \/ /\ Step(p, "back_root", "back_journal") /\ UNCHANGED <<locks, cmd, errors>>
        /\ IF away[v] = "gone" THEN UNCHANGED <<root, away>>
           ELSE root' = Put(root, v, away[v]) /\ away' = Put(away, v, "gone")
     \/ /\ away[v] # "gone" /\ errors < MaxErrors /\ errors' = errors + 1
        /\ RootsBack(p) /\ UNCHANGED <<root, away>>
  /\ UNCHANGED <<backup, journals, metadata, promised, commands, kills>>

BackJournal(p) ==
  /\ pc[p] = "back_journal"
  /\ \/ removal' = [removal EXCEPT ![cmd[p].ver] = NoRemoval] /\ UNCHANGED errors
     \/ errors < MaxErrors /\ errors' = errors + 1 /\ UNCHANGED removal
  /\ RootsBack(p)
  /\ UNCHANGED <<trees, promotion, metadata, promised, commands, kills>>

BackShim(p) ==
  pc[p] = "back_shim" /\ \E n \in Bins[cmd[p].ver] \ shims :
    /\ config = cmd[p].ver /\ Step(p, "back_shim", "back_shim") /\ shims' = shims \cup {n}
    /\ UNCHANGED <<trees, journals, config, lock, locks, cmd, promised, counters>>

Back(p) ==
  /\ pc[p] = "back_shim"
  /\ \/ (config = cmd[p].ver => Bins[cmd[p].ver] \subseteq shims) /\ UNCHANGED errors
     \/ errors < MaxErrors /\ errors' = errors + 1
  /\ Leave(p)
  /\ UNCHANGED <<trees, journals, metadata, promised, commands, kills>>

-----------------------------------------------------------------------------

Recovery(p) ==
  \/ RecoverAside(p) \/ RecoverBackup(p) \/ RecoverClear(p) \/ RecoverDebris(p)
  \/ RecoverJournal(p) \/ Recovered(p) \/ RecoverFails(p) \/ Refuse(p)
  \/ UndoRoot(p) \/ UndoShim(p) \/ CompleteConfig(p) \/ CompleteLock(p) \/ CompleteShim(p)
  \/ CompleteRoot(p) \/ UndoJournal(p) \/ UndoRefuses(p) \/ UndoFails(p) \/ Undone(p)

Install(p) ==
  \/ Reuse(p) \/ Stage(p) \/ StageFails(p) \/ ReuseIsGone(p) \/ Open(p) \/ MoveOld(p)
  \/ OldMoved(p) \/ PlaceNew(p) \/ NewPromoted(p) \/ Unplace(p) \/ DropBackup(p)
  \/ DropJournal(p) \/ Validate(p) \/ GenerateShim(p) \/ Generated(p) \/ PersistConfig(p)
  \/ PersistLock(p) \/ RemoveStale(p) \/ Published(p) \/ ShimFails(p) \/ Activate(p)
  \/ Finish(p) \/ Cleared(p) \/ Relock(p) \/ Repin(p) \/ Rollback(p) \/ Restore(p)
  \/ Unjournal(p) \/ Reconcile(p) \/ Reconciled(p)

Uninstall(p) ==
  \/ Select(p) \/ NotInstalled(p) \/ Prepare(p) \/ Take(p) \/ Commit(p) \/ RemoveConfig(p)
  \/ RemoveLock(p) \/ RemoveShim(p) \/ ShimsRemoved(p) \/ Clean(p) \/ Tidy(p)
  \/ BackMetadata(p) \/ BackRoot(p) \/ BackJournal(p) \/ BackShim(p) \/ Back(p)

\* A process that runs goes on; nobody has to start a command.
Run(p) == TakeVersion(p) \/ TakeState(p) \/ Recovery(p) \/ Install(p) \/ Uninstall(p)

\* What the step adds to the history.
Recalls ==
  /\ hollowed' = hollowed \cup {v \in Version : "hollow" \in {root'[v], backup'[v], away'[v]}}
  /\ clashed' = clashed \cup
       {v \in Version : promotion[v].phase # "none" /\ away[v] = "gone" /\ away'[v] # "gone"}

Next == (\E p \in Process : Start(p) \/ Kill(p) \/ Run(p)) /\ Recalls
Spec == Init /\ [][Next]_vars
FairSpec == Spec /\ \A p \in Process : WF_vars(Run(p) /\ Recalls)

-----------------------------------------------------------------------------
(* Properties *)

\* What the next recoveries leave at the root of v.
Surviving(v) ==
  CASE removal[v].phase = "committed" -> "gone"
    [] removal[v].phase # "committed" /\ away[v] # "gone" -> away[v]
    [] OTHER -> IF Early(v) /\ ~promotion[v].had THEN "gone"
                ELSE IF backup[v] # "gone" /\ (root[v] = "gone" \/ Early(v)) THEN backup[v]
                ELSE root[v]

\* What is still selected once the recoveries are through.
Pinned == IF config # None /\ removal[config].phase = "committed" /\ removal[config].config
            THEN None ELSE config
Recorded == IF lock # None /\ removal[lock].phase = "committed" /\ removal[lock].lock
              THEN None ELSE lock

Tool == INSTANCE GlobalTool WITH
  tree <- [v \in Version |-> Surviving(v)], pin <- Pinned, record <- Recorded

\* Until an operation of the file system fails, or an uninstall takes a root whose
\* promotion is still open, every install and uninstall happens at once or not at all,
\* killed at any point: what the next recovery finds is the old tree or the new one,
\* and an uninstall takes the tree, the pin and the record together.
ImplementsGlobalTool ==
  /\ Tool!Init
  /\ [][errors' = 0 /\ clashed' = {}
           => [Tool!Next]_<<[v \in Version |-> Surviving(v)], Pinned, Recorded>>]_vars

\* A version an install reported, and no uninstall committed to remove, survives
\* any kills and a file system error: some complete tree of it is at the root or
\* where the next recovery takes it from, unless a removal cut short has left a
\* tree of it that passes the checks for a completed install with files missing.
InstalledIsKept == errors <= 1 => \A v \in promised \ hollowed : Surviving(v) \in Tree

\* With no command at work and no journal left, the pinned version is there and
\* passes the checks for a completed install: neither kills nor an error leave the
\* config with a version that is not.
SelectedIsThere ==
  /\ errors <= 1 /\ state = None /\ config # None
  /\ \A v \in Version : promotion[v] = NoPromotion /\ removal[v] = NoRemoval
  => Passes(root[config])

\* The steps at which a command that has failed reports its error.
Aborts(p) ==
  /\ pc[p] \in {"drop", "reconcile", "rollback", "unjournal", "back_root", "back_journal",
                "back_shim"}
  /\ pc'[p] = "idle" /\ kills' = kills

\* A command that fails with one error, at whatever step, leaves the root, the
\* config and the lock as it found them.
FailureIsUndone ==
  [][\A p \in Process : Aborts(p) /\ errors' <= 1 =>
       /\ root'[cmd[p].ver] = cmd[p].old
       /\ config' = cmd[p].config /\ lock' = cmd[p].lock]_vars

\* "A normal error still rolls every publication step back below"
\* (global_npm_use/install.rs:269): after one error and no kill, the commands of
\* the version that is selected again still have their shims.
FailureKeepsShims ==
  [][\A p \in Process : Aborts(p) /\ errors' <= 1 /\ kills = 0 =>
       (config' # None => Bins[config'] \subseteq shims')]_vars

\* "A rerun idempotently repairs any config, lock, or shim work that had not yet
\* completed" (global_npm_use/promotion.rs:245): once the new root is durable, kills
\* alone leave no version that every later install of it refuses to recover.
RerunRepairs == errors = 0 /\ state = None => \A v \in Version : Late(v) => root[v] # "gone"

\* Every command ends, however the processes and their locks interleave.
CommandsEnd == \A p \in Process : pc[p] # "idle" ~> pc[p] = "idle"

=============================================================================
