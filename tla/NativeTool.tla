----------------------------- MODULE NativeTool -----------------------------
(***************************************************************************)
(* A tool that cargo or go builds: one identity-qualified install root, the *)
(* seal beside it, and the lifecycle that fills a stage under the lock of   *)
(* that identity, seals it and exposes it with one rename.  Cargo tries     *)
(* cargo-binstall first and falls back to cargo install in a fresh stage;   *)
(* what a provider started may outlive it and still write into its stage.   *)
(***************************************************************************)
EXTENDS Naturals, FiniteSets

CONSTANTS
  Process,
  Build,        \* what a provider that succeeds may leave in `bin`
  Torn, None,
  MaxCommands, MaxKills, MaxErrors, MaxEdits, MaxChanges

Content == Build \cup {Torn}

\* The executables, what else the provider left, and the metadata: the receipt
\* holds the hashes of the executables.
Tree == [bin : Content \cup {None}, scratch : BOOLEAN, receipt : Content \cup {None},
         manifest : BOOLEAN, marker : BOOLEAN]

ASSUME ConstantsAssumption ==
  /\ Torn \notin Build /\ None \notin Content \cup Process
  /\ Torn \notin Tree /\ None \notin Tree
  /\ MaxCommands \in Nat /\ MaxKills \in Nat /\ MaxErrors \in Nat
  /\ MaxEdits \in Nat /\ MaxChanges \in Nat

VARIABLES
  family,     \* the provider family of the tool
  root,       \* the install root, or None
  seal,       \* what the seal beside it digests, Torn (not written to its end) or None
  stage,      \* stage[p]: the directory p fills, or None
  late,       \* late[p]: what still writes to the path of stage[p] after its provider
  lock,       \* the process that holds the lock of the identity, or None
  pc,
  runtime,    \* the managed runtime is the one the identity names
  touched,    \* what has happened to the root since it was published (history)
  commands, kills, errors, edits, changes

files == <<root, seal, stage, late>>
counters == <<commands, kills, errors, edits, changes>>
vars == <<family, files, lock, pc, runtime, touched, counters>>

\* It was published with what descendants of its provider have written into the stage
\* after its workspace was deleted, its marker was cleared, a user has edited it, an
\* uninstall has begun to delete it.
Touch == {"strayed", "cleared", "edited", "removal"}

\* A directory that has just been made.
Empty == [bin |-> None, scratch |-> FALSE, receipt |-> None, manifest |-> FALSE, marker |-> FALSE]

\* An install that holds the lock.
Installing == {"prepare", "unseal", "build", "reset", "rebuild", "retain", "clean", "inspect",
               "mark", "seal", "sealing", "publish"}

Steps == {"idle", "clear", "lock", "ulock", "remove", "useal"} \cup Installing

TypeOK ==
  /\ family \in {"cargo", "go"}
  /\ root \in Tree \cup {None} /\ seal \in Tree \cup {Torn, None}
  /\ stage \in [Process -> Tree \cup {None}]
  /\ late \in [Process -> {"nothing", "scratch", "anything"}]
  /\ lock \in Process \cup {None} /\ pc \in [Process -> Steps]
  /\ runtime \in BOOLEAN /\ touched \in SUBSET Touch
  /\ commands \in 0..MaxCommands /\ kills \in 0..MaxKills /\ errors \in 0..MaxErrors
  /\ edits \in 0..MaxEdits /\ changes \in 0..MaxChanges

Init ==
  /\ family \in {"cargo", "go"}
  /\ root = None /\ seal = None
  /\ stage = [p \in Process |-> None] /\ late = [p \in Process |-> "nothing"]
  /\ lock = None /\ pc = [p \in Process |-> "idle"]
  /\ runtime = TRUE /\ touched = {}
  /\ commands = 0 /\ kills = 0 /\ errors = 0 /\ edits = 0 /\ changes = 0

-----------------------------------------------------------------------------
(* Helpers *)

Goto(p, from, to) == pc[p] = from /\ pc' = [pc EXCEPT ![p] = to]
Fails == errors < MaxErrors /\ errors' = errors + 1

\* The stage is deleted when it is dropped, and after it the lock.  The stage of a
\* process that was killed stays, under a name that nobody uses again.
Leave(p) ==
  /\ pc' = [pc EXCEPT ![p] = "idle"] /\ lock' = IF lock = p THEN None ELSE lock
  /\ stage' = [stage EXCEPT ![p] = None] /\ late' = [late EXCEPT ![p] = "nothing"]

Stage(p, tree) == stage' = [stage EXCEPT ![p] = tree]
Late(p, what) == late' = [late EXCEPT ![p] = what]

Marked == root # None /\ root.marker

\* validate_install_candidate, on which reuse, activation and uninstall agree.
Valid ==
  /\ Marked /\ root.manifest /\ root.receipt # None
  /\ seal = root /\ root.receipt = root.bin /\ runtime

-----------------------------------------------------------------------------
(* Install: NativeToolLifecycle::prepare, the provider, NativeToolStage::publish *)

\* --force begins with the marker.  An install that is not forced, and finds a
\* valid one, ends before it takes the lock.
Start(p) ==
  /\ pc[p] = "idle" /\ commands < MaxCommands /\ commands' = commands + 1
  /\ runtime
  /\ \E step \in {"clear", "lock"} : (step = "lock" => ~Valid) /\ pc' = [pc EXCEPT ![p] = step]
  /\ UNCHANGED <<family, files, lock, runtime, touched, kills, errors, edits, changes>>

\* clear_dynamic_complete_marker takes the lock and gives it back.
ClearMarker(p) ==
  /\ Goto(p, "clear", "lock") /\ lock = None
  /\ root' = IF root = None THEN None ELSE [root EXCEPT !.marker = FALSE]
  /\ touched' = IF root = None THEN {} ELSE touched \cup {"cleared"}
  /\ UNCHANGED <<family, seal, stage, late, lock, runtime, counters>>

\* Mutant: the lock is looked at and not taken.
AcquireNothing(p) ==
  /\ Goto(p, "lock", "prepare") /\ lock = None
  /\ UNCHANGED <<family, files, lock, runtime, touched, counters>>

AcquireLock(p) ==
  /\ Goto(p, "lock", "prepare") /\ lock = None /\ lock' = p
  /\ UNCHANGED <<family, files, runtime, touched, counters>>

\* A valid install is returned, a marked one that is not valid refused.
ReuseOrRefuse(p) ==
  /\ pc[p] = "prepare" /\ (Valid \/ Marked) /\ Leave(p)
  /\ UNCHANGED <<family, root, seal, runtime, touched, counters>>

\* A root without a marker goes, or what cannot be deleted of it stays.
DiscardRoot(p) ==
  /\ pc[p] = "prepare" /\ ~Marked
  /\ \/ /\ root' = None /\ Goto(p, "prepare", "unseal") /\ UNCHANGED <<stage, late, lock, errors>>
     \/ root # None /\ Fails /\ Leave(p) /\ root' \in {root, [root EXCEPT !.bin = None]}
  /\ touched' = IF root' = None THEN {} ELSE touched
  /\ UNCHANGED <<family, seal, runtime, commands, kills, edits, changes>>

\* Mutant: the seal of an install that did not come about stays.
StageBeside(p) ==
  /\ Goto(p, "unseal", "build") /\ Stage(p, Empty)
  /\ UNCHANGED <<family, root, seal, late, lock, runtime, touched, counters>>

\* A stale seal goes, and a stage of a new name is made.
StageWithLock(p) ==
  /\ pc[p] = "unseal"
  /\ \/ seal' = None /\ Goto(p, "unseal", "build") /\ Stage(p, Empty)
          /\ UNCHANGED <<late, lock, errors>>
     \/ Fails /\ Leave(p) /\ seal' \in {seal, None}
  /\ UNCHANGED <<family, root, runtime, touched, commands, kills, edits, changes>>

\* The provider builds into the stage, among the files of its own workspace.
Provide(p) ==
  /\ pc[p] \in {"build", "rebuild"}
  /\ \E b \in Build : Stage(p, [Empty EXCEPT !.bin = b, !.scratch = TRUE])
  /\ UNCHANGED late \/ (late[p] = "nothing" /\ Late(p, "scratch"))
  /\ pc' = [pc EXCEPT ![p] = IF family = "cargo" THEN "retain" ELSE "clean"]
  /\ UNCHANGED <<family, root, seal, lock, runtime, touched, counters>>

\* cargo-binstall finds no binary: what it has written, or its descendants write, is
\* left behind.
FallBack(p) ==
  /\ Goto(p, "build", "reset") /\ family = "cargo"
  /\ \E b \in {None, Torn} : Stage(p, [Empty EXCEPT !.bin = b, !.scratch = TRUE])
  /\ \E what \in {"nothing", "anything"} : Late(p, what)
  /\ UNCHANGED <<family, root, seal, lock, runtime, touched, counters>>

ProviderFails(p) ==
  /\ pc[p] \in {"build", "reset", "rebuild"} /\ Fails /\ Leave(p)
  /\ UNCHANGED <<family, root, seal, runtime, touched, commands, kills, edits, changes>>

\* Mutant: the stage is emptied and used again.
ResetInPlace(p) ==
  /\ Goto(p, "reset", "rebuild") /\ Stage(p, Empty)
  /\ UNCHANGED <<family, root, seal, late, lock, runtime, touched, counters>>

\* "A new unique sibling makes late writes harmless."
Reset(p) ==
  /\ Goto(p, "reset", "rebuild") /\ Stage(p, Empty) /\ Late(p, "nothing")
  /\ UNCHANGED <<family, root, seal, lock, runtime, touched, counters>>

\* Only `bin` moves, to another fresh stage.
RetainBinOnly(p) ==
  /\ Goto(p, "retain", "inspect")
  /\ Stage(p, [Empty EXCEPT !.bin = stage[p].bin]) /\ Late(p, "nothing")
  /\ UNCHANGED <<family, root, seal, lock, runtime, touched, counters>>

\* Go's workspace is deleted from the stage it was built in, which is not replaced.
CleanWorkspace(p) ==
  /\ Goto(p, "clean", "inspect") /\ Stage(p, [stage[p] EXCEPT !.scratch = FALSE])
  /\ UNCHANGED <<family, root, seal, late, lock, runtime, touched, counters>>

InspectBins(p) ==
  /\ Goto(p, "inspect", "mark") /\ Stage(p, [stage[p] EXCEPT !.receipt = stage[p].bin])
  /\ UNCHANGED <<family, root, seal, late, lock, runtime, touched, counters>>

Mark(p) ==
  /\ Goto(p, "mark", "seal")
  /\ Stage(p, [stage[p] EXCEPT !.manifest = TRUE, !.marker = TRUE])
  /\ UNCHANGED <<family, root, seal, late, lock, runtime, touched, counters>>

\* The seal is a new file: one that is there already is an error.
CreateSeal(p) ==
  /\ Goto(p, "seal", "sealing") /\ seal = None /\ seal' = Torn
  /\ UNCHANGED <<family, root, stage, late, lock, runtime, touched, counters>>

WriteSeal(p) ==
  /\ Goto(p, "sealing", "publish") /\ seal' = stage[p]
  /\ UNCHANGED <<family, root, stage, late, lock, runtime, touched, counters>>

\* Any of these steps fails: the stage goes, a seal that is there stays.
PublishFails(p) ==
  /\ pc[p] \in {"retain", "clean", "inspect", "mark", "seal", "sealing"} /\ Leave(p)
  /\ Fails \/ (pc[p] = "seal" /\ seal # None /\ UNCHANGED errors)
  /\ UNCHANGED <<family, root, seal, runtime, touched, commands, kills, edits, changes>>

\* A descendant of the provider has written into the stage that p publishes.
Strayed(p) == late[p] # "nothing" /\ stage[p].scratch

\* publish_directory_no_replace
Publish(p) ==
  /\ pc[p] = "publish" /\ root = None
  /\ root' = stage[p] /\ Leave(p)
  /\ touched' = IF Strayed(p) THEN {"strayed"} ELSE {}
  /\ UNCHANGED <<family, seal, runtime, counters>>

\* The rename fails: the seal is taken back, if that does not fail too.
RenameFails(p) ==
  /\ pc[p] = "publish" /\ Leave(p) /\ seal' \in {seal, None}
  /\ Fails \/ (root # None /\ UNCHANGED errors)
  /\ UNCHANGED <<family, root, runtime, touched, commands, kills, edits, changes>>

-----------------------------------------------------------------------------
(* Uninstall: remove_exact_install *)

\* What does not validate is not found, unless a lockfile names it whose runtime is
\* installed; what was valid may have gone when the lock is there.
StartUninstall(p) ==
  /\ pc[p] = "idle" /\ commands < MaxCommands /\ commands' = commands + 1
  /\ Valid \/ runtime
  /\ pc' = [pc EXCEPT ![p] = "ulock"]
  /\ UNCHANGED <<family, files, lock, runtime, touched, kills, errors, edits, changes>>

AcquireRemovalLock(p) ==
  /\ Goto(p, "ulock", "remove") /\ lock = None /\ lock' = p
  /\ UNCHANGED <<family, files, runtime, touched, counters>>

\* The files go one by one, in any order, and then the directory.
RemoveFile(p) ==
  /\ pc[p] = "remove" /\ root # None
  /\ root' \in {[root EXCEPT !.bin = None], [root EXCEPT !.receipt = None],
                [root EXCEPT !.manifest = FALSE], [root EXCEPT !.marker = FALSE],
                [root EXCEPT !.scratch = FALSE]}
  /\ root' # root /\ touched' = touched \cup {"removal"}
  /\ UNCHANGED <<family, seal, stage, late, lock, pc, runtime, counters>>

RemoveRoot(p) ==
  /\ Goto(p, "remove", "useal") /\ root \in {Empty, None} /\ root' = None
  /\ touched' = {}
  /\ UNCHANGED <<family, seal, stage, late, lock, runtime, counters>>

RemoveSeal(p) ==
  /\ pc[p] = "useal" /\ seal' = None /\ Leave(p)
  /\ UNCHANGED <<family, root, runtime, touched, counters>>

RemovalFails(p) ==
  /\ pc[p] \in {"remove", "useal"} /\ Fails /\ Leave(p)
  /\ UNCHANGED <<family, root, seal, runtime, touched, commands, kills, edits, changes>>

-----------------------------------------------------------------------------
(* The environment *)

\* What outlives a provider writes to the path the provider was given.
LateWrite(p) ==
  /\ late[p] # "nothing" /\ stage[p] # None
  /\ \/ Stage(p, [stage[p] EXCEPT !.scratch = TRUE])
     \/ late[p] = "anything" /\ Stage(p, [stage[p] EXCEPT !.bin = Torn])
  /\ stage' # stage
  /\ UNCHANGED <<family, root, seal, late, lock, pc, runtime, touched, counters>>

Kill(p) ==
  /\ pc[p] # "idle" /\ kills < MaxKills /\ kills' = kills + 1 /\ Leave(p)
  /\ UNCHANGED <<family, root, seal, runtime, touched, commands, errors, edits, changes>>

\* A user changes an executable of the install, or adds a file.
Edit ==
  /\ root # None /\ root.bin # None /\ edits < MaxEdits /\ edits' = edits + 1
  /\ \/ \E b \in Content \ {root.bin} : root' = [root EXCEPT !.bin = b]
     \/ ~root.scratch /\ root' = [root EXCEPT !.scratch = TRUE]
  /\ touched' = touched \cup {"edited"}
  /\ UNCHANGED <<family, seal, stage, late, lock, pc, runtime, commands, kills, errors, changes>>

\* The toolchain is removed or replaced, or the one of the identity comes back.
ChangeRuntime ==
  /\ changes < MaxChanges /\ changes' = changes + 1 /\ runtime' = ~runtime
  /\ UNCHANGED <<family, files, lock, pc, touched, commands, kills, errors, edits>>

Run(p) ==
  \/ ClearMarker(p) \/ AcquireLock(p) \/ ReuseOrRefuse(p) \/ DiscardRoot(p) \/ StageWithLock(p)
  \/ Provide(p) \/ FallBack(p) \/ ProviderFails(p) \/ Reset(p) \/ RetainBinOnly(p)
  \/ CleanWorkspace(p) \/ InspectBins(p) \/ Mark(p) \/ CreateSeal(p) \/ WriteSeal(p)
  \/ PublishFails(p) \/ Publish(p) \/ RenameFails(p)
  \/ AcquireRemovalLock(p) \/ RemoveFile(p) \/ RemoveRoot(p) \/ RemoveSeal(p) \/ RemovalFails(p)

Next ==
  \/ \E p \in Process : Start(p) \/ StartUninstall(p) \/ Run(p) \/ LateWrite(p) \/ Kill(p)
  \/ Edit \/ ChangeRuntime

Spec == Init /\ [][Next]_vars

-----------------------------------------------------------------------------
(* Properties *)

\* Whatever passes the one validation that reuse, activation, shims and uninstall
\* share is what a provider built that succeeded: never what a failed provider or its
\* descendants wrote, what a kill, an error or an uninstall left half-done, or what a
\* user has changed.  No file of the workspace is in it, but for those that
\* descendants of go have written into the stage after it was deleted.
OnlyBuiltIsUsed ==
  Valid => root.bin \in Build /\ (~root.scratch \/ "strayed" \in touched)

\* What a command has published stays valid as long as its runtime is there and nobody
\* uninstalls it, reinstalls it by force or edits it: later installs neither refuse nor
\* replace it.  A stage that descendants of go write into between its inspection and
\* its publication is the exception.
PublishedIsUsable == root # None /\ touched = {} /\ runtime => Valid

\* It returns a valid root or publishes its own.
Returns(p) == pc[p] = "prepare" /\ Valid
Publishes(p) == root = None /\ root' = stage[p]

\* A marked root is refused that something has touched or that has lost its runtime.
Refused(p) == pc[p] = "prepare" /\ Marked /\ (touched # {} \/ ~runtime)

\* An install that neither fails nor is killed by itself returns a valid root or
\* publishes its own: no root without a marker, no stage, no seal or half of one that
\* kills and errors have left makes it fail.  It is refused only at a marked root that
\* a user has edited, that descendants of go have written into, whose runtime is gone,
\* or that an uninstall has begun to delete and left with its marker.
LeftoversNeverBlock ==
  [][\A p \in Process :
       /\ pc[p] \in Installing /\ pc'[p] = "idle" /\ kills' = kills /\ errors' = errors
       => Returns(p) \/ Publishes(p) \/ Refused(p)]_vars
=============================================================================
