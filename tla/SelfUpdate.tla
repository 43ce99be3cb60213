----------------------------- MODULE SelfUpdate -----------------------------
(***************************************************************************)
(* `osdk self upgrade`: the programs of a release replace the installed     *)
(* ones in place.  Each old program is renamed aside, the new one is copied *)
(* to its place, and a failure renames the old ones back; backups that are  *)
(* left over are deleted by the next upgrade.  There is no lock and no      *)
(* journal: a kill leaves the files as they are.                            *)
(***************************************************************************)
EXTENDS Naturals, Sequences

CONSTANTS
  Updater,      \* processes; a backup carries the id of the one that made it
  Release,      \* releases, in the order of is_newer
  Binaries,     \* the programs of a release, in the order they are replaced
  Missing, Torn,
  MaxUpgrades, MaxKills, MaxErrors

Program == {Binaries[i] : i \in DOMAIN Binaries}

ASSUME ConstantsAssumption ==
  /\ Release \subseteq Nat /\ Missing \notin Release /\ Torn \notin Release /\ Missing # Torn
  /\ Binaries \in Seq(Program) /\ Len(Binaries) > 0
  /\ \A i, j \in 1..Len(Binaries) : Binaries[i] = Binaries[j] => i = j
  /\ MaxUpgrades \in Nat /\ MaxKills \in Nat /\ MaxErrors \in Nat

VARIABLES
  file,     \* file[b]: what is at the place of program b
  aside,    \* aside[u][b]: the backup of b that u made
  pc,
  to,       \* to[u]: the release u installs
  next,     \* next[u]: the index of the program u replaces or puts back
  moved,    \* moved[u]: the programs u has renamed aside
  old,      \* old[u]: the programs when u began (history)
  upgrades, kills, errors

counters == <<upgrades, kills, errors>>
vars == <<file, aside, pc, to, next, moved, old, counters>>

Content == Release \cup {Missing, Torn}

TypeOK ==
  /\ file \in [Program -> Content] /\ aside \in [Updater -> [Program -> Content]]
  /\ pc \in [Updater -> {"idle", "stage", "move", "copy", "copying", "remove", "restore",
                         "clear"}]
  /\ to \in [Updater -> Release] /\ next \in [Updater -> 1..Len(Binaries) + 1]
  /\ moved \in [Updater -> SUBSET Program] /\ old \in [Updater -> [Program -> Content]]
  /\ upgrades \in 0..MaxUpgrades /\ kills \in 0..MaxKills /\ errors \in 0..MaxErrors

\* Both programs come from one release; a program beside the running one may
\* not be installed.
Init ==
  /\ \E r \in Release : \E S \in SUBSET Program :
       /\ Binaries[1] \in S
       /\ file = [b \in Program |-> IF b \in S THEN r ELSE Missing]
       /\ to = [u \in Updater |-> r]
  /\ aside = [u \in Updater |-> [b \in Program |-> Missing]]
  /\ pc = [u \in Updater |-> "idle"] /\ next = [u \in Updater |-> 1]
  /\ moved = [u \in Updater |-> {}] /\ old = [u \in Updater |-> file]
  /\ upgrades = 0 /\ kills = 0 /\ errors = 0

-----------------------------------------------------------------------------

Goto(u, step) == pc' = [pc EXCEPT ![u] = step]
Current(u) == Binaries[next[u]]
Put(u, content) == file' = [file EXCEPT ![Current(u)] = content]
Fails == errors < MaxErrors /\ errors' = errors + 1

\* Leftovers of earlier upgrades are deleted; what cannot be deleted stays.
CleanReplaced ==
  \E kept \in SUBSET (Updater \X Program) :
    aside' = [u \in Updater |-> [b \in Program |->
                IF <<u, b>> \in kept THEN aside[u][b] ELSE Missing]]

\* An implicit target must be newer, an explicit one different, unless forced.
NothingToDo(release, explicit) ==
  IF explicit THEN release = file[Binaries[1]] ELSE release <= file[Binaries[1]]

\* The command runs from the program it replaces.
Start(u) ==
  /\ pc[u] = "idle" /\ file[Binaries[1]] \in Release
  /\ upgrades < MaxUpgrades /\ upgrades' = upgrades + 1
  /\ CleanReplaced /\ old' = [old EXCEPT ![u] = file]
  /\ \E release \in Release : \E explicit, force \in BOOLEAN :
       IF NothingToDo(release, explicit) /\ ~force THEN UNCHANGED <<pc, to>>
       ELSE Goto(u, "stage") /\ to' = [to EXCEPT ![u] = release]
  /\ UNCHANGED <<file, next, moved, kills, errors>>

\* The release is downloaded, verified and unpacked elsewhere, or nothing happens.
Stage(u) ==
  /\ pc[u] = "stage"
  /\ \/ /\ Goto(u, "move") /\ next' = [next EXCEPT ![u] = 1]
        /\ moved' = [moved EXCEPT ![u] = {}] /\ UNCHANGED errors
     \/ Goto(u, "idle") /\ Fails /\ UNCHANGED <<next, moved>>
  /\ UNCHANGED <<file, aside, to, old, upgrades, kills>>

\* rollback goes through the programs that were renamed aside, the last one first.
Last(S) == CHOOSE i \in DOMAIN Binaries :
             Binaries[i] \in S /\ \A j \in DOMAIN Binaries : Binaries[j] \in S => j <= i
PutBack(u, S) ==
  IF S = {} THEN Goto(u, "idle") /\ UNCHANGED next
  ELSE Goto(u, "remove") /\ next' = [next EXCEPT ![u] = Last(S)]
RollBack(u) == PutBack(u, moved[u])

\* Mutant: the new program is copied over the old one.
Overwrite(u) ==
  /\ pc[u] = "move" /\ Goto(u, "copy")
  /\ UNCHANGED <<file, aside, to, next, moved, old, counters>>

MoveAside(u) ==
  LET b == Current(u) IN
  /\ pc[u] = "move"
  /\ \/ /\ file[b] = Missing /\ Goto(u, "copy")
        /\ UNCHANGED <<file, aside, moved, next, errors>>
     \/ /\ file[b] # Missing /\ Put(u, Missing) /\ Goto(u, "copy")
        /\ aside' = [aside EXCEPT ![u][b] = file[b]]
        /\ moved' = [moved EXCEPT ![u] = @ \cup {b}]
        /\ UNCHANGED <<next, errors>>
     \/ file[b] # Missing /\ Fails /\ RollBack(u) /\ UNCHANGED <<file, aside, moved>>
  /\ UNCHANGED <<to, old, upgrades, kills>>

\* A copy is not atomic.
CopyBegins(u) ==
  /\ pc[u] = "copy"
  /\ \/ Put(u, Torn) /\ Goto(u, "copying") /\ UNCHANGED <<next, errors>>
     \/ Fails /\ RollBack(u) /\ UNCHANGED file
  /\ UNCHANGED <<aside, to, moved, old, upgrades, kills>>

\* The copy ends, or stops half-way, or cannot be made executable.
CopyEnds(u) ==
  /\ pc[u] = "copying"
  /\ \/ /\ Put(u, to[u]) /\ next' = [next EXCEPT ![u] = @ + 1]
        /\ Goto(u, IF next[u] < Len(Binaries) THEN "move" ELSE "clear") /\ UNCHANGED errors
     \/ Fails /\ RollBack(u) /\ (UNCHANGED file \/ Put(u, to[u]))
  /\ UNCHANGED <<aside, to, moved, old, upgrades, kills>>

\* Errors of a rollback are ignored.
RemoveNew(u) ==
  /\ pc[u] = "remove" /\ Goto(u, "restore")
  /\ \/ Put(u, Missing) /\ UNCHANGED errors
     \/ file[Current(u)] # Missing /\ Fails /\ UNCHANGED file
  /\ UNCHANGED <<aside, to, next, moved, old, upgrades, kills>>

\* Mutant: only the last program comes back.
RestoreLast(u) ==
  LET b == Current(u) IN
  /\ pc[u] = "restore" /\ Put(u, aside[u][b]) /\ aside' = [aside EXCEPT ![u][b] = Missing]
  /\ moved' = [moved EXCEPT ![u] = {}] /\ Goto(u, "idle")
  /\ UNCHANGED <<to, next, old, counters>>

RestoreOld(u) ==
  LET b == Current(u)  left == moved[u] \ {b} IN
  /\ pc[u] = "restore"
  /\ \/ /\ Put(u, aside[u][b]) /\ aside' = [aside EXCEPT ![u][b] = Missing]
        /\ UNCHANGED errors
     \/ Fails /\ UNCHANGED <<file, aside>>
  /\ moved' = [moved EXCEPT ![u] = left] /\ PutBack(u, left)
  /\ UNCHANGED <<to, old, upgrades, kills>>

\* Every program is in place: the backups go, or stay for the next upgrade.
ClearBackups(u) ==
  /\ pc[u] = "clear" /\ Goto(u, "idle")
  /\ \E kept \in SUBSET moved[u] :
       aside' = [aside EXCEPT ![u] = [b \in Program |-> IF b \in moved[u] \ kept THEN Missing
                                                        ELSE @[b]]]
  /\ moved' = [moved EXCEPT ![u] = {}]
  /\ UNCHANGED <<file, to, next, old, counters>>

Kill(u) ==
  /\ pc[u] # "idle" /\ Goto(u, "idle")
  /\ kills < MaxKills /\ kills' = kills + 1
  /\ UNCHANGED <<file, aside, to, next, moved, old, upgrades, errors>>

Run(u) ==
  \/ Stage(u) \/ MoveAside(u) \/ CopyBegins(u) \/ CopyEnds(u) \/ RemoveNew(u)
  \/ RestoreOld(u) \/ ClearBackups(u)

Next == \E u \in Updater : Start(u) \/ Run(u) \/ Kill(u)
Spec == Init /\ [][Next]_vars

-----------------------------------------------------------------------------
(* Properties *)

\* "Leaves the old file recoverable": from the moment an upgrade begins, and for
\* as long after a kill or a failure as no other upgrade begins, every old program
\* is at its place or in its backup, unless all the new ones are in place.
OldIsRecoverable ==
  \A u \in Updater :
    \/ \A b \in Program : old[u][b] \in {Missing, file[b], aside[u][b]}
    \/ \A b \in Program : file[b] = to[u]

\* "Replaced together or not at all": an upgrade that ends by itself, however the
\* ones before it ended, leaves all the programs of its release when it reports
\* success, and the ones it found when one error stopped it.
AllOrNothing ==
  [][\A u \in Updater : pc[u] \notin {"idle", "stage"} /\ pc'[u] = "idle" /\ kills' = kills =>
       IF pc[u] = "clear" THEN \A b \in Program : file'[b] = to[u]
       ELSE errors' <= 1 /\ (\A b \in Program : old[u][b] # Missing) => file' = old[u]]_vars

\* "Leftovers from an earlier upgrade whose replaced file was still running"
\* (self_update.rs:456): a backup that is deleted is not the only copy of its program.
LeftoversAreSpare ==
  [][\A u \in Updater, b \in Program :
       aside[u][b] \in Release /\ aside'[u][b] = Missing => file'[b] \in Release]_vars

-----------------------------------------------------------------------------
(* The inductive invariant behind both, for one updater *)

\* Replacing or putting back, there is a program at hand.
InRange ==
  \A u \in Updater : pc[u] \in {"move", "copy", "copying", "remove", "restore"} =>
                       next[u] <= Len(Binaries)

\* The programs u has behind it.
Reached(u) == {Binaries[i] : i \in 1..(next[u] - 1)}

\* Every old program is where a rollback, or a person, can take it from.
AllAreKept(u) == \A b \in Program : old[u][b] \in {Missing, file[b], aside[u][b]}

BackupsAreOld(u) ==
  pc[u] \in {"move", "copy", "copying", "remove", "restore"} =>
    \A b \in moved[u] : aside[u][b] = old[u][b]

\* What u has not reached is as it was; the program at hand is aside, or was not there.
Forward(u) ==
  /\ pc[u] = "stage" => file = old[u]
  /\ pc[u] \in {"move", "copy", "copying"} =>
       /\ \A b \in Program : \/ b \in Reached(u) /\ file[b] = to[u]
                             \/ b \notin Reached(u) /\ file[b] = old[u][b] /\ b \notin moved[u]
                             \/ b = Current(u) /\ pc[u] # "move"
       /\ \A b \in Reached(u) : b \in moved[u] \/ old[u][b] = Missing
  /\ pc[u] \in {"copy", "copying"} => Current(u) \in moved[u] \/ old[u][Current(u)] = Missing
  /\ pc[u] = "clear" => \A b \in Program : file[b] = to[u]

\* With the one error that began it, a rollback has put back what it has behind it.
Backward(u) ==
  pc[u] \in {"remove", "restore"} =>
    /\ Current(u) \in moved[u] /\ errors > 0
    /\ errors <= 1 /\ (\A b \in Program : old[u][b] # Missing)
         => \A b \in Program \ moved[u] : file[b] = old[u][b]

Local(u) ==
  /\ AllAreKept(u) \/ \A b \in Program : file[b] = to[u]
  /\ pc[u] \notin {"idle", "clear"} => AllAreKept(u)
  /\ BackupsAreOld(u) /\ Forward(u) /\ Backward(u)

IInv == TypeOK /\ InRange /\ \A u \in Updater : Local(u)
=============================================================================
