-------------------------- MODULE ModelStoreProofs --------------------------
(***************************************************************************)
(* Proofs about ModelStore, for any number of processes, snapshots,         *)
(* commands, edits, kills and errors: the pointers name whole snapshots,    *)
(* what users changed before a publication looked is kept, and one that     *)
(* fails puts back what it replaced.                                        *)
(***************************************************************************)
EXTENDS ModelStore, TLAPS

Publishing == {"lock", "check", "protect", "build", "park", "place", "json", "unlink", "relink",
               "clean", "unplace", "unpark"}
Locked == Publishing \ {"lock"}
Pc == Publishing \cup {"idle", "delete link", "delete"}

\* A lock belongs to a publication of its snapshot, and every publication that no
\* removal has disturbed holds the lock of its snapshot.
OwnerInv ==
  /\ \A p \in Process : pc[p] \in Publishing <=> snap[p] # None
  /\ \A p \in Process : pc[p] \in Locked /\ p \notin disturbed => lock[snap[p]] = p
  /\ \A s \in Snapshot, p \in Process : lock[s] = p => pc[p] \in Locked /\ snap[p] = s

\* What is undisturbed is alone with its snapshot.
ApartInv ==
  /\ \A p \in disturbed : pc[p] # "idle"
  /\ \A p \in Process : pc[p] \in Publishing /\ p \notin disturbed => Removing = {}
  /\ \A p, q \in Process : /\ p # q /\ pc[p] \in Locked /\ pc[q] \in Locked
                           /\ p \notin disturbed
                           => snap[p] # snap[q]

\* What a removal may have touched counts as damaged.
DamageInv ==
  /\ Removing # {} => damaged = Snapshot
  /\ \A p \in disturbed : pc[p] \in Publishing => snap[p] \in damaged

ParkedInv ==
  \A p \in Process : pc[p] \notin Publishing \/ pc[p] \in {"lock", "check", "protect", "build", "park"}
                       => parked[p] = "gone"

Book == OwnerInv /\ ApartInv /\ DamageInv /\ ParkedInv

\* An undamaged snapshot is whole or has never been.
Settled(s) == tree[s] \in {"gone", "whole"} /\ (s \in {current, link} => tree[s] = "whole")

\* A publication of an undamaged snapshot makes it or finds it whole.
Fresh(p) ==
  /\ pc[p] \in {"protect", "build", "park", "place"} => tree[snap[p]] = "gone"
  /\ pc[p] \in {"park", "place"} => temp[p] = "whole"
  /\ pc[p] \in {"json", "unlink", "relink", "clean"} => tree[snap[p]] = "whole"
  /\ pc[p] # "unpark" /\ parked[p] = "gone"

WholeInv ==
  /\ \A s \in Snapshot \ damaged : Settled(s)
  /\ \A p \in Process : pc[p] \in Publishing /\ snap[p] \notin damaged => Fresh(p)

\* What p found is at its place, moved aside, or was nothing.
Kept(p) ==
  \/ parked[p] = found[p] /\ parked[p] # "gone"
  \/ parked[p] = "gone" /\ tree[snap[p]] = found[p]
  \/ parked[p] = "gone" /\ found[p] = "gone" /\ tree[snap[p]] = "whole"

Found(p) ==
  LET t == tree[snap[p]] IN
  /\ pc[p] \in {"check", "protect", "build", "park"} => t = found[p]
  /\ pc[p] \in {"park", "place"} => temp[p] = "whole"
  /\ pc[p] = "place" => parked[p] = found[p] /\ t = "gone"
  /\ pc[p] \in {"json", "unlink", "relink", "clean", "unplace"} =>
       Kept(p) /\ (parked[p] = "gone" \/ t = "gone" \/ temp[p] = "gone")
  /\ pc[p] = "unpark" => parked[p] = found[p] /\ parked[p] # "gone" /\ t = "gone"
  /\ pc[p] \in {"unplace", "unpark"} => errors > 0

FoundInv == \A p \in Process : pc[p] \in Locked /\ p \notin disturbed => Found(p)

IInv == TypeOK /\ Book /\ WholeInv /\ FoundInv

-----------------------------------------------------------------------------

LEMMA Constants ==
  /\ None \notin Snapshot /\ None \notin Process
  /\ \A c \in Command : c.op \in {"publish", "remove"} /\ c.snapshot \in Snapshot
  /\ MaxCommands \in Nat /\ MaxEdits \in Nat /\ MaxKills \in Nat /\ MaxErrors \in Nat
  BY ConstantsAssumption

\* A counter stands or counts one more, up to its bound.
Counts(n, m, bound) == m = n \/ (n < bound /\ m = n + 1)
CountersNext ==
  /\ Counts(commands, commands', MaxCommands) /\ Counts(edits, edits', MaxEdits)
  /\ Counts(kills, kills', MaxKills) /\ Counts(errors, errors', MaxErrors)
  /\ late' \in SUBSET Process

LEMMA CountersStep == ASSUME Next PROVE CountersNext
  <1>0. late' \in SUBSET Process /\ Act
    BY DEF Next, Notes
  <1> USE <1>0
  <1> USE DEF CountersNext, counters, Fails, Counts
  <1>1. ASSUME NEW p \in Process, Start(p) PROVE CountersNext
    BY <1>1 DEF Start
  <1>2. ASSUME NEW p \in Process, Kill(p) PROVE CountersNext
    BY <1>2 DEF Kill
  <1>3. ASSUME NEW p \in Process,
               AcquireLock(p) \/ Check(p) \/ Protect(p) \/ Clean(p) \/ DeleteTree(p)
                 \/ DeleteLocks(p)
        PROVE CountersNext
    BY <1>3 DEF AcquireLock, Check, Protect, Clean, DeleteTree, DeleteLocks
  <1>4. ASSUME NEW p \in Process, Build(p) PROVE CountersNext
    BY <1>4 DEF Build
  <1>5. ASSUME NEW p \in Process, Park(p) PROVE CountersNext
    BY <1>5 DEF Park
  <1>6. ASSUME NEW p \in Process, Place(p) PROVE CountersNext
    BY <1>6, Zenon DEF Place
  <1>7. ASSUME NEW p \in Process, WriteCurrent(p) PROVE CountersNext
    BY <1>7 DEF WriteCurrent
  <1>8. ASSUME NEW p \in Process, Unlink(p) \/ Relink(p) PROVE CountersNext
    BY <1>8 DEF Unlink, Relink
  <1>9. ASSUME NEW p \in Process, Unplace(p) PROVE CountersNext
    BY <1>9 DEF Unplace
  <1>10. ASSUME NEW p \in Process, Unpark(p) PROVE CountersNext
    BY <1>10, Zenon DEF Unpark
  <1>11. ASSUME NEW p \in Process, DeleteLink(p) PROVE CountersNext
    BY <1>11 DEF DeleteLink
  <1>12. ASSUME NEW p \in Process, Removed(p) PROVE CountersNext
    BY <1>12 DEF Removed
  <1>13. ASSUME NEW s \in Snapshot, Edit(s) PROVE CountersNext
    BY <1>13 DEF Edit
  <1>14. ASSUME StablePath PROVE CountersNext
    BY <1>14 DEF StablePath
  <1> QED
    BY <1>1, <1>2, <1>3, <1>4, <1>5, <1>6, <1>7, <1>8, <1>9, <1>10, <1>11, <1>12, <1>13, <1>14
       DEF Act, Publish, Remove

\* No counter passes its bound.
LEMMA CountersType ==
  ASSUME TypeOK, CountersNext
  PROVE  /\ commands' \in 0..MaxCommands /\ edits' \in 0..MaxEdits
         /\ kills' \in 0..MaxKills /\ errors' \in 0..MaxErrors
         /\ late' \in SUBSET Process
         /\ errors' >= errors /\ errors' \in Nat /\ errors \in Nat /\ kills \in Nat
  <1>1. ASSUME NEW bound \in Nat, NEW n \in 0..bound, NEW m, Counts(n, m, bound)
        PROVE  m \in 0..bound /\ m >= n
    BY <1>1 DEF Counts
  <1>2. /\ commands \in 0..MaxCommands /\ edits \in 0..MaxEdits
        /\ kills \in 0..MaxKills /\ errors \in 0..MaxErrors
    BY DEF TypeOK
  <1>3. /\ Counts(commands, commands', MaxCommands) /\ Counts(edits, edits', MaxEdits)
        /\ Counts(kills, kills', MaxKills) /\ Counts(errors, errors', MaxErrors)
    BY DEF CountersNext
  <1> HIDE DEF Counts
  <1>4. commands' \in 0..MaxCommands /\ edits' \in 0..MaxEdits /\ kills' \in 0..MaxKills
    BY <1>1, <1>2, <1>3, Constants
  <1>5. errors' \in 0..MaxErrors /\ errors' >= errors
    BY <1>1, <1>2, <1>3, Constants
  <1>6. late' \in SUBSET Process
    BY DEF CountersNext
  <1> QED
    BY <1>2, <1>4, <1>5, <1>6, Constants

\* What a process that ends leaves.
LEMMA LeaveStep ==
  ASSUME TypeOK, NEW p \in Process, NEW aside \in Tree, Leave(p, aside)
  PROVE  /\ pc' \in [Process -> Pc] /\ snap' \in [Process -> Snapshot \cup {None}]
         /\ lock' \in [Snapshot -> Process \cup {None}]
         /\ orphan' \in [Snapshot -> SUBSET (Tree \ {"gone"})]
         /\ parked' \in [Process -> Tree] /\ temp' \in [Process -> Tree]
         /\ disturbed' \in SUBSET Process /\ found' \in [Process -> Tree]
         /\ pc'[p] = "idle" /\ snap'[p] = None /\ parked'[p] = "gone" /\ temp'[p] = "gone"
         /\ \A s \in Snapshot : lock'[s] = IF lock[s] = p THEN None ELSE lock[s]
         /\ disturbed' = disturbed \ {p}
         /\ \A q \in Process \ {p} : /\ pc'[q] = pc[q] /\ snap'[q] = snap[q]
                                    /\ parked'[q] = parked[q] /\ temp'[q] = temp[q]
                                    /\ found'[q] = found[q]
  <1>1. orphan' \in [Snapshot -> SUBSET (Tree \ {"gone"})]
    BY DEF Leave, TypeOK
  <1>2. "gone" \in Tree
    BY DEF Tree
  <1> QED
    BY <1>1, <1>2, Constants DEF Leave, TypeOK, Pc, Publishing

\* The bookkeeping, when a publication goes on.
LEMMA MoveBook ==
  ASSUME TypeOK, Book, NEW p \in Process, NEW to \in Locked, pc[p] \in Locked,
         pc' = [pc EXCEPT ![p] = to], UNCHANGED <<snap, lock, disturbed, damaged>>,
         \A q \in Process \ {p} : parked'[q] = parked[q],
         to \in {"check", "protect", "build", "park"} => parked'[p] = "gone"
  PROVE  Book'
  <1>1. pc'[p] = to /\ \A q \in Process \ {p} : pc'[q] = pc[q]
    BY DEF TypeOK
  <1>2. Removing' = Removing
    BY <1>1 DEF Removing, Locked, Publishing
  <1>3. OwnerInv'
    BY <1>1 DEF Book, OwnerInv, Locked
  <1>4. ApartInv'
    BY <1>1, <1>2 DEF Book, ApartInv, Locked, Publishing
  <1>5. DamageInv'
    BY <1>1, <1>2 DEF Book, DamageInv, Locked
  <1>6. ParkedInv'
    BY <1>1 DEF Book, ParkedInv, Locked
  <1> QED
    BY <1>3, <1>4, <1>5, <1>6 DEF Book

\* A publication that is done with a snapshot no removal has touched.
Repaired(p) == /\ pc[p] \in Locked /\ tree[snap[p]] = "whole"
               /\ \A q \in disturbed : snap[q] # snap[p]

\* The bookkeeping, when a process ends.
LEMMA LeaveBook ==
  ASSUME TypeOK, Book, NEW p \in Process, NEW aside \in Tree, Leave(p, aside),
         damaged' = damaged \/ (damaged' = damaged \ {snap[p]} /\ Repaired(p))
  PROVE  Book'
  <1>1. /\ pc'[p] = "idle" /\ snap'[p] = None /\ parked'[p] = "gone"
        /\ \A s \in Snapshot : lock'[s] = IF lock[s] = p THEN None ELSE lock[s]
        /\ disturbed' = disturbed \ {p}
        /\ \A q \in Process \ {p} : /\ pc'[q] = pc[q] /\ snap'[q] = snap[q]
                                   /\ parked'[q] = parked[q]
    BY LeaveStep
  <1>2. Removing' = Removing \ {p} /\ p # None
    BY <1>1, Constants DEF Removing
  <1>3. OwnerInv'
    <2>1. \A q \in Process : pc'[q] \in Publishing <=> snap'[q] # None
      BY <1>1 DEF Book, OwnerInv, Publishing
    <2>2. ASSUME NEW q \in Process, pc'[q] \in Locked, q \notin disturbed'
          PROVE  lock'[snap'[q]] = q
      <3>1. q # p
        BY <1>1, <2>2 DEF Locked, Publishing
      <3>2. lock[snap[q]] = q /\ snap[q] \in Snapshot
        BY <1>1, <2>2, <3>1 DEF Book, OwnerInv, Locked, TypeOK
      <3> QED
        BY <1>1, <3>1, <3>2
    <2>3. ASSUME NEW s \in Snapshot, NEW q \in Process, lock'[s] = q
          PROVE  pc'[q] \in Locked /\ snap'[q] = s
      <3>1. lock[s] = q /\ q # p
        BY <1>1, <2>3, Constants
      <3> QED
        BY <1>1, <3>1 DEF Book, OwnerInv
    <2> QED
      BY <2>1, <2>2, <2>3 DEF OwnerInv
  <1>4. ApartInv'
    <2>1. \A q \in disturbed' : pc'[q] # "idle"
      BY <1>1 DEF Book, ApartInv, TypeOK
    <2>2. ASSUME NEW q \in Process, pc'[q] \in Publishing, q \notin disturbed'
          PROVE  Removing' = {}
      <3>1. q # p
        BY <1>1, <2>2 DEF Publishing
      <3>2. Removing = {}
        BY <1>1, <2>2, <3>1 DEF Book, ApartInv
      <3> QED
        BY <1>2, <3>2
    <2>3. ASSUME NEW q \in Process, NEW r \in Process, q # r, pc'[q] \in Locked, pc'[r] \in Locked,
                 q \notin disturbed'
          PROVE  snap'[q] # snap'[r]
      <3>1. q # p /\ r # p
        BY <1>1, <2>3 DEF Locked, Publishing
      <3> QED
        BY <1>1, <2>3, <3>1 DEF Book, ApartInv
    <2> QED
      BY <2>1, <2>2, <2>3 DEF ApartInv
  <1>5. DamageInv'
    <2>1. CASE damaged' = damaged
      BY <1>1, <1>2, <2>1 DEF Book, DamageInv, TypeOK
    <2>2. CASE damaged' = damaged \ {snap[p]} /\ Repaired(p)
      <3>1. p \notin disturbed /\ Removing = {}
        BY <2>2 DEF Book, ApartInv, Locked, Repaired
      <3> QED
        BY <1>1, <1>2, <2>2, <3>1 DEF Book, DamageInv, Repaired, TypeOK
    <2> QED
      BY <2>1, <2>2
  <1>6. ParkedInv'
    BY <1>1 DEF Book, ParkedInv
  <1> QED
    BY <1>3, <1>4, <1>5, <1>6 DEF Book

\* Two publications of one snapshot have both been disturbed.
LEMMA Sole ==
  ASSUME Book, NEW p \in Process, NEW q \in Process, p # q, pc[p] \in Locked, pc[q] \in Locked,
         snap[p] = snap[q]
  PROVE  p \in disturbed /\ q \in disturbed /\ snap[p] \in damaged
  BY DEF Book, ApartInv, DamageInv, Locked

-----------------------------------------------------------------------------
(* A step of a publication concerns its process and its snapshot *)

\* Everything else is as it was.
Elsewhere(p) ==
  /\ \A q \in Process \ {p} : /\ pc'[q] = pc[q] /\ snap'[q] = snap[q] /\ temp'[q] = temp[q]
                             /\ parked'[q] = parked[q] /\ found'[q] = found[q]
  /\ \A s \in Snapshot : s # snap[p] => tree'[s] = tree[s]
  /\ disturbed' = disturbed \/ (disturbed' = disturbed \ {p} /\ pc'[p] = "idle")
  /\ current' \in {current, snap[p]} /\ link' \in {link, snap[p], None}

LEMMA SnapIsThere ==
  ASSUME TypeOK, Book, NEW p \in Process, pc[p] \in Publishing PROVE snap[p] \in Snapshot
  <1>1. snap[p] # None
    BY DEF Book, OwnerInv
  <1> QED
    BY <1>1 DEF TypeOK

LEMMA LockedArePublishing == Locked \subseteq Publishing /\ "idle" \notin Locked
  BY DEF Locked, Publishing

LEMMA OthersFresh ==
  ASSUME TypeOK, Book, WholeInv, NEW p \in Process, pc[p] \in Locked, Elsewhere(p),
         damaged' = damaged \/ (damaged' = damaged \ {snap[p]} /\ p \notin disturbed),
         NEW q \in Process \ {p}, pc[q] \in Publishing, snap[q] \notin damaged'
  PROVE  Fresh(q)'
  <1>1. snap[q] \in Snapshot /\ snap[p] \in Snapshot
    BY SnapIsThere, LockedArePublishing
  <1>2. /\ pc'[q] = pc[q] /\ snap'[q] = snap[q] /\ temp'[q] = temp[q] /\ parked'[q] = parked[q]
    BY DEF Elsewhere
  <1>3. CASE snap[q] = snap[p]
    <2>1. pc[q] = "lock"
      BY <1>3, Sole DEF Locked
    <2>2. parked[q] = "gone"
      BY <2>1 DEF Book, ParkedInv
    <2> QED
      BY <1>2, <2>1, <2>2 DEF Fresh
  <1>4. CASE snap[q] # snap[p]
    <2>1. snap[q] \notin damaged /\ tree'[snap[q]] = tree[snap[q]]
      BY <1>1, <1>4 DEF Elsewhere
    <2>2. Fresh(q)
      BY <2>1 DEF WholeInv
    <2> QED
      BY <1>2, <2>1, <2>2 DEF Fresh
  <1> QED
    BY <1>3, <1>4

LEMMA OthersFound ==
  ASSUME TypeOK, Book, FoundInv, NEW p \in Process, pc[p] \in Locked, Elsewhere(p), CountersNext,
         NEW q \in Process \ {p}, pc[q] \in Locked, q \notin disturbed'
  PROVE  Found(q)'
  <1>1. snap[q] # snap[p] /\ snap[q] \in Snapshot /\ q \notin disturbed
    <2>1. q \notin disturbed
      BY DEF Elsewhere
    <2> QED
      BY <2>1, Sole, SnapIsThere, LockedArePublishing
  <1>2. /\ pc'[q] = pc[q] /\ snap'[q] = snap[q] /\ temp'[q] = temp[q] /\ parked'[q] = parked[q]
        /\ found'[q] = found[q] /\ tree'[snap[q]] = tree[snap[q]]
    BY <1>1 DEF Elsewhere
  <1>3. Found(q)
    BY <1>1 DEF FoundInv
  <1>4. errors > 0 => errors' > 0
    BY CountersType
  <1> QED
    BY <1>2, <1>3, <1>4 DEF Found, Kept

\* What is left to show of such a step.
LEMMA Settle ==
  ASSUME IInv, CountersNext, NEW p \in Process, pc[p] \in Locked, Elsewhere(p),
         TypeOK', Book',
         damaged' = damaged \/ (damaged' = damaged \ {snap[p]} /\ p \notin disturbed),
         pc'[p] = "idle" \/ (pc'[p] \in Locked /\ snap'[p] = snap[p]),
         snap[p] \notin damaged' => tree'[snap[p]] \in {"gone", "whole"},
         snap[p] \notin damaged' /\ snap[p] \in {current', link'} => tree'[snap[p]] = "whole",
         pc'[p] \in Locked /\ snap[p] \notin damaged' => Fresh(p)',
         pc'[p] \in Locked /\ p \notin disturbed => Found(p)'
  PROVE  IInv'
  <1>1. snap[p] \in Snapshot
    BY SnapIsThere, LockedArePublishing DEF IInv
  <1>2. \A s \in Snapshot \ damaged' : Settled(s)'
    <2> SUFFICES ASSUME NEW s \in Snapshot \ damaged' PROVE Settled(s)'
      OBVIOUS
    <2>1. CASE s = snap[p]
      BY <2>1 DEF Settled
    <2>2. CASE s # snap[p]
      <3>1. Settled(s) /\ tree'[s] = tree[s]
        BY <2>2 DEF Elsewhere, IInv, WholeInv
      <3>2. s \in {current', link'} => s \in {current, link}
        BY <2>2, Constants DEF Elsewhere
      <3> QED
        BY <3>1, <3>2 DEF Settled
    <2> QED
      BY <2>1, <2>2
  <1>3. ASSUME NEW q \in Process, pc'[q] \in Publishing, snap'[q] \notin damaged' PROVE Fresh(q)'
    <2>1. CASE q = p
      BY <1>3, <2>1 DEF Publishing
    <2>2. CASE q # p
      <3>1. pc[q] \in Publishing /\ snap[q] \notin damaged'
        BY <1>3, <2>2 DEF Elsewhere
      <3> QED
        BY <2>2, <3>1, OthersFresh DEF IInv
    <2> QED
      BY <2>1, <2>2
  <1>4. ASSUME NEW q \in Process, pc'[q] \in Locked, q \notin disturbed' PROVE Found(q)'
    <2>1. CASE q = p
      <3>1. p \notin disturbed
        BY <1>4, <2>1, LockedArePublishing DEF Elsewhere
      <3> QED
        BY <1>4, <2>1, <3>1
    <2>2. CASE q # p
      <3>1. pc[q] \in Locked
        BY <1>4, <2>2 DEF Elsewhere
      <3> QED
        BY <1>4, <2>2, <3>1, OthersFound DEF IInv
    <2> QED
      BY <2>1, <2>2
  <1> QED
    BY <1>2, <1>3, <1>4 DEF IInv, WholeInv, FoundInv

-----------------------------------------------------------------------------
(* The steps of a publication *)

LEMMA TypePoint ==
  ASSUME TypeOK, NEW p \in Process
  PROVE  /\ \A x : [pc EXCEPT ![p] = x][p] = x
         /\ \A q \in Process \ {p} : \A x : [pc EXCEPT ![p] = x][q] = pc[q]
         /\ \A x \in Pc : [pc EXCEPT ![p] = x] \in [Process -> Pc]
         /\ parked[p] \in Tree /\ temp[p] \in Tree /\ found[p] \in Tree
  BY DEF TypeOK, Pc, Publishing

\* A step that only moves p on.
LEMMA MoveKeeps ==
  ASSUME IInv, CountersNext, NEW p \in Process, NEW to \in Locked, pc[p] \in Locked,
         pc' = [pc EXCEPT ![p] = to],
         UNCHANGED <<tree, parked, orphan, temp, lock, snap, damaged, disturbed, found>>,
         current' \in {current, snap[p]}, link' \in {link, snap[p], None},
         to \in {"check", "protect", "build", "park"} => parked[p] = "gone",
         snap[p] \notin damaged /\ snap[p] \in {current', link'} => tree[snap[p]] = "whole",
         Fresh(p) /\ snap[p] \notin damaged => Fresh(p)',
         Found(p) => Found(p)'
  PROVE  IInv'
  <1>1. TypeOK /\ Book /\ WholeInv /\ snap[p] \in Snapshot
    BY SnapIsThere, LockedArePublishing DEF IInv
  <1>2. pc'[p] = to /\ pc' \in [Process -> Pc] /\ \A q \in Process \ {p} : pc'[q] = pc[q]
    BY <1>1, TypePoint DEF Locked, Pc
  <1>3. TypeOK'
    BY <1>1, <1>2, CountersType DEF TypeOK, Pc, Publishing
  <1>4. Book'
    BY <1>1, MoveBook
  <1>5. Elsewhere(p)
    BY <1>2 DEF Elsewhere
  <1>6. snap[p] \notin damaged' => tree'[snap[p]] \in {"gone", "whole"} /\ Fresh(p)'
    BY <1>1, LockedArePublishing DEF WholeInv, Settled
  <1>7. p \notin disturbed => Found(p)'
    BY DEF IInv, FoundInv
  <1> QED
    BY <1>2, <1>3, <1>4, <1>5, <1>6, <1>7, Settle, LockedArePublishing

LEMMA CheckKeeps == ASSUME IInv, CountersNext, NEW p \in Process, Check(p) PROVE IInv'
  <1> DEFINE to == IF tree[snap[p]] \in {"whole", "extra"} THEN "json" ELSE "protect"
  <1>1. /\ pc[p] = "check" /\ pc' = [pc EXCEPT ![p] = to]
        /\ UNCHANGED <<tree, parked, orphan, temp, current, link, lock, snap, damaged, disturbed, found>>
    BY DEF Check, Step, files, history
  <1>2. TypeOK /\ Book /\ WholeInv /\ snap[p] \in Snapshot /\ pc'[p] = to
    BY <1>1, SnapIsThere, TypePoint DEF IInv, Publishing
  <1>3. parked[p] = "gone"
    BY <1>1, <1>2 DEF Book, ParkedInv
  <1>4. snap[p] \notin damaged =>
          tree[snap[p]] \in {"gone", "whole"} /\ (snap[p] \in {current, link} => tree[snap[p]] = "whole")
    BY <1>2 DEF WholeInv, Settled
  <1>5. snap[p] \notin damaged => Fresh(p)'
    BY <1>1, <1>2, <1>3, <1>4 DEF Fresh
  <1>6. Found(p) => Found(p)'
    BY <1>1, <1>2, <1>3 DEF Found, Kept
  <1>7. to \in Locked /\ pc[p] \in Locked
    BY <1>1 DEF Locked, Publishing
  <1> HIDE DEF to
  <1> QED
    BY <1>1, <1>3, <1>4, <1>5, <1>6, <1>7, MoveKeeps

\* A process ends: what the others see of it is its lock.
LEMMA LeaveKeeps ==
  ASSUME IInv, CountersNext, NEW p \in Process, NEW aside \in Tree, Leave(p, aside),
         damaged' = damaged \/ (damaged' = damaged \ {snap[p]} /\ Repaired(p)),
         UNCHANGED <<tree, current>>, link' \in {link, None}
  PROVE  IInv'
  <1>1. TypeOK /\ Book /\ WholeInv
    BY DEF IInv
  <1>2. /\ pc'[p] = "idle" /\ snap'[p] = None /\ parked'[p] = "gone" /\ temp'[p] = "gone"
        /\ disturbed' = disturbed \ {p}
        /\ \A q \in Process \ {p} : /\ pc'[q] = pc[q] /\ snap'[q] = snap[q]
                                   /\ parked'[q] = parked[q] /\ temp'[q] = temp[q]
                                   /\ found'[q] = found[q]
    BY <1>1, LeaveStep
  <1>3. damaged' \in SUBSET Snapshot /\ current' \in Snapshot \cup {None} /\ link' \in Snapshot \cup {None}
        /\ tree' \in [Snapshot -> Tree]
    BY <1>1 DEF TypeOK
  <1>4. TypeOK'
    <2>1. /\ pc' \in [Process -> Pc] /\ snap' \in [Process -> Snapshot \cup {None}]
          /\ lock' \in [Snapshot -> Process \cup {None}]
          /\ orphan' \in [Snapshot -> SUBSET (Tree \ {"gone"})]
          /\ parked' \in [Process -> Tree] /\ temp' \in [Process -> Tree]
          /\ disturbed' \in SUBSET Process /\ found' \in [Process -> Tree]
      BY <1>1, LeaveStep
    <2>2. /\ commands' \in 0..MaxCommands /\ edits' \in 0..MaxEdits
          /\ kills' \in 0..MaxKills /\ errors' \in 0..MaxErrors /\ late' \in SUBSET Process
      BY <1>1, CountersType
    <2> QED
      BY <1>3, <2>1, <2>2 DEF TypeOK, Pc, Publishing
  <1>5. Book'
    BY <1>1, LeaveBook
  <1>6. CASE pc[p] \in Locked
    <2>1. snap[p] \in Snapshot
      BY <1>1, <1>6, SnapIsThere, LockedArePublishing
    <2>2. Elsewhere(p)
      BY <1>2 DEF Elsewhere
    <2>3. damaged' = damaged \/ (damaged' = damaged \ {snap[p]} /\ p \notin disturbed /\ tree[snap[p]] = "whole")
      BY DEF Repaired
    <2>4. ASSUME snap[p] \notin damaged'
          PROVE  /\ tree[snap[p]] \in {"gone", "whole"}
                 /\ snap[p] \in {current', link'} => tree[snap[p]] = "whole"
      <3>1. CASE snap[p] \notin damaged
        BY <1>1, <2>1, <3>1, Constants DEF WholeInv, Settled
      <3>2. CASE tree[snap[p]] = "whole"
        BY <3>2
      <3> QED
        BY <2>3, <2>4, <3>1, <3>2
    <2> QED
      BY <1>2, <1>4, <1>5, <1>6, <2>2, <2>3, <2>4, Settle, LockedArePublishing
  <1>7. CASE pc[p] \notin Locked
    <2>1. damaged' = damaged
      BY <1>7 DEF Repaired
    <2>2. \A s \in Snapshot \ damaged' : Settled(s)'
      BY <1>1, <2>1, Constants DEF WholeInv, Settled
    <2>3. ASSUME NEW q \in Process, pc'[q] \in Publishing, snap'[q] \notin damaged' PROVE Fresh(q)'
      <3>1. q # p
        BY <1>2, <2>3 DEF Publishing
      <3>2. Fresh(q)
        BY <1>1, <1>2, <2>1, <2>3, <3>1 DEF WholeInv
      <3> QED
        BY <1>2, <3>1, <3>2 DEF Fresh
    <2>4. ASSUME NEW q \in Process, pc'[q] \in Locked, q \notin disturbed' PROVE Found(q)'
      <3>1. q # p
        BY <1>2, <2>4 DEF Locked, Publishing
      <3>2. Found(q)
        BY <1>2, <2>4, <3>1 DEF IInv, FoundInv
      <3>3. errors > 0 => errors' > 0
        BY <1>1, CountersType
      <3> QED
        BY <1>2, <3>1, <3>2, <3>3 DEF Found, Kept
    <2> QED
      BY <1>4, <1>5, <2>2, <2>3, <2>4 DEF IInv, WholeInv, FoundInv
  <1> QED
    BY <1>6, <1>7

LEMMA ProtectKeeps == ASSUME IInv, CountersNext, NEW p \in Process, Protect(p) PROVE IInv'
  <1>1. CASE Leave(p, "gone") /\ UNCHANGED <<tree, current, link, damaged>>
    BY <1>1, LeaveKeeps DEF Tree
  <1>2. CASE /\ Step(p, "protect", "build")
             /\ UNCHANGED <<files, lock, snap, disturbed, found, damaged>>
    <2>1. /\ pc[p] = "protect" /\ pc' = [pc EXCEPT ![p] = "build"]
          /\ UNCHANGED <<tree, parked, orphan, temp, current, link, lock, snap, damaged, disturbed, found>>
      BY <1>2 DEF Step, files
    <2>2. TypeOK /\ Book /\ WholeInv /\ pc'[p] = "build"
      BY <2>1, TypePoint DEF IInv
    <2>3. parked[p] = "gone" /\ snap[p] \in Snapshot
      BY <2>1, <2>2, SnapIsThere DEF Book, ParkedInv, Publishing
    <2>4. snap[p] \notin damaged /\ snap[p] \in {current, link} => tree[snap[p]] = "whole"
      BY <2>2, <2>3 DEF WholeInv, Settled
    <2>5. Fresh(p) => Fresh(p)'
      BY <2>1, <2>2 DEF Fresh
    <2>6. Found(p) => Found(p)'
      BY <2>1, <2>2 DEF Found
    <2>7. "build" \in Locked /\ "protect" \in Locked
      BY DEF Locked, Publishing
    <2> QED
      BY <1>2, <2>1, <2>3, <2>4, <2>5, <2>6, <2>7, MoveKeeps
  <1> QED
    BY <1>1, <1>2, Zenon DEF Protect

LEMMA BuildKeeps == ASSUME IInv, CountersNext, NEW p \in Process, Build(p) PROVE IInv'
  <1>1. CASE Leave(p, "gone") /\ UNCHANGED <<tree, current, link, damaged>>
    BY <1>1, LeaveKeeps DEF Tree
  <1>2. CASE /\ Step(p, "build", "park") /\ temp' = [temp EXCEPT ![p] = "whole"]
             /\ UNCHANGED <<tree, parked, orphan, current, link, lock, snap, disturbed, found, damaged>>
    <2>1. TypeOK /\ Book /\ WholeInv /\ pc[p] = "build" /\ snap[p] \in Snapshot
      BY <1>2, SnapIsThere DEF IInv, Step, Publishing
    <2>2. /\ pc' = [pc EXCEPT ![p] = "park"] /\ pc'[p] = "park" /\ pc' \in [Process -> Pc]
          /\ \A q \in Process \ {p} : pc'[q] = pc[q]
      BY <1>2, <2>1, TypePoint DEF Step, Pc, Publishing
    <2>3. temp' \in [Process -> Tree] /\ temp'[p] = "whole" /\ \A q \in Process \ {p} : temp'[q] = temp[q]
      BY <1>2, <2>1 DEF TypeOK, Tree
    <2>4. TypeOK'
      BY <1>2, <2>1, <2>2, <2>3, CountersType DEF TypeOK, Pc, Publishing
    <2>5. parked[p] = "gone" /\ "build" \in Locked /\ "park" \in Locked /\ "park" \notin {"idle"}
      BY <2>1 DEF Book, ParkedInv, Locked, Publishing
    <2>6. Book'
      BY <1>2, <2>1, <2>2, <2>5, MoveBook
    <2>7. Elsewhere(p)
      BY <1>2, <2>2, <2>3 DEF Elsewhere
    <2>8. snap[p] \notin damaged => Fresh(p) /\ Settled(snap[p])
      BY <2>1, <2>5, LockedArePublishing DEF WholeInv
    <2>9. snap[p] \notin damaged => Fresh(p)'
      BY <1>2, <2>1, <2>2, <2>3, <2>8 DEF Fresh
    <2>10. p \notin disturbed => Found(p)'
      BY <1>2, <2>1, <2>2, <2>3, <2>5 DEF IInv, FoundInv, Found
    <2> QED
      BY <1>2, <2>1, <2>2, <2>4, <2>5, <2>6, <2>7, <2>8, <2>9, <2>10, Settle DEF Settled
  <1> QED
    BY <1>1, <1>2 DEF Build

LEMMA PutStep ==
  ASSUME TypeOK, NEW s \in Snapshot, NEW t \in Tree, Put(s, t)
  PROVE  tree' \in [Snapshot -> Tree] /\ tree'[s] = t /\ \A r \in Snapshot : r # s => tree'[r] = tree[r]
  BY DEF Put, TypeOK

LEMMA ParkKeeps == ASSUME IInv, CountersNext, NEW p \in Process, Park(p) PROVE IInv'
  <1>1. CASE Leave(p, "gone") /\ UNCHANGED <<tree, current, link, damaged>>
    BY <1>1, LeaveKeeps DEF Tree
  <1>2. CASE /\ Step(p, "park", "place") /\ parked' = [parked EXCEPT ![p] = tree[snap[p]]]
             /\ Put(snap[p], "gone")
             /\ UNCHANGED <<orphan, temp, current, link, lock, snap, disturbed, found, damaged>>
    <2>1. TypeOK /\ Book /\ WholeInv /\ pc[p] = "park" /\ snap[p] \in Snapshot
      BY <1>2, SnapIsThere DEF IInv, Step, Publishing
    <2>2. /\ pc' = [pc EXCEPT ![p] = "place"] /\ pc'[p] = "place" /\ pc' \in [Process -> Pc]
          /\ \A q \in Process \ {p} : pc'[q] = pc[q]
      BY <1>2, <2>1, TypePoint DEF Step, Pc, Publishing
    <2>3. /\ parked' \in [Process -> Tree] /\ parked'[p] = tree[snap[p]]
          /\ \A q \in Process \ {p} : parked'[q] = parked[q]
      BY <1>2, <2>1 DEF TypeOK
    <2>4. tree' \in [Snapshot -> Tree] /\ tree'[snap[p]] = "gone"
          /\ \A r \in Snapshot : r # snap[p] => tree'[r] = tree[r]
      BY <1>2, <2>1, PutStep DEF Tree
    <2>5. TypeOK'
      BY <1>2, <2>1, <2>2, <2>3, <2>4, CountersType DEF TypeOK, Pc, Publishing
    <2>6. parked[p] = "gone" /\ "park" \in Locked /\ "place" \in Locked
      BY <2>1 DEF Book, ParkedInv, Locked, Publishing
    <2>7. Book'
      BY <1>2, <2>1, <2>2, <2>3, <2>6, MoveBook
    <2>8. Elsewhere(p)
      BY <1>2, <2>2, <2>3, <2>4 DEF Elsewhere
    <2>9. snap[p] \notin damaged => Fresh(p) /\ Settled(snap[p])
      BY <2>1, <2>6, LockedArePublishing DEF WholeInv
    <2>10. snap[p] \notin damaged => Fresh(p)'
      BY <1>2, <2>1, <2>2, <2>3, <2>4, <2>9 DEF Fresh
    <2>11. snap[p] \notin damaged => tree'[snap[p]] = "gone" /\ snap[p] \notin {current, link}
      BY <2>1, <2>4, <2>9 DEF Fresh, Settled
    <2>12. p \notin disturbed => Found(p)'
      BY <1>2, <2>1, <2>2, <2>3, <2>4, <2>6 DEF IInv, FoundInv, Found
    <2> QED
      BY <1>2, <2>1, <2>2, <2>4, <2>5, <2>6, <2>7, <2>8, <2>10, <2>11, <2>12, Settle, LockedArePublishing
  <1> QED
    BY <1>1, <1>2 DEF Park

LEMMA PlaceKeeps == ASSUME IInv, CountersNext, NEW p \in Process, Place(p) PROVE IInv'
  <1>0. TypeOK /\ Book /\ WholeInv /\ pc[p] = "place" /\ snap[p] \in Snapshot
    BY SnapIsThere DEF IInv, Place, Step, Publishing
  <1>a. {"place", "json", "unplace"} \subseteq Locked
    BY DEF Locked, Publishing
  <1>b. UNCHANGED <<parked, orphan, current, link, lock, snap, damaged, disturbed, found>>
    BY DEF Place, history
  <1>c. snap[p] \notin damaged => Fresh(p) /\ Settled(snap[p])
    BY <1>0, <1>a, LockedArePublishing DEF WholeInv
  <1>1. CASE /\ Step(p, "place", "json") /\ tree[snap[p]] = "gone" /\ Put(snap[p], temp[p])
             /\ temp' = [temp EXCEPT ![p] = "gone"]
    <2>1. /\ pc' = [pc EXCEPT ![p] = "json"] /\ pc'[p] = "json" /\ pc' \in [Process -> Pc]
          /\ \A q \in Process \ {p} : pc'[q] = pc[q]
      BY <1>0, <1>1, TypePoint DEF Step, Pc, Publishing
    <2>2. /\ temp' \in [Process -> Tree] /\ temp'[p] = "gone"
          /\ \A q \in Process \ {p} : temp'[q] = temp[q]
      BY <1>0, <1>1 DEF TypeOK, Tree
    <2>3. tree' \in [Snapshot -> Tree] /\ tree'[snap[p]] = temp[p]
          /\ \A r \in Snapshot : r # snap[p] => tree'[r] = tree[r]
      BY <1>0, <1>1, PutStep, TypePoint
    <2>4. TypeOK'
      BY <1>0, <1>b, <2>1, <2>2, <2>3, CountersType DEF TypeOK, Pc, Publishing
    <2>5. Book'
      BY <1>0, <1>a, <1>b, <2>1, MoveBook
    <2>6. Elsewhere(p)
      BY <1>b, <2>1, <2>2, <2>3 DEF Elsewhere
    <2>7. snap[p] \notin damaged => tree'[snap[p]] = "whole" /\ Fresh(p)'
      BY <1>0, <1>b, <1>c, <2>1, <2>3 DEF Fresh
    <2>8. p \notin disturbed => Found(p)'
      BY <1>0, <1>a, <1>b, <2>1, <2>2, <2>3 DEF IInv, FoundInv, Found, Kept
    <2> QED
      BY <1>0, <1>a, <1>b, <2>1, <2>2, <2>4, <2>5, <2>6, <2>7, <2>8, Settle, LockedArePublishing
  <1>2. CASE /\ Step(p, "place", "unplace") /\ UNCHANGED <<tree, temp>>
             /\ tree[snap[p]] = "gone" /\ temp[p] # "gone" => Fails
    <2>1. pc' = [pc EXCEPT ![p] = "unplace"] /\ pc'[p] = "unplace"
      BY <1>0, <1>2, TypePoint DEF Step
    <2>2. Fresh(p) => Fresh(p)'
      BY <1>0, <1>2, <1>b, <2>1 DEF Fresh
    <2>3. Found(p) => Found(p)'
      <3>1. tree[snap[p]] = "gone" /\ temp[p] # "gone" => errors' > 0
        <4>1. errors \in Nat
          BY <1>0, CountersType
        <4> QED
          BY <1>2, <4>1 DEF Fails
      <3> QED
        BY <1>0, <1>2, <1>b, <2>1, <3>1 DEF Found, Kept
    <2> QED
      BY <1>0, <1>2, <1>a, <1>b, <1>c, <2>1, <2>2, <2>3, MoveKeeps DEF Settled
  <1> QED
    BY <1>1, <1>2, Zenon DEF Place

\* The steps that name the snapshot, or fail to.
LEMMA PointKeeps ==
  ASSUME IInv, CountersNext, NEW p \in Process, WriteCurrent(p) \/ Unlink(p) \/ Relink(p)
  PROVE  IInv'
  <1>1. TypeOK /\ Book /\ WholeInv /\ pc[p] \in {"json", "unlink", "relink"}
    BY DEF IInv, WriteCurrent, Unlink, Relink, Step
  <1>2. pc[p] \in Publishing /\ pc[p] \in Locked /\ snap[p] \in Snapshot
    BY <1>1, SnapIsThere DEF Locked, Publishing
  <1>3. UNCHANGED <<tree, parked, orphan, temp, lock, snap, damaged, disturbed, found>>
    BY DEF WriteCurrent, Unlink, Relink, history
  <1>4. PICK to \in {"unlink", "unplace", "relink", "clean"} :
          /\ pc' = [pc EXCEPT ![p] = to]
          /\ to = "unplace" => pc[p] = "json" /\ Fails
    BY DEF WriteCurrent, Unlink, Relink, Step
  <1>5. pc'[p] = to /\ to \in Locked /\ to \notin {"check", "protect", "build", "park"}
    BY <1>1, <1>4, TypePoint DEF Locked, Publishing
  <1>6. current' \in {current, snap[p]} /\ link' \in {link, snap[p], None}
    BY DEF WriteCurrent, Unlink, Relink
  <1>7. snap[p] \notin damaged => tree[snap[p]] = "whole"
    BY <1>1, <1>2 DEF WholeInv, Fresh
  <1>8. Fresh(p) => Fresh(p)'
    BY <1>1, <1>3, <1>4, <1>5 DEF Fresh
  <1>9. Found(p) => Found(p)'
    <2>1. to = "unplace" => errors' > 0
      <3>1. errors \in Nat
        BY <1>1, CountersType
      <3> QED
        BY <1>4, <3>1 DEF Fails
    <2> QED
      BY <1>1, <1>3, <1>4, <1>5, <2>1 DEF Found, Kept
  <1> QED
    BY <1>2, <1>3, <1>4, <1>5, <1>6, <1>7, <1>8, <1>9, MoveKeeps

LEMMA CleanKeeps == ASSUME IInv, CountersNext, NEW p \in Process, Clean(p) PROVE IInv'
  <1>1. TypeOK /\ parked[p] \in Tree /\ "gone" \in Tree /\ pc[p] \in Locked
    BY TypePoint DEF IInv, Clean, Tree, Locked, Publishing
  <1>2. PICK aside \in {"gone", parked[p]} : Leave(p, aside)
    BY DEF Clean
  <1>3. /\ UNCHANGED <<tree, current, link>>
        /\ damaged' = damaged \/ (damaged' = damaged \ {snap[p]} /\ Repaired(p))
    BY <1>1 DEF Clean, Repaired
  <1> QED
    BY <1>1, <1>2, <1>3, LeaveKeeps

LEMMA UnplaceKeeps == ASSUME IInv, CountersNext, NEW p \in Process, Unplace(p) PROVE IInv'
  <1>0. TypeOK /\ Book /\ WholeInv /\ pc[p] = "unplace" /\ snap[p] \in Snapshot /\ parked[p] \in Tree
    BY SnapIsThere, TypePoint DEF IInv, Unplace, Publishing
  <1>a. UNCHANGED <<current, link, damaged>>
    BY DEF Unplace
  <1>1. CASE \E aside \in {"gone", parked[p]} : Leave(p, aside) /\ UNCHANGED tree
    BY <1>0, <1>1, <1>a, LeaveKeeps DEF Tree
  <1>3. CASE /\ parked[p] # "gone" /\ tree[snap[p]] = "gone" /\ Step(p, "unplace", "unpark")
             /\ UNCHANGED <<tree, temp, parked, orphan, lock, snap, disturbed, found, errors>>
    <2>0. "unplace" \in Locked /\ "unpark" \in Locked
      BY DEF Locked, Publishing
    <2>1. pc' = [pc EXCEPT ![p] = "unpark"] /\ pc'[p] = "unpark"
      BY <1>0, <1>3, TypePoint DEF Step
    <2>2. Fresh(p) => Fresh(p)'
      BY <1>3 DEF Fresh
    <2>3. Found(p) => Found(p)'
      BY <1>0, <1>3, <2>1 DEF Found, Kept
    <2>4. snap[p] \in damaged
      BY <1>0, <1>3, <2>0, LockedArePublishing DEF WholeInv, Fresh
    <2> QED
      BY <1>0, <1>3, <1>a, <2>0, <2>1, <2>2, <2>3, <2>4, MoveKeeps
  <1>2. CASE /\ parked[p] # "gone" /\ Step(p, "unplace", "unpark") /\ Put(snap[p], "gone")
             /\ temp' = [temp EXCEPT ![p] = tree[snap[p]]]
             /\ UNCHANGED <<parked, orphan, lock, snap, disturbed, found, errors>>
    <2>0. {"unplace", "unpark"} \subseteq Locked
      BY DEF Locked, Publishing
    <2>1. /\ pc' = [pc EXCEPT ![p] = "unpark"] /\ pc'[p] = "unpark" /\ pc' \in [Process -> Pc]
          /\ \A q \in Process \ {p} : pc'[q] = pc[q]
      BY <1>0, <1>2, TypePoint DEF Step, Pc, Publishing
    <2>2. /\ temp' \in [Process -> Tree] /\ temp'[p] \in {temp[p], tree[snap[p]]}
          /\ \A q \in Process \ {p} : temp'[q] = temp[q]
      BY <1>0, <1>2 DEF TypeOK
    <2>3. tree' \in [Snapshot -> Tree] /\ tree'[snap[p]] = "gone"
          /\ \A r \in Snapshot : r # snap[p] => tree'[r] = tree[r]
      BY <1>0, <1>2, PutStep DEF Tree
    <2>4. TypeOK'
      BY <1>0, <1>2, <1>a, <2>1, <2>2, <2>3, CountersType DEF TypeOK, Pc, Publishing
    <2>5. Book'
      BY <1>0, <1>2, <1>a, <2>0, <2>1, MoveBook
    <2>6. Elsewhere(p)
      BY <1>2, <1>a, <2>1, <2>2, <2>3 DEF Elsewhere
    <2>7. snap[p] \in damaged
      BY <1>0, <1>2, <2>0, LockedArePublishing DEF WholeInv, Fresh
    <2>8. p \notin disturbed => Found(p)'
      BY <1>0, <1>2, <2>0, <2>1, <2>2, <2>3 DEF IInv, FoundInv, Found, Kept
    <2> QED
      BY <1>0, <1>2, <1>a, <2>0, <2>1, <2>2, <2>3, <2>4, <2>5, <2>6, <2>7, <2>8, Settle,
         LockedArePublishing
  <1> QED
    BY <1>1, <1>2, <1>3, Zenon DEF Unplace

LEMMA UnparkKeeps == ASSUME IInv, CountersNext, NEW p \in Process, Unpark(p) PROVE IInv'
  <1>0. TypeOK /\ Book /\ WholeInv /\ pc[p] = "unpark" /\ snap[p] \in Snapshot /\ parked[p] \in Tree
    BY SnapIsThere, TypePoint DEF IInv, Unpark, Publishing
  <1>a. UNCHANGED <<current, link, damaged>>
    BY DEF Unpark
  <1>1. CASE Leave(p, parked[p]) /\ UNCHANGED tree
    BY <1>0, <1>1, <1>a, LeaveKeeps
  <1>2. CASE Put(snap[p], parked[p]) /\ Leave(p, "gone")
    <2>0. "unpark" \in Locked /\ "gone" \in Tree
      BY DEF Locked, Publishing, Tree
    <2>1. tree' \in [Snapshot -> Tree] /\ tree'[snap[p]] = parked[p]
          /\ \A r \in Snapshot : r # snap[p] => tree'[r] = tree[r]
      BY <1>0, <1>2, PutStep
    <2>2. /\ pc'[p] = "idle" /\ snap'[p] = None /\ parked'[p] = "gone" /\ temp'[p] = "gone"
          /\ disturbed' = disturbed \ {p}
          /\ \A q \in Process \ {p} : /\ pc'[q] = pc[q] /\ snap'[q] = snap[q]
                                     /\ parked'[q] = parked[q] /\ temp'[q] = temp[q]
                                     /\ found'[q] = found[q]
      BY <1>0, <1>2, <2>0, LeaveStep
    <2>3. /\ pc' \in [Process -> Pc] /\ snap' \in [Process -> Snapshot \cup {None}]
          /\ lock' \in [Snapshot -> Process \cup {None}]
          /\ orphan' \in [Snapshot -> SUBSET (Tree \ {"gone"})]
          /\ parked' \in [Process -> Tree] /\ temp' \in [Process -> Tree]
          /\ disturbed' \in SUBSET Process /\ found' \in [Process -> Tree]
      BY <1>0, <1>2, <2>0, LeaveStep
    <2>4. /\ commands' \in 0..MaxCommands /\ edits' \in 0..MaxEdits
          /\ kills' \in 0..MaxKills /\ errors' \in 0..MaxErrors /\ late' \in SUBSET Process
      BY <1>0, CountersType
    <2>5. TypeOK'
      BY <1>0, <1>a, <2>1, <2>3, <2>4 DEF TypeOK, Pc, Publishing
    <2>6. Book'
      BY <1>0, <1>2, <1>a, <2>0, LeaveBook
    <2>7. Elsewhere(p)
      BY <1>a, <2>1, <2>2 DEF Elsewhere
    <2>8. snap[p] \in damaged
      BY <1>0, <2>0, LockedArePublishing DEF WholeInv, Fresh
    <2> QED
      BY <1>0, <1>a, <2>0, <2>1, <2>2, <2>5, <2>6, <2>7, <2>8, Settle, LockedArePublishing
  <1> QED
    BY <1>1, <1>2 DEF Unpark

-----------------------------------------------------------------------------
(* Every other step *)

\* A step that leaves the directories alone.
LEMMA Frame ==
  ASSUME IInv, CountersNext, NEW p \in Process, TypeOK', Book', tree' = tree,
         damaged \subseteq damaged', disturbed \subseteq disturbed',
         \A q \in Process \ {p} : /\ pc'[q] = pc[q] /\ snap'[q] = snap[q] /\ temp'[q] = temp[q]
                               /\ parked'[q] = parked[q] /\ found'[q] = found[q],
         current' = current, link' \in {link, None},
         pc'[p] \in Publishing /\ snap'[p] \notin damaged' => Fresh(p)',
         pc'[p] \in Locked /\ p \notin disturbed' => Found(p)'
  PROVE  IInv'
  <1>1. \A s \in Snapshot \ damaged' : Settled(s)'
    BY Constants DEF IInv, WholeInv, Settled
  <1>2. ASSUME NEW q \in Process, pc'[q] \in Publishing, snap'[q] \notin damaged' PROVE Fresh(q)'
    <2>1. CASE q = p
      BY <1>2, <2>1
    <2>2. CASE q # p
      <3>1. Fresh(q)
        BY <1>2, <2>2 DEF IInv, WholeInv
      <3> QED
        BY <2>2, <3>1 DEF Fresh
    <2> QED
      BY <2>1, <2>2
  <1>3. ASSUME NEW q \in Process, pc'[q] \in Locked, q \notin disturbed' PROVE Found(q)'
    <2>1. CASE q = p
      BY <1>3, <2>1
    <2>2. CASE q # p
      <3>1. Found(q)
        BY <1>3, <2>2 DEF IInv, FoundInv
      <3>2. errors > 0 => errors' > 0
        BY CountersType DEF IInv
      <3> QED
        BY <2>2, <3>1, <3>2 DEF Found, Kept
    <2> QED
      BY <2>1, <2>2
  <1> QED
    BY <1>1, <1>2, <1>3 DEF IInv, WholeInv, FoundInv

LEMMA StartPublish ==
  ASSUME IInv, CountersNext, NEW p \in Process, NEW s \in Snapshot, pc[p] = "idle",
         pc' = [pc EXCEPT ![p] = "lock"], snap' = [snap EXCEPT ![p] = s],
         disturbed' = IF Removing = {} THEN disturbed ELSE disturbed \cup {p},
         UNCHANGED <<tree, parked, orphan, temp, current, link, lock, damaged, found>>
  PROVE  IInv'
  <1>1. TypeOK /\ Book
    BY DEF IInv
  <1>2. /\ pc'[p] = "lock" /\ snap'[p] = s /\ pc' \in [Process -> Pc]
        /\ snap' \in [Process -> Snapshot \cup {None}]
        /\ \A q \in Process \ {p} : pc'[q] = pc[q] /\ snap'[q] = snap[q]
    <2>1. snap' \in [Process -> Snapshot \cup {None}] /\ snap'[p] = s
          /\ \A q \in Process \ {p} : snap'[q] = snap[q]
      BY <1>1 DEF TypeOK
    <2> QED
      BY <1>1, <2>1, TypePoint DEF Pc, Publishing
  <1>3. TypeOK'
    BY <1>1, <1>2, CountersType DEF TypeOK, Pc, Publishing
  <1>4. Removing' = Removing /\ p \notin disturbed /\ parked[p] = "gone"
    BY <1>1, <1>2 DEF Removing, Book, ApartInv, ParkedInv, Publishing
  <1>5. OwnerInv'
    BY <1>1, <1>2, <1>4, Constants DEF Book, OwnerInv, Locked, Publishing
  <1>6. ApartInv'
    <2>1. \A q \in disturbed' : pc'[q] # "idle"
      BY <1>1, <1>2 DEF Book, ApartInv, TypeOK
    <2>2. \A q \in Process : pc'[q] \in Publishing /\ q \notin disturbed' => Removing' = {}
      BY <1>1, <1>2, <1>4 DEF Book, ApartInv
    <2>3. "lock" \notin Locked
      BY DEF Locked
    <2>4. \A q, r \in Process : /\ q # r /\ pc'[q] \in Locked /\ pc'[r] \in Locked
                                /\ q \notin disturbed'
                                => snap'[q] # snap'[r]
      BY <1>1, <1>2, <2>3 DEF Book, ApartInv
    <2> QED
      BY <2>1, <2>2, <2>4 DEF ApartInv
  <1>7. DamageInv' /\ ParkedInv'
    <2>1. ASSUME NEW q \in disturbed', pc'[q] \in Publishing PROVE snap'[q] \in damaged'
      <3>1. CASE q = p
        <4>1. Removing # {}
          BY <1>4, <2>1, <3>1
        <4> QED
          BY <1>1, <1>2, <3>1, <4>1 DEF Book, DamageInv
      <3>2. CASE q # p
        <4>1. q \in disturbed /\ q \in Process
          BY <1>1, <2>1, <3>2 DEF TypeOK
        <4> QED
          BY <1>1, <1>2, <2>1, <3>2, <4>1 DEF Book, DamageInv
      <3> QED
        BY <3>1, <3>2
    <2>2. DamageInv'
      BY <1>1, <1>4, <2>1 DEF Book, DamageInv
    <2>3. ParkedInv'
      BY <1>1, <1>2, <1>4 DEF Book, ParkedInv
    <2> QED
      BY <2>2, <2>3
  <1>8. Fresh(p)'
    BY <1>2, <1>4 DEF Fresh
  <1>9. "lock" \notin Locked
    BY DEF Locked
  <1> QED
    BY <1>2, <1>3, <1>5, <1>6, <1>7, <1>8, <1>9, Frame DEF Book

LEMMA StartRemove ==
  ASSUME IInv, CountersNext, NEW p \in Process, pc[p] = "idle",
         pc' = [pc EXCEPT ![p] = "delete link"], damaged' = Snapshot,
         disturbed' = {q \in Process : pc[q] # "idle"},
         UNCHANGED <<tree, parked, orphan, temp, current, link, lock, snap, found>>
  PROVE  IInv'
  <1>1. TypeOK /\ Book
    BY DEF IInv
  <1>2. /\ pc'[p] = "delete link" /\ pc' \in [Process -> Pc]
        /\ \A q \in Process \ {p} : pc'[q] = pc[q]
    BY <1>1, TypePoint DEF Pc, Publishing
  <1>3. TypeOK'
    BY <1>1, <1>2, CountersType DEF TypeOK, Pc, Publishing
  <1>4. "delete link" \notin Publishing /\ "idle" \notin Publishing /\ Locked \subseteq Publishing
    BY DEF Publishing, Locked
  <1>5. \A q \in Process : pc'[q] \in Publishing => q # p /\ q \in disturbed' /\ snap[q] \in Snapshot
    BY <1>1, <1>2, <1>4, SnapIsThere
  <1>6. OwnerInv'
    <2>1. \A q \in Process : pc'[q] \in Publishing <=> snap'[q] # None
      BY <1>1, <1>2, <1>4 DEF Book, OwnerInv
    <2>2. \A q \in Process : pc'[q] \in Locked /\ q \notin disturbed' => lock'[snap'[q]] = q
      BY <1>4, <1>5
    <2>3. ASSUME NEW r \in Snapshot, NEW q \in Process, lock'[r] = q
          PROVE  pc'[q] \in Locked /\ snap'[q] = r
      <3>1. pc[q] \in Locked /\ snap[q] = r
        BY <1>1, <2>3 DEF Book, OwnerInv
      <3> QED
        BY <1>2, <1>4, <3>1
    <2> QED
      BY <2>1, <2>2, <2>3 DEF OwnerInv
  <1>7. ApartInv'
    BY <1>2, <1>4, <1>5 DEF ApartInv
  <1>8. DamageInv' /\ ParkedInv'
    BY <1>1, <1>2, <1>4, <1>5 DEF Book, DamageInv, ParkedInv
  <1>9. damaged \subseteq damaged' /\ disturbed \subseteq disturbed'
    BY <1>1 DEF TypeOK, Book, ApartInv
  <1>10. "delete link" \notin Locked
    BY <1>4
  <1> QED
    BY <1>2, <1>3, <1>4, <1>6, <1>7, <1>8, <1>9, <1>10, Frame DEF Book

LEMMA StartKeeps == ASSUME IInv, CountersNext, NEW p \in Process, Start(p) PROVE IInv'
  <1>1. PICK c \in Command :
          \/ /\ c.op = "publish" /\ pc' = [pc EXCEPT ![p] = "lock"]
             /\ snap' = [snap EXCEPT ![p] = c.snapshot] /\ UNCHANGED damaged
             /\ disturbed' = IF Removing = {} THEN disturbed ELSE disturbed \cup {p}
          \/ /\ c.op = "remove" /\ pc' = [pc EXCEPT ![p] = "delete link"]
             /\ damaged' = Snapshot /\ UNCHANGED snap
             /\ disturbed' = {q \in Process : pc[q] # "idle"}
    BY DEF Start
  <1>2. c.snapshot \in Snapshot
    BY Constants
  <1>3. pc[p] = "idle" /\ UNCHANGED <<tree, parked, orphan, temp, current, link, lock, found>>
    BY DEF Start, files
  <1> QED
    BY <1>1, <1>2, <1>3, StartPublish, StartRemove

LEMMA AcquireKeeps == ASSUME IInv, CountersNext, NEW p \in Process, AcquireLock(p) PROVE IInv'
  <1> DEFINE s == snap[p]
  <1>1. TypeOK /\ Book /\ WholeInv /\ pc[p] = "lock" /\ s \in Snapshot
    BY SnapIsThere DEF IInv, AcquireLock, Step, Publishing
  <1>2. /\ pc' = [pc EXCEPT ![p] = "check"] /\ pc'[p] = "check" /\ pc' \in [Process -> Pc]
        /\ \A q \in Process \ {p} : pc'[q] = pc[q]
    BY <1>1, TypePoint DEF AcquireLock, Step, Pc, Publishing
  <1>3. /\ lock[s] = None /\ lock' = [lock EXCEPT ![s] = p]
        /\ found' = [found EXCEPT ![p] = tree[s]]
        /\ disturbed' = IF \E q \in disturbed : snap[q] = s THEN disturbed \cup {p} ELSE disturbed
        /\ UNCHANGED <<tree, parked, orphan, temp, current, link, snap, damaged>>
    BY DEF AcquireLock, files
  <1>4. /\ lock' \in [Snapshot -> Process \cup {None}] /\ lock'[s] = p
        /\ \A r \in Snapshot : r # s => lock'[r] = lock[r]
    BY <1>1, <1>3 DEF TypeOK
  <1>5. /\ found' \in [Process -> Tree] /\ found'[p] = tree[s]
        /\ \A q \in Process \ {p} : found'[q] = found[q]
    BY <1>1, <1>3 DEF TypeOK
  <1> HIDE DEF s
  <1>6. TypeOK'
    BY <1>1, <1>2, <1>3, <1>4, <1>5, CountersType DEF TypeOK, Pc, Publishing
  <1>7. Removing' = Removing /\ parked[p] = "gone" /\ p # None
    BY <1>1, <1>2, Constants DEF Removing, Book, ParkedInv
  <1>8. {"check", "lock"} \subseteq Publishing /\ "check" \in Locked /\ Locked \subseteq Publishing
    BY DEF Locked, Publishing
  <1>9. \A q \in Process : pc[q] \in Locked /\ q \notin disturbed => lock[snap[q]] = q /\ snap[q] # s
                                                           /\ snap[q] \in Snapshot /\ q # p
    BY <1>1, <1>3, <1>8, SnapIsThere, Constants DEF Book, OwnerInv, Locked
  <1>10. OwnerInv'
    <2>1. \A q \in Process : pc'[q] \in Publishing <=> snap'[q] # None
      BY <1>1, <1>2, <1>3, <1>8 DEF Book, OwnerInv
    <2>2. ASSUME NEW q \in Process, pc'[q] \in Locked, q \notin disturbed'
          PROVE  lock'[snap'[q]] = q
      BY <1>2, <1>3, <1>4, <1>9, <2>2 DEF s
    <2>3. ASSUME NEW r \in Snapshot, NEW q \in Process, lock'[r] = q
          PROVE  pc'[q] \in Locked /\ snap'[q] = r
      <3>1. CASE r = s
        BY <1>2, <1>3, <1>4, <1>8, <2>3, <3>1 DEF s
      <3>2. CASE r # s
        <4>1. pc[q] \in Locked /\ snap[q] = r
          BY <1>1, <1>4, <2>3, <3>2 DEF Book, OwnerInv
        <4> QED
          BY <1>2, <1>3, <1>8, <4>1
      <3> QED
        BY <3>1, <3>2
    <2> QED
      BY <2>1, <2>2, <2>3 DEF OwnerInv
  <1>11. ApartInv'
    <2>1. \A q \in disturbed' : pc'[q] # "idle"
      BY <1>1, <1>2, <1>3 DEF Book, ApartInv, TypeOK
    <2>2. \A q \in Process : pc'[q] \in Publishing /\ q \notin disturbed' => Removing' = {}
      BY <1>1, <1>2, <1>3, <1>7, <1>8 DEF Book, ApartInv
    <2>3. ASSUME NEW q \in Process, NEW r \in Process, q # r, pc'[q] \in Locked, pc'[r] \in Locked,
                 q \notin disturbed'
          PROVE  snap'[q] # snap'[r]
      <3>1. CASE q = p
        <4>1. r \notin disturbed \/ snap[r] # s
          BY <1>3, <2>3, <3>1
        <4>2. pc[r] \in Locked
          BY <1>2, <2>3, <3>1
        <4> QED
          BY <1>3, <1>9, <3>1, <4>1, <4>2 DEF s
      <3>2. CASE r = p
        BY <1>2, <1>3, <1>9, <2>3, <3>2 DEF s
      <3>3. CASE q # p /\ r # p
        BY <1>1, <1>2, <1>3, <2>3, <3>3 DEF Book, ApartInv
      <3> QED
        BY <3>1, <3>2, <3>3
    <2> QED
      BY <2>1, <2>2, <2>3 DEF ApartInv
  <1>12. DamageInv'
    <2>1. ASSUME NEW q \in disturbed', pc'[q] \in Publishing PROVE snap'[q] \in damaged'
      <3>1. CASE q \in disturbed
        BY <1>1, <1>2, <1>3, <1>8, <2>1, <3>1 DEF Book, DamageInv, TypeOK
      <3>2. CASE q \notin disturbed
        <4>1. q = p
          BY <1>3, <2>1, <3>2
        <4>2. PICK r \in disturbed : snap[r] = s
          BY <1>3, <2>1, <3>2
        <4>3. pc[r] \in Publishing
          <5>1. r \in Process /\ snap[r] # None
            BY <1>1, <4>2, Constants DEF TypeOK
          <5> QED
            BY <1>1, <5>1 DEF Book, OwnerInv
        <4> QED
          BY <1>1, <1>3, <4>1, <4>2, <4>3 DEF Book, DamageInv, s
      <3> QED
        BY <3>1, <3>2
    <2> QED
      BY <1>1, <1>3, <1>7, <2>1 DEF Book, DamageInv
  <1>13. ParkedInv'
    BY <1>1, <1>2, <1>3, <1>7 DEF Book, ParkedInv
  <1>14. Fresh(p)' /\ Found(p)'
    BY <1>2, <1>3, <1>5, <1>7 DEF Fresh, Found, s
  <1>16. damaged \subseteq damaged' /\ disturbed \subseteq disturbed'
    BY <1>3
  <1> QED
    BY <1>2, <1>3, <1>5, <1>6, <1>10, <1>11, <1>12, <1>13, <1>14, <1>16, Frame DEF Book

\* While a removal is at work, everything counts as touched.
LEMMA RemovalTouches ==
  ASSUME TypeOK, Book, NEW p \in Process, pc[p] \in {"delete link", "delete"}
  PROVE  damaged = Snapshot /\ \A q \in Process : pc[q] \in Publishing => q \in disturbed
  <1>1. p \in Removing
    BY DEF Removing
  <1> QED
    BY <1>1 DEF Book, ApartInv, DamageInv

LEMMA DeleteLinkKeeps == ASSUME IInv, CountersNext, NEW p \in Process, DeleteLink(p) PROVE IInv'
  <1>0. TypeOK /\ Book /\ pc[p] = "delete link" /\ UNCHANGED <<tree, current, damaged>>
    BY DEF IInv, DeleteLink, Step
  <1>1. CASE Leave(p, "gone") /\ UNCHANGED link
    BY <1>0, <1>1, LeaveKeeps DEF Tree
  <1>2. CASE /\ Step(p, "delete link", "delete") /\ link' = None
             /\ UNCHANGED <<errors, snap, lock, orphan, parked, temp, disturbed, found>>
    <2>1. /\ pc' = [pc EXCEPT ![p] = "delete"] /\ pc'[p] = "delete" /\ pc' \in [Process -> Pc]
          /\ \A q \in Process \ {p} : pc'[q] = pc[q]
      BY <1>0, <1>2, TypePoint DEF Step, Pc, Publishing
    <2>2. TypeOK'
      BY <1>0, <1>2, <2>1, CountersType DEF TypeOK, Pc, Publishing
    <2>3. /\ {"delete link", "delete"} \cap Publishing = {} /\ Locked \subseteq Publishing
          /\ "delete" # "idle"
      BY DEF Publishing, Locked
    <2>4. damaged = Snapshot /\ \A q \in Process : pc[q] \in Publishing => q \in disturbed
      BY <1>0, RemovalTouches
    <2>5. OwnerInv'
      BY <1>0, <1>2, <2>1, <2>3 DEF Book, OwnerInv
    <2>6. ApartInv'
      <3>1. \A q \in disturbed' : pc'[q] # "idle"
        BY <1>0, <1>2, <2>1 DEF Book, ApartInv, TypeOK
      <3>2. \A q \in Process : pc'[q] \in Publishing => q \in disturbed'
        BY <1>2, <2>1, <2>3, <2>4
      <3> QED
        BY <2>3, <3>1, <3>2 DEF ApartInv
    <2>7. DamageInv' /\ ParkedInv'
      <3>1. \A q \in disturbed' : pc'[q] \in Publishing => snap'[q] \in damaged'
        BY <1>0, <1>2, <2>1, <2>3 DEF Book, DamageInv, TypeOK
      <3>2. ParkedInv'
        BY <1>0, <1>2, <2>1, <2>3 DEF Book, ParkedInv
      <3> QED
        BY <1>0, <2>4, <3>1, <3>2 DEF DamageInv
    <2> QED
      BY <1>0, <1>2, <2>1, <2>2, <2>3, <2>5, <2>6, <2>7, Frame DEF Book
  <1> QED
    BY <1>1, <1>2, <1>0 DEF DeleteLink

LEMMA FewerIsTree == ASSUME NEW t \in Tree PROVE Fewer(t) \subseteq Tree
  BY DEF Fewer, Tree

LEMMA DeleteKeeps ==
  ASSUME IInv, CountersNext, NEW p \in Process, DeleteTree(p) \/ DeleteLocks(p) PROVE IInv'
  <1>0. TypeOK /\ Book /\ pc[p] = "delete" /\ UNCHANGED <<link, snap, damaged, disturbed, found>>
    BY DEF IInv, DeleteTree, DeleteLocks, Step, history, files
  <1>1. pc' = pc
    BY <1>0 DEF DeleteTree, DeleteLocks, Step, TypeOK
  <1>2. damaged = Snapshot /\ \A q \in Process : pc[q] \in Publishing => q \in disturbed /\ snap[q] \in Snapshot
    BY <1>0, RemovalTouches, SnapIsThere
  <1>3. tree' \in [Snapshot -> Tree]
    <2>1. CASE UNCHANGED tree
      BY <1>0, <2>1 DEF TypeOK
    <2>2. CASE \E s \in Snapshot : \E t \in Fewer(tree[s]) : Put(s, t)
      <3>1. PICK s \in Snapshot : \E t \in Fewer(tree[s]) : Put(s, t)
        BY <2>2
      <3>2. PICK t \in Fewer(tree[s]) : Put(s, t)
        BY <3>1
      <3>3. t \in Tree
        BY <1>0, FewerIsTree DEF TypeOK
      <3> QED
        BY <1>0, <3>2, <3>3, PutStep
    <2> QED
      BY <2>1, <2>2 DEF DeleteTree, DeleteLocks, files
  <1>4. temp' \in [Process -> Tree]
    <2>1. CASE UNCHANGED temp
      BY <1>0, <2>1 DEF TypeOK
    <2>2. CASE \E q \in Process : \E t \in Fewer(temp[q]) : temp' = [temp EXCEPT ![q] = t]
      <3>1. PICK q \in Process : \E t \in Fewer(temp[q]) : temp' = [temp EXCEPT ![q] = t]
        BY <2>2
      <3>2. PICK t \in Fewer(temp[q]) : temp' = [temp EXCEPT ![q] = t]
        BY <3>1
      <3>3. t \in Tree
        BY <1>0, FewerIsTree DEF TypeOK
      <3> QED
        BY <1>0, <3>2, <3>3 DEF TypeOK
    <2> QED
      BY <2>1, <2>2 DEF DeleteTree, DeleteLocks, files
  <1>5. /\ parked' \in [Process -> Tree] /\ \A q \in Process : parked'[q] \in {parked[q], "gone"}
    BY <1>0 DEF DeleteTree, DeleteLocks, files, TypeOK, Tree
  <1>6. orphan' \in [Snapshot -> SUBSET (Tree \ {"gone"})] /\ current' \in {current, None}
    BY <1>0 DEF DeleteTree, DeleteLocks, files, TypeOK
  <1>7. /\ lock' \in [Snapshot -> Process \cup {None}]
        /\ \A s \in Snapshot : lock'[s] \in {lock[s], None}
    BY <1>0 DEF DeleteTree, DeleteLocks, TypeOK
  <1>8. TypeOK'
    <2>1. /\ commands' \in 0..MaxCommands /\ edits' \in 0..MaxEdits
          /\ kills' \in 0..MaxKills /\ errors' \in 0..MaxErrors /\ late' \in SUBSET Process
      BY <1>0, CountersType
    <2> QED
      BY <1>0, <1>1, <1>3, <1>4, <1>5, <1>6, <1>7, <2>1 DEF TypeOK
  <1>9. OwnerInv'
    <2>1. \A s \in Snapshot, q \in Process : lock'[s] = q => lock[s] = q
      BY <1>7, Constants
    <2> QED
      BY <1>0, <1>1, <1>2, <2>1, LockedArePublishing DEF Book, OwnerInv
  <1>10. ApartInv' /\ DamageInv' /\ ParkedInv'
    BY <1>0, <1>1, <1>2, <1>5 DEF Book, ApartInv, DamageInv, ParkedInv, Removing
  <1>11. WholeInv'
    BY <1>0, <1>1, <1>2 DEF WholeInv
  <1>12. FoundInv'
    BY <1>0, <1>1, <1>2, LockedArePublishing DEF FoundInv
  <1> QED
    BY <1>8, <1>9, <1>10, <1>11, <1>12 DEF IInv, Book

LEMMA EditKeeps == ASSUME IInv, CountersNext, NEW s \in Snapshot, Edit(s) PROVE IInv'
  <1>1. /\ TypeOK /\ Book /\ damaged' = damaged \cup {s}
        /\ UNCHANGED <<parked, orphan, temp, current, link, lock, pc, snap, disturbed>>
    BY DEF IInv, Edit
  <1>2. PICK t \in Edits(tree[s]) :
          /\ Put(s, t)
          /\ found' = [p \in Process |->
                        IF snap[p] = s /\ parked[p] = "gone" /\ pc[p] # "lock" THEN t ELSE found[p]]
    BY DEF Edit
  <1>3. t \in Tree /\ tree[s] # "gone"
    BY <1>1, <1>2 DEF Edits, Tree, TypeOK
  <1>4. /\ tree' \in [Snapshot -> Tree] /\ tree'[s] = t
        /\ \A r \in Snapshot : r # s => tree'[r] = tree[r]
    BY <1>1, <1>2, <1>3, PutStep
  <1>5. found' \in [Process -> Tree]
    BY <1>1, <1>2, <1>3 DEF TypeOK
  <1>6. TypeOK'
    <2>1. /\ commands' \in 0..MaxCommands /\ edits' \in 0..MaxEdits
          /\ kills' \in 0..MaxKills /\ errors' \in 0..MaxErrors /\ late' \in SUBSET Process
      BY <1>1, CountersType
    <2> QED
      BY <1>1, <1>4, <1>5, <2>1 DEF TypeOK
  <1>7. Book'
    BY <1>1 DEF Book, OwnerInv, ApartInv, DamageInv, ParkedInv, Removing
  <1>8. WholeInv'
    <2>1. \A r \in Snapshot \ damaged' : Settled(r)'
      BY <1>1, <1>4 DEF IInv, WholeInv, Settled
    <2>2. ASSUME NEW q \in Process, pc'[q] \in Publishing, snap'[q] \notin damaged' PROVE Fresh(q)'
      <3>1. Fresh(q) /\ snap[q] # s /\ snap[q] \in Snapshot
        BY <1>1, <2>2, SnapIsThere DEF IInv, WholeInv
      <3> QED
        BY <1>1, <1>4, <3>1 DEF Fresh
    <2> QED
      BY <2>1, <2>2 DEF WholeInv
  <1>9. ASSUME NEW q \in Process, pc'[q] \in Locked, q \notin disturbed' PROVE Found(q)'
    <2>1. Found(q) /\ pc[q] \in Locked /\ snap[q] \in Snapshot /\ pc[q] # "lock"
      BY <1>1, <1>9, SnapIsThere, LockedArePublishing DEF IInv, FoundInv, Locked
    <2>2. errors > 0 => errors' > 0
      BY <1>1, CountersType
    <2>3. CASE snap[q] # s
      <3>1. found'[q] = found[q] /\ tree'[snap[q]] = tree[snap[q]]
        BY <1>2, <1>4, <2>1, <2>3
      <3> QED
        BY <1>1, <2>1, <2>2, <3>1 DEF Found, Kept
    <2>4. CASE snap[q] = s
      <3>1. CASE parked[q] = "gone"
        <4>1. found'[q] = t
          BY <1>2, <2>1, <2>4, <3>1
        <4> QED
          BY <1>1, <1>3, <1>4, <2>1, <2>2, <2>4, <3>1, <4>1 DEF Found, Kept
      <3>2. CASE parked[q] # "gone"
        <4>1. found'[q] = found[q]
          BY <1>2, <3>2
        <4>2. pc[q] \notin {"check", "protect", "build", "park"}
          BY <1>1, <3>2 DEF Book, ParkedInv
        <4> QED
          BY <1>1, <1>3, <1>4, <2>1, <2>2, <2>4, <3>2, <4>1, <4>2 DEF Found, Kept
      <3> QED
        BY <3>1, <3>2
    <2> QED
      BY <2>3, <2>4
  <1> QED
    BY <1>6, <1>7, <1>8, <1>9 DEF IInv, FoundInv

LEMMA StableKeeps == ASSUME IInv, CountersNext, StablePath PROVE IInv'
  <1>1. /\ TypeOK /\ link' = current /\ current \in Snapshot
        /\ UNCHANGED <<tree, parked, orphan, temp, current, lock, pc, snap, damaged, disturbed, found,
                       commands, edits, kills, errors>>
    BY DEF IInv, StablePath, TypeOK, history, counters
  <1>2. TypeOK'
    BY <1>1, CountersType DEF TypeOK
  <1>3. Book'
    BY <1>1 DEF IInv, Book, OwnerInv, ApartInv, DamageInv, ParkedInv, Removing
  <1>4. WholeInv'
    BY <1>1 DEF IInv, WholeInv, Settled, Fresh
  <1>5. FoundInv'
    BY <1>1 DEF IInv, FoundInv, Found, Kept
  <1> QED
    BY <1>2, <1>3, <1>4, <1>5 DEF IInv

LEMMA EndKeeps ==
  ASSUME IInv, CountersNext, NEW p \in Process, Removed(p) \/ Kill(p) PROVE IInv'
  <1>1. TypeOK /\ parked[p] \in Tree /\ "gone" \in Tree
    BY TypePoint DEF IInv, Tree
  <1>2. PICK aside \in {"gone", parked[p]} : Leave(p, aside)
    BY DEF Removed, Kill
  <1>3. UNCHANGED <<tree, current, link, damaged>>
    BY DEF Removed, Kill
  <1> QED
    BY <1>1, <1>2, <1>3, LeaveKeeps

-----------------------------------------------------------------------------

LEMMA InvInit == Init => IInv
  <1> SUFFICES ASSUME Init PROVE IInv
    OBVIOUS
  <1>1. TypeOK
    BY Constants DEF Init, TypeOK, Tree
  <1>2. Book
    BY Constants DEF Init, Book, OwnerInv, ApartInv, DamageInv, ParkedInv, Removing, Publishing, Locked
  <1>3. WholeInv
    BY Constants DEF Init, WholeInv, Settled, Publishing
  <1>4. FoundInv
    BY DEF Init, FoundInv, Locked, Publishing
  <1> QED
    BY <1>1, <1>2, <1>3, <1>4 DEF IInv

LEMMA InvStep == ASSUME IInv, [Next]_vars PROVE IInv'
  <1>1. CASE UNCHANGED vars
    <2>1. UNCHANGED <<tree, parked, orphan, temp, current, link, lock, pc, snap, damaged, disturbed,
                      found, late, commands, edits, kills, errors>>
      BY <1>1 DEF vars, files, history, counters
    <2>2. TypeOK' /\ Book'
      BY <2>1 DEF IInv, TypeOK, Book, OwnerInv, ApartInv, DamageInv, ParkedInv, Removing
    <2>3. WholeInv' /\ FoundInv'
      BY <2>1 DEF IInv, WholeInv, Settled, Fresh, FoundInv, Found, Kept
    <2> QED
      BY <2>2, <2>3 DEF IInv
  <1>2. CASE Next
    <2>1. CountersNext
      BY <1>2, CountersStep
    <2>2. ASSUME NEW p \in Process, Publish(p) PROVE IInv'
      BY <2>1, <2>2, AcquireKeeps, CheckKeeps, ProtectKeeps, BuildKeeps, ParkKeeps, PlaceKeeps,
         PointKeeps, CleanKeeps, UnplaceKeeps, UnparkKeeps DEF Publish
    <2>3. ASSUME NEW p \in Process, Remove(p) PROVE IInv'
      BY <2>1, <2>3, DeleteLinkKeeps, DeleteKeeps, EndKeeps DEF Remove
    <2> QED
      BY <1>2, <2>1, <2>2, <2>3, StartKeeps, EndKeeps, EditKeeps, StableKeeps
         DEF Next, Act
  <1> QED
    BY <1>1, <1>2

\* Every reachable state is well typed.
THEOREM TypeCorrect == Spec => []TypeOK
  <1>1. IInv /\ [Next]_vars => IInv'
    BY InvStep
  <1>2. IInv => TypeOK
    BY DEF IInv
  <1> QED
    BY <1>1, <1>2, InvInit, PTL DEF Spec

\* The pointers name whole snapshots, whoever publishes, removes, edits, fails or is
\* killed, and however many.
THEOREM PointersWhole == Spec => []PointersAreWhole
  <1>1. IInv /\ [Next]_vars => IInv'
    BY InvStep
  <1>2. IInv => PointersAreWhole
    <2> SUFFICES ASSUME IInv, NEW s \in {current, link} \ {None}, s \notin damaged
                 PROVE  tree[s] = "whole"
      BY DEF PointersAreWhole
    <2>1. s \in Snapshot
      BY DEF IInv, TypeOK
    <2> QED
      BY <2>1 DEF IInv, WholeInv, Settled
  <1> QED
    BY <1>1, <1>2, InvInit, PTL DEF Spec

\* What a publication replaces is at its place or beside it, as users have left it.
THEOREM NothingDestroyed == Spec => []NothingIsDestroyed
  <1>1. IInv /\ [Next]_vars => IInv'
    BY InvStep
  <1>2. IInv => NothingIsDestroyed
    <2> SUFFICES ASSUME IInv, NEW p \in Process,
                        pc[p] \in {"place", "json", "unlink", "relink", "clean", "unplace", "unpark"},
                        p \notin disturbed, found[p] # "gone"
                 PROVE  found[p] \in {tree[snap[p]], parked[p]}
      BY DEF NothingIsDestroyed
    <2>1. pc[p] \in Locked
      BY DEF Locked, Publishing
    <2>2. Found(p)
      BY <2>1 DEF IInv, FoundInv
    <2> QED
      BY <2>2 DEF Found, Kept
  <1> QED
    BY <1>1, <1>2, InvInit, PTL DEF Spec

\* A process moves itself.
LEMMA OwnSteps ==
  ASSUME TypeOK, NEW p \in Process, NEW q \in Process, p # q,
         Start(q) \/ Publish(q) \/ Remove(q) \/ Kill(q)
  PROVE  pc'[p] = pc[p]
  <1>1. CASE \E to : pc' = [pc EXCEPT ![q] = to]
    BY <1>1 DEF TypeOK
  <1>2. CASE Start(q)
    BY <1>1, <1>2 DEF Start
  <1>3. CASE AcquireLock(q) \/ Check(q) \/ Protect(q) \/ Build(q) \/ Park(q)
    BY <1>1, <1>3 DEF AcquireLock, Check, Protect, Build, Park, Step, Leave
  <1>4. CASE Place(q) \/ WriteCurrent(q) \/ Unlink(q) \/ Relink(q)
    BY <1>1, <1>4 DEF Place, WriteCurrent, Unlink, Relink, Step
  <1>5. CASE Clean(q) \/ Unplace(q) \/ Unpark(q) \/ Kill(q)
    BY <1>1, <1>5 DEF Clean, Unplace, Unpark, Kill, Step, Leave
  <1>6. CASE DeleteLink(q) \/ DeleteTree(q) \/ DeleteLocks(q) \/ Removed(q)
    BY <1>1, <1>6 DEF DeleteLink, DeleteTree, DeleteLocks, Removed, Step, Leave
  <1> QED
    BY <1>2, <1>3, <1>4, <1>5, <1>6 DEF Publish, Remove

\* Nobody else takes what a process has moved aside, but to delete it, nor its name.
LEMMA OwnPlaces ==
  ASSUME TypeOK, NEW p \in Process, NEW q \in Process, p # q,
         Start(q) \/ Publish(q) \/ Remove(q) \/ Kill(q)
  PROVE  snap'[p] = snap[p] /\ parked'[p] \in {parked[p], "gone"}
  <1>1. CASE UNCHANGED <<snap, parked>>
    BY <1>1
  <1>2. CASE \E aside : Leave(q, aside)
    BY <1>2 DEF Leave, TypeOK
  <1>3. CASE Start(q)
    BY <1>3 DEF Start, files, TypeOK
  <1>4. CASE AcquireLock(q) \/ Check(q) \/ Protect(q) \/ Build(q)
    BY <1>1, <1>2, <1>4 DEF AcquireLock, Check, Protect, Build, files
  <1>5. CASE Park(q)
    BY <1>2, <1>5 DEF Park, TypeOK
  <1>6. CASE Place(q) \/ WriteCurrent(q) \/ Unlink(q) \/ Relink(q)
    BY <1>1, <1>6 DEF Place, WriteCurrent, Unlink, Relink
  <1>7. CASE Clean(q) \/ Unplace(q) \/ Unpark(q) \/ Kill(q) \/ Removed(q) \/ DeleteLink(q)
    BY <1>1, <1>2, <1>7 DEF Clean, Unplace, Unpark, Kill, Removed, DeleteLink
  <1>8. CASE DeleteTree(q) \/ DeleteLocks(q)
    BY <1>8 DEF DeleteTree, DeleteLocks, files, TypeOK
  <1> QED
    BY <1>3, <1>4, <1>5, <1>6, <1>7, <1>8 DEF Publish, Remove

\* A publication that has looked finds content of a user only if that came later.
LateInv == \A p \in Process : Looked(p) /\ tree[snap[p]] \in OfUser => p \in late

\* A publication comes to have looked by looking, and seeing nothing.
LEMMA LookStep ==
  ASSUME IInv, Next, NEW p \in Process, Looked(p)'
  PROVE  \/ Looked(p) /\ snap'[p] = snap[p]
         \/ tree'[snap'[p]] \notin OfUser
  <1>1. TypeOK /\ Book /\ (pc[p] \in Publishing => snap[p] \in Snapshot)
    BY SnapIsThere DEF IInv
  <1>2. CASE \E q \in Process \ {p} : Start(q) \/ Publish(q) \/ Remove(q) \/ Kill(q)
    <2>1. PICK q \in Process \ {p} : Start(q) \/ Publish(q) \/ Remove(q) \/ Kill(q)
      BY <1>2
    <2>2. pc'[p] = pc[p] /\ snap'[p] = snap[p] /\ parked'[p] \in {parked[p], "gone"}
      BY <1>1, <2>1, OwnSteps, OwnPlaces
    <2> QED
      BY <2>2 DEF Looked
  <1>3. CASE Start(p) \/ AcquireLock(p) \/ Check(p)
    <2>1. parked' = parked /\ pc'[p] \in {"lock", "delete link", "check", "json", "protect"}
      BY <1>1, <1>3 DEF Start, AcquireLock, Check, Step, files, TypeOK
    <2>2. parked[p] = "gone"
      BY <1>1, <1>3 DEF Book, ParkedInv, Start, AcquireLock, Check, Step, Publishing
    <2> QED
      BY <2>1, <2>2 DEF Looked
  <1>4. CASE Protect(p)
    <2>1. CASE Leave(p, "gone")
      BY <1>1, <2>1, LeaveStep DEF Looked, Tree
    <2>2. CASE tree[snap[p]] \notin OfUser /\ UNCHANGED <<files, snap>>
      BY <2>2 DEF files
    <2> QED
      BY <1>4, <2>1, <2>2, Zenon DEF Protect
  <1>5. CASE Build(p) \/ Park(p) \/ Place(p)
    <2>1. Looked(p)
      BY <1>5 DEF Build, Park, Place, Step, Looked
    <2>2. snap'[p] = snap[p] \/ (\E aside \in Tree : Leave(p, aside))
      BY <1>5 DEF Build, Park, Place, Tree
    <2> QED
      BY <1>1, <2>1, <2>2, LeaveStep DEF Looked
  <1>6. CASE WriteCurrent(p) \/ Unlink(p) \/ Relink(p)
    <2>1. /\ parked' = parked /\ snap' = snap
          /\ pc'[p] \in {"unlink", "unplace", "relink", "clean"}
      BY <1>1, <1>6 DEF WriteCurrent, Unlink, Relink, Step, TypeOK
    <2> QED
      BY <2>1 DEF Looked
  <1>7. CASE Unplace(p)
    <2>1. \/ \E aside \in Tree : Leave(p, aside)
          \/ parked[p] # "gone" /\ UNCHANGED <<parked, snap>>
      BY <1>1, <1>7, TypePoint DEF Unplace, Tree
    <2> QED
      BY <1>1, <2>1, LeaveStep DEF Looked
  <1>8. CASE Clean(p) \/ Unpark(p) \/ Removed(p) \/ Kill(p)
    <2>1. \E aside \in Tree : Leave(p, aside)
      BY <1>1, <1>8, TypePoint DEF Clean, Unpark, Removed, Kill, Tree
    <2> QED
      BY <1>1, <2>1, LeaveStep DEF Looked
  <1>9. CASE DeleteLink(p) \/ DeleteTree(p) \/ DeleteLocks(p)
    <2>1. parked[p] = "gone" /\ pc[p] \in {"delete link", "delete"}
      BY <1>1, <1>9 DEF DeleteLink, DeleteTree, DeleteLocks, Step, Book, ParkedInv, Publishing
    <2>2. CASE Leave(p, "gone")
      BY <1>1, <2>2, LeaveStep DEF Looked, Tree
    <2>3. CASE pc'[p] = "delete" /\ parked'[p] \in {parked[p], "gone"}
      BY <2>1, <2>3 DEF Looked
    <2>4. DeleteLink(p) => Leave(p, "gone") \/ (pc'[p] = "delete" /\ parked' = parked)
      BY <1>1 DEF DeleteLink, Step, TypeOK
    <2>5. DeleteTree(p) \/ DeleteLocks(p) => pc'[p] = "delete" /\ parked'[p] \in {parked[p], "gone"}
      BY <1>1 DEF DeleteTree, DeleteLocks, Step, TypeOK, files
    <2> QED
      BY <1>9, <2>2, <2>3, <2>4, <2>5
  <1>10. CASE (\E s \in Snapshot : Edit(s)) \/ StablePath
    BY <1>10 DEF Edit, StablePath, Looked
  <1> QED
    BY <1>2, <1>3, <1>4, <1>5, <1>6, <1>7, <1>8, <1>9, <1>10 DEF Next, Act, Publish, Remove

LEMMA LateStep == ASSUME IInv, LateInv, [Next]_vars PROVE LateInv'
  <1>1. CASE UNCHANGED vars
    BY <1>1 DEF LateInv, Looked, vars, files
  <1>2. CASE Next
    <2> SUFFICES ASSUME NEW p \in Process, Looked(p)', tree'[snap'[p]] \in OfUser
                 PROVE  p \in late'
      BY DEF LateInv
    <2>1. Looked(p) /\ snap'[p] = snap[p]
      BY <1>2, LookStep
    <2>2. p \in late \/ ComesLate(p)
      BY <2>1 DEF LateInv, ComesLate
    <2> QED
      BY <1>2, <2>2 DEF Next, Notes
  <1> QED
    BY <1>1, <1>2

LEMMA EditStep ==
  ASSUME IInv, LateInv, NEW s \in Snapshot, NEW p \in Process, tree[s] \in OfUser, Publish(p)
  PROVE  p \in late \/ tree'[s] = tree[s]
  <1>1. TypeOK /\ "gone" \notin OfUser
    BY DEF IInv, OfUser
  <1>2. CASE UNCHANGED tree
    BY <1>2
  <1>3. CASE \E t : Put(snap[p], t) /\ (Looked(p) \/ tree[snap[p]] = "gone")
    <2>1. CASE s = snap[p]
      BY <1>1, <1>3, <2>1 DEF LateInv
    <2>2. CASE s # snap[p]
      BY <1>1, <1>3, <2>2 DEF Put, TypeOK
    <2> QED
      BY <2>1, <2>2
  <1>4. CASE Park(p)
    BY <1>2, <1>3, <1>4 DEF Park, Looked
  <1>5. CASE Place(p)
    BY <1>2, <1>3, <1>5, Zenon DEF Place
  <1>6. CASE Unplace(p)
    BY <1>2, <1>3, <1>6 DEF Unplace, Looked
  <1>7. CASE Unpark(p)
    BY <1>2, <1>3, <1>7 DEF Unpark
  <1>8. CASE Protect(p) \/ Clean(p)
    BY <1>2, <1>8 DEF Protect, Clean, files
  <1>9. CASE AcquireLock(p) \/ Check(p) \/ Build(p)
    BY <1>2, <1>9 DEF AcquireLock, Check, Build, files
  <1>10. CASE WriteCurrent(p) \/ Unlink(p) \/ Relink(p)
    BY <1>2, <1>10 DEF WriteCurrent, Unlink, Relink
  <1> QED
    BY <1>4, <1>5, <1>6, <1>7, <1>8, <1>9, <1>10 DEF Publish

\* No publication takes from its place what a user changed before it looked.
THEOREM EditsKept == Spec => EditsAreKept
  <1>1. IInv /\ [Next]_vars => IInv'
    BY InvStep
  <1>2. IInv /\ LateInv /\ [Next]_vars => LateInv'
    BY LateStep
  <1>3. IInv /\ LateInv /\ [Next]_vars =>
          [\A s \in Snapshot, p \in Process :
             tree[s] \in OfUser /\ Publish(p) => p \in late \/ tree'[s] = tree[s]]_vars
    BY EditStep
  <1>4. Init => LateInv
    BY DEF Init, LateInv, Looked
  <1> QED
    BY <1>1, <1>2, <1>3, <1>4, InvInit, PTL DEF Spec, EditsAreKept

LEMMA RestoreStep ==
  ASSUME IInv, Next, NEW p \in Process, pc[p] \in {"build", "park", "unplace", "unpark"},
         pc'[p] = "idle", kills' = kills, errors' <= 1, p \notin disturbed
  PROVE  \/ tree'[snap[p]] = found[p]
         \/ found[p] = "gone" /\ tree'[snap[p]] = "whole"
  <1>1. TypeOK /\ Book /\ pc[p] \in Locked /\ snap[p] \in Snapshot /\ errors \in Nat /\ kills \in Nat
    <2>1. pc[p] \in Locked
      BY DEF Locked, Publishing
    <2>2. TypeOK /\ Book /\ CountersNext
      BY CountersStep DEF IInv
    <2>3. errors \in Nat /\ kills \in Nat
      BY <2>2, CountersType
    <2> QED
      BY <2>1, <2>2, <2>3, SnapIsThere, LockedArePublishing
  <1>2. Found(p)
    BY <1>1 DEF IInv, FoundInv
  <1>3. Start(p) \/ Publish(p) \/ Remove(p) \/ Kill(p)
    BY <1>1, OwnSteps DEF Next, Act, Edit, StablePath
  <1>4. ~Kill(p)
    BY <1>1 DEF Kill
  <1>5. Build(p) \/ Park(p) \/ Unplace(p) \/ Unpark(p)
    BY <1>3, <1>4 DEF Start, Publish, Remove, AcquireLock, Check, Protect, Place, WriteCurrent, Unlink,
       Relink, Clean, DeleteLink, DeleteTree, DeleteLocks, Removed, Step
  <1>6. CASE Build(p)
    BY <1>1, <1>2, <1>6 DEF Build, Step, Found, TypeOK
  <1>7. CASE Park(p)
    BY <1>1, <1>2, <1>7 DEF Park, Step, Found, TypeOK
  <1>8. CASE Unplace(p)
    <2>1. pc[p] = "unplace" /\ errors > 0 /\ ~Fails
      BY <1>1, <1>2, <1>8 DEF Unplace, Found, Fails
    <2>2. parked[p] = "gone" /\ UNCHANGED tree
      BY <1>1, <1>2, <1>8, <2>1 DEF Unplace, Step, TypeOK, Found
    <2> QED
      BY <1>2, <2>1, <2>2 DEF Found, Kept
  <1>9. CASE Unpark(p)
    <2>1. /\ pc[p] = "unpark" /\ errors > 0 /\ ~Fails
          /\ tree[snap[p]] = "gone" /\ parked[p] = found[p]
      BY <1>1, <1>2, <1>9 DEF Unpark, Found, Fails
    <2>2. tree' = [tree EXCEPT ![snap[p]] = parked[p]]
      BY <1>9, <2>1 DEF Unpark, Put
    <2> QED
      BY <1>1, <2>1, <2>2 DEF TypeOK
  <1> QED
    BY <1>5, <1>6, <1>7, <1>8, <1>9

\* A publication that one error stops leaves what it found, as users have changed it.
THEOREM FailureUndone == Spec => FailureRestores
  <1>1. IInv /\ [Next]_vars => IInv'
    BY InvStep
  <1>2. IInv /\ [Next]_vars =>
          [\A p \in Process :
             /\ pc[p] \in {"build", "park", "unplace", "unpark"} /\ pc'[p] = "idle"
             /\ kills' = kills /\ errors' <= 1 /\ p \notin disturbed
             => \/ tree'[snap[p]] = found[p]
                \/ found[p] = "gone" /\ tree'[snap[p]] = "whole"]_vars
    BY RestoreStep
  <1> QED
    BY <1>1, <1>2, InvInit, PTL DEF Spec, FailureRestores
=============================================================================
