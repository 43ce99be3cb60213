-------------------------- MODULE SelfUpdateProofs --------------------------
(***************************************************************************)
(* Proofs about SelfUpdate, for any number of programs, releases, upgrades, *)
(* kills and errors: the types for any number of updaters, and that the old *)
(* programs can be recovered and are replaced together for one.             *)
(***************************************************************************)
EXTENDS SelfUpdate, TLAPS, NaturalsInduction, WellFoundedInduction

LEMMA Places ==
  /\ Len(Binaries) \in Nat \ {0} /\ DOMAIN Binaries = 1..Len(Binaries)
  /\ \A i \in 1..Len(Binaries) : Binaries[i] \in Program
  /\ \A b \in Program : \E i \in 1..Len(Binaries) : Binaries[i] = b
  /\ \A i, j \in 1..Len(Binaries) : Binaries[i] = Binaries[j] => i = j
  <1>1. Binaries \in Seq(Program) /\ Len(Binaries) > 0
    BY ConstantsAssumption
  <1>2. Len(Binaries) \in Nat \ {0} /\ DOMAIN Binaries = 1..Len(Binaries)
    BY <1>1
  <1> QED
    BY <1>2, ConstantsAssumption DEF Program

LEMMA Bounds == MaxUpgrades \in Nat /\ MaxKills \in Nat /\ MaxErrors \in Nat
  BY ConstantsAssumption

\* A set of programs that is not empty has a last one.
LEMMA LastIsThere ==
  ASSUME NEW S \in SUBSET Program, S # {}
  PROVE  Last(S) \in DOMAIN Binaries /\ Binaries[Last(S)] \in S
  <1> DEFINE From(n) == \E i \in DOMAIN Binaries : Binaries[i] \in S /\ n = Len(Binaries) - i
  <1> DEFINE N == {n \in Nat : From(n)}
  <1>1. DOMAIN Binaries = 1..Len(Binaries) /\ Len(Binaries) \in Nat
    BY Places
  <1>2. PICK b \in S : TRUE
    OBVIOUS
  <1>3. PICK i \in DOMAIN Binaries : Binaries[i] = b
    BY <1>1, <1>2, Places
  <1>4. Len(Binaries) - i \in N
    BY <1>1, <1>2, <1>3
  <1>5. PICK m \in N : \A n \in N : ~(<<n, m>> \in OpToRel(<, Nat))
    <2>1. N \subseteq Nat /\ N # {}
      BY <1>4
    <2> HIDE DEF N
    <2> QED
      BY <2>1, NatLessThanWellFounded, WFMin
  <1>6. m \in Nat /\ \A n \in N : ~(n < m)
    BY <1>5 DEF OpToRel
  <1>7. PICK k \in DOMAIN Binaries : Binaries[k] \in S /\ m = Len(Binaries) - k
    BY <1>6, <1>5
  <1>8. \A j \in DOMAIN Binaries : Binaries[j] \in S => j <= k
    <2> SUFFICES ASSUME NEW j \in DOMAIN Binaries, Binaries[j] \in S PROVE j <= k
      OBVIOUS
    <2>1. Len(Binaries) - j \in N
      BY <1>1
    <2>2. ~(Len(Binaries) - j < m)
      BY <2>1, <1>6
    <2> QED
      BY <2>2, <1>7, <1>1
  <1> QED
    BY <1>7, <1>8, Zenon DEF Last

\* The program at hand is one of the release.
LEMMA CurrentIsProgram ==
  ASSUME TypeOK, InRange, NEW u \in Updater,
         pc[u] \in {"move", "copy", "copying", "remove", "restore"}
  PROVE  next[u] \in DOMAIN Binaries /\ Current(u) \in Program
  BY Places DEF TypeOK, InRange, Current

\* Where a rollback begins or goes on.
LEMMA PutBackStep ==
  ASSUME TypeOK, InRange, NEW u \in Updater, NEW S \in SUBSET Program, PutBack(u, S)
  PROVE  /\ pc' \in [Updater -> {"idle", "stage", "move", "copy", "copying", "remove",
                                 "restore", "clear"}]
         /\ next' \in [Updater -> 1..Len(Binaries) + 1]
         /\ pc' = [pc EXCEPT ![u] = IF S = {} THEN "idle" ELSE "remove"]
         /\ \A v \in Updater \ {u} : next'[v] = next[v]
         /\ S # {} => next'[u] <= Len(Binaries) /\ Binaries[next'[u]] \in S
  <1>1. CASE S = {}
    BY <1>1, Places DEF PutBack, Goto, TypeOK
  <1>2. CASE S # {}
    <2>1. Last(S) \in DOMAIN Binaries /\ Binaries[Last(S)] \in S
      BY <1>2, LastIsThere
    <2>2. Last(S) \in 1..Len(Binaries) /\ Last(S) <= Len(Binaries) /\ Last(S) \in 1..Len(Binaries) + 1
      BY <2>1, Places
    <2>3. next' = [next EXCEPT ![u] = Last(S)] /\ pc' = [pc EXCEPT ![u] = "remove"]
      BY <1>2 DEF PutBack, Goto
    <2> HIDE DEF Last
    <2> QED
      BY <1>2, <2>1, <2>2, <2>3 DEF TypeOK
  <1> QED
    BY <1>1, <1>2

-----------------------------------------------------------------------------
(* Types *)

LEMMA BackupType ==
  ASSUME TypeOK, NEW u \in Updater, NEW b \in Program, NEW c \in Content
  PROVE  [aside EXCEPT ![u][b] = c] \in [Updater -> [Program -> Content]]
  <1>1. [aside[u] EXCEPT ![b] = c] \in [Program -> Content]
    BY DEF TypeOK
  <1> QED
    BY <1>1 DEF TypeOK

LEMMA TypeStep == ASSUME TypeOK, InRange, [Next]_vars PROVE TypeOK' /\ InRange'
  <1>0. Len(Binaries) \in Nat \ {0}
    BY Places
  <1> USE DEF Goto, Fails, counters
  <1>1. CASE UNCHANGED vars
    BY <1>1 DEF vars, TypeOK, InRange
  <1>2. ASSUME NEW u \in Updater, Start(u) PROVE TypeOK' /\ InRange'
    <2>1. aside' \in [Updater -> [Program -> Content]]
      BY <1>2 DEF Start, CleanReplaced, TypeOK, Content
    <2>2. /\ old' \in [Updater -> [Program -> Content]] /\ upgrades' \in 0..MaxUpgrades
          /\ UNCHANGED <<file, next, moved, kills, errors>>
      BY <1>2, Bounds DEF Start, TypeOK
    <2>3. /\ pc' \in {pc, [pc EXCEPT ![u] = "stage"]} /\ to' \in [Updater -> Release]
      BY <1>2 DEF Start, TypeOK
    <2> QED
      BY <2>1, <2>2, <2>3 DEF TypeOK, InRange
  <1>3. ASSUME NEW u \in Updater, Stage(u) PROVE TypeOK' /\ InRange'
    <2>1. /\ pc' \in {[pc EXCEPT ![u] = "move"], [pc EXCEPT ![u] = "idle"]}
          /\ \/ next' = [next EXCEPT ![u] = 1] /\ moved' = [moved EXCEPT ![u] = {}]
             \/ pc' = [pc EXCEPT ![u] = "idle"] /\ UNCHANGED <<next, moved>>
          /\ UNCHANGED <<file, aside, to, old, upgrades, kills>>
      BY <1>3 DEF Stage
    <2>2. errors' \in 0..MaxErrors
      BY <1>3, Bounds DEF Stage, TypeOK
    <2>3. 1 \in 1..Len(Binaries) + 1 /\ 1 <= Len(Binaries)
      BY <1>0
    <2> QED
      BY <2>1, <2>2, <2>3 DEF TypeOK, InRange
  <1>4. ASSUME NEW u \in Updater, MoveAside(u) \/ CopyBegins(u) \/ CopyEnds(u), RollBack(u)
        PROVE  TypeOK' /\ InRange'
    <2>1. moved[u] \in SUBSET Program
      BY DEF TypeOK
    <2>2. /\ pc' = [pc EXCEPT ![u] = IF moved[u] = {} THEN "idle" ELSE "remove"]
          /\ next' \in [Updater -> 1..Len(Binaries) + 1]
          /\ \A v \in Updater \ {u} : next'[v] = next[v]
          /\ moved[u] # {} => next'[u] <= Len(Binaries)
      BY <1>4, <2>1, PutBackStep DEF RollBack
    <2>3. errors' \in 0..MaxErrors
      BY <1>4, <2>2, Bounds DEF MoveAside, CopyBegins, CopyEnds, TypeOK
    <2>4. file' \in [Program -> Content] /\ aside' = aside /\ moved' = moved
      <3>1. pc[u] \in {"move", "copy", "copying"}
        BY <1>4 DEF MoveAside, CopyBegins, CopyEnds
      <3>2. Current(u) \in Program
        BY <3>1, CurrentIsProgram
      <3>3. pc'[u] \in {"idle", "remove"}
        BY <2>2 DEF TypeOK
      <3> QED
        BY <1>4, <3>1, <3>2, <3>3 DEF MoveAside, CopyBegins, CopyEnds, Put, TypeOK, Content
    <2>5. UNCHANGED <<to, old, upgrades, kills>>
      BY <1>4 DEF MoveAside, CopyBegins, CopyEnds
    <2> QED
      BY <2>2, <2>3, <2>4, <2>5 DEF TypeOK, InRange
  <1>5. ASSUME NEW u \in Updater, MoveAside(u), ~RollBack(u) PROVE TypeOK' /\ InRange'
    <2>1. Current(u) \in Program /\ next[u] <= Len(Binaries)
      BY <1>5, CurrentIsProgram DEF MoveAside, InRange
    <2>2. /\ pc' = [pc EXCEPT ![u] = "copy"]
          /\ UNCHANGED <<next, errors, to, old, upgrades, kills>>
      BY <1>5 DEF MoveAside
    <2>3. \/ UNCHANGED <<file, aside, moved>>
          \/ /\ file' = [file EXCEPT ![Current(u)] = Missing]
             /\ aside' = [aside EXCEPT ![u][Current(u)] = file[Current(u)]]
             /\ moved' = [moved EXCEPT ![u] = @ \cup {Current(u)}]
      BY <1>5 DEF MoveAside, Put
    <2> HIDE DEF Current
    <2>4. /\ file' \in [Program -> Content] /\ aside' \in [Updater -> [Program -> Content]]
          /\ moved' \in [Updater -> SUBSET Program]
      <3>1. file[Current(u)] \in Content /\ Missing \in Content
        BY <2>1 DEF TypeOK, Content
      <3>2. CASE UNCHANGED <<file, aside, moved>>
        BY <3>2 DEF TypeOK
      <3>3. CASE /\ file' = [file EXCEPT ![Current(u)] = Missing]
                 /\ aside' = [aside EXCEPT ![u][Current(u)] = file[Current(u)]]
                 /\ moved' = [moved EXCEPT ![u] = @ \cup {Current(u)}]
        <4>1. aside' \in [Updater -> [Program -> Content]]
          <5>1. [aside EXCEPT ![u][Current(u)] = file[Current(u)]] \in [Updater -> [Program -> Content]]
            BY <2>1, <3>1, BackupType
          <5> QED
            BY <3>3, <5>1, Zenon
        <4>2. file' \in [Program -> Content]
          BY <3>1, <3>3 DEF TypeOK
        <4>3. moved[u] \cup {Current(u)} \in SUBSET Program
          BY <2>1 DEF TypeOK
        <4> QED
          BY <3>3, <4>1, <4>2, <4>3 DEF TypeOK
      <3> QED
        BY <2>3, <3>2, <3>3
    <2> QED
      BY <2>1, <2>2, <2>4 DEF TypeOK, InRange
  <1>6. ASSUME NEW u \in Updater, CopyBegins(u), ~RollBack(u) PROVE TypeOK' /\ InRange'
    <2>1. Current(u) \in Program /\ next[u] <= Len(Binaries)
      BY <1>6, CurrentIsProgram DEF CopyBegins, InRange
    <2>2. /\ pc' = [pc EXCEPT ![u] = "copying"] /\ file' = [file EXCEPT ![Current(u)] = Torn]
          /\ UNCHANGED <<aside, next, to, moved, old, errors, upgrades, kills>>
      BY <1>6 DEF CopyBegins, Put
    <2> HIDE DEF Current
    <2> QED
      BY <2>1, <2>2 DEF TypeOK, InRange, Content
  <1>11. ASSUME NEW u \in Updater, CopyEnds(u), ~RollBack(u) PROVE TypeOK' /\ InRange'
    <2>1. Current(u) \in Program /\ next[u] \in 1..Len(Binaries)
      BY <1>11, CurrentIsProgram, Places DEF CopyEnds
    <2>2. /\ pc' = [pc EXCEPT ![u] = IF next[u] < Len(Binaries) THEN "move" ELSE "clear"]
          /\ file' = [file EXCEPT ![Current(u)] = to[u]]
          /\ next' = [next EXCEPT ![u] = next[u] + 1]
          /\ UNCHANGED <<aside, to, moved, old, errors, upgrades, kills>>
      BY <1>11 DEF CopyEnds, Put
    <2>3. next[u] + 1 \in 1..Len(Binaries) + 1
      BY <1>0, <2>1
    <2>4. next[u] < Len(Binaries) => next[u] + 1 <= Len(Binaries)
      BY <1>0, <2>1
    <2> HIDE DEF Current
    <2> QED
      BY <2>1, <2>2, <2>3, <2>4 DEF TypeOK, InRange, Content
  <1>7. ASSUME NEW u \in Updater, RemoveNew(u) PROVE TypeOK' /\ InRange'
    <2>1. Current(u) \in Program /\ next[u] <= Len(Binaries)
      BY <1>7, CurrentIsProgram DEF RemoveNew, InRange
    <2>2. file' \in {file, [file EXCEPT ![Current(u)] = Missing]} /\ errors' \in {errors, errors + 1}
      BY <1>7 DEF RemoveNew, Put
    <2>3. errors' \in 0..MaxErrors
      BY <1>7, <2>2, Bounds DEF RemoveNew, TypeOK
    <2>4. pc' = [pc EXCEPT ![u] = "restore"] /\ UNCHANGED <<aside, to, next, moved, old, upgrades, kills>>
      BY <1>7 DEF RemoveNew
    <2> HIDE DEF Current
    <2> QED
      BY <2>1, <2>2, <2>3, <2>4 DEF TypeOK, InRange, Content
  <1>8. ASSUME NEW u \in Updater, RestoreOld(u) PROVE TypeOK' /\ InRange'
    <2> DEFINE left == moved[u] \ {Current(u)}
    <2>1. Current(u) \in Program /\ left \in SUBSET Program
      BY <1>8, CurrentIsProgram DEF RestoreOld, TypeOK
    <2>2. PutBack(u, left) /\ moved' = [moved EXCEPT ![u] = left]
      BY <1>8 DEF RestoreOld
    <2>3. /\ pc' = [pc EXCEPT ![u] = IF left = {} THEN "idle" ELSE "remove"]
          /\ next' \in [Updater -> 1..Len(Binaries) + 1]
          /\ \A v \in Updater \ {u} : next'[v] = next[v]
          /\ left # {} => next'[u] <= Len(Binaries)
      BY <2>1, <2>2, PutBackStep
    <2>4. /\ file' \in [Program -> Content] /\ aside' \in [Updater -> [Program -> Content]]
          /\ errors' \in 0..MaxErrors
      <3>1. \/ /\ file' = [file EXCEPT ![Current(u)] = aside[u][Current(u)]]
               /\ aside' = [aside EXCEPT ![u][Current(u)] = Missing] /\ errors' = errors
            \/ UNCHANGED <<file, aside>> /\ errors < MaxErrors /\ errors' = errors + 1
        BY <1>8 DEF RestoreOld, Put
      <3> HIDE DEF Current
      <3> QED
        <4>1. aside[u][Current(u)] \in Content /\ Missing \in Content
          BY <2>1 DEF TypeOK, Content
        <4>2. [aside EXCEPT ![u][Current(u)] = Missing] \in [Updater -> [Program -> Content]]
          BY <2>1, <4>1, BackupType
        <4>3. CASE UNCHANGED <<file, aside>> /\ errors < MaxErrors /\ errors' = errors + 1
          BY <4>3, Bounds DEF TypeOK
        <4>4. CASE /\ file' = [file EXCEPT ![Current(u)] = aside[u][Current(u)]]
                   /\ aside' = [aside EXCEPT ![u][Current(u)] = Missing] /\ errors' = errors
          <5>1. aside' \in [Updater -> [Program -> Content]]
            BY <4>2, <4>4, Zenon
          <5>2. file' \in [Program -> Content] /\ errors' \in 0..MaxErrors
            BY <4>1, <4>4 DEF TypeOK
          <5> QED
            BY <5>1, <5>2
        <4> QED
          BY <3>1, <4>3, <4>4
    <2>5. UNCHANGED <<to, old, upgrades, kills>> /\ moved' \in [Updater -> SUBSET Program]
      BY <1>8, <2>1 DEF RestoreOld, TypeOK
    <2> QED
      BY <2>3, <2>4, <2>5 DEF TypeOK, InRange
  <1>9. ASSUME NEW u \in Updater, ClearBackups(u) PROVE TypeOK' /\ InRange'
    BY <1>9 DEF ClearBackups, TypeOK, InRange, Content
  <1>10. ASSUME NEW u \in Updater, Kill(u) PROVE TypeOK' /\ InRange'
    BY <1>10, Bounds DEF Kill, TypeOK, InRange
  <1> QED
    BY <1>1, <1>2, <1>3, <1>4, <1>5, <1>6, <1>7, <1>8, <1>9, <1>10, <1>11
      DEF Next, Run

LEMMA TypeInit == Init => TypeOK /\ InRange
  <1> SUFFICES ASSUME Init PROVE TypeOK /\ InRange
    OBVIOUS
  <1>1. PICK r \in Release, S \in SUBSET Program :
          /\ file = [b \in Program |-> IF b \in S THEN r ELSE Missing]
          /\ to = [u \in Updater |-> r]
    BY DEF Init
  <1> QED
    BY <1>1, Places, Bounds DEF Init, TypeOK, InRange, Content

\* Every reachable state is well typed, for any number of updaters.
THEOREM TypeCorrect == Spec => []TypeOK
  <1>1. TypeOK /\ InRange /\ [Next]_vars => (TypeOK /\ InRange)'
    BY TypeStep
  <1> QED
    BY <1>1, TypeInit, PTL DEF Spec

-----------------------------------------------------------------------------
(* One updater *)

Solo == \A u, v \in Updater : u = v

\* The programs behind an updater, and behind it once it has done the one at hand.
LEMMA ReachedFacts ==
  ASSUME TypeOK, NEW u \in Updater, next[u] <= Len(Binaries)
  PROVE  /\ Current(u) \notin Reached(u)
         /\ {Binaries[i] : i \in 1..next[u]} = Reached(u) \cup {Current(u)}
         /\ next[u] = Len(Binaries) => Reached(u) \cup {Current(u)} = Program
  <1>1. next[u] \in 1..Len(Binaries) /\ Len(Binaries) \in Nat
    BY Places DEF TypeOK
  <1>2. Current(u) \notin Reached(u)
    BY <1>1, Places DEF Current, Reached
  <1>3. {Binaries[i] : i \in 1..next[u]} = Reached(u) \cup {Current(u)}
    <2>1. 1..next[u] = 1..(next[u] - 1) \cup {next[u]}
      BY <1>1
    <2> QED
      BY <2>1 DEF Current, Reached
  <1>4. ASSUME next[u] = Len(Binaries)
        PROVE  {Binaries[i] : i \in 1..next[u]} = Program
    BY <1>4, <1>1, Places
  <1> QED
    BY <1>2, <1>3, <1>4

\* An error turns an upgrade back: what it had not reached is as it was, and what it
\* had reached is aside.
LEMMA TurnBack ==
  ASSUME IInv, NEW u \in Updater, MoveAside(u) \/ CopyBegins(u) \/ CopyEnds(u), RollBack(u)
  PROVE  Local(u)'
  <1> DEFINE c == Current(u)
  <1>1. /\ TypeOK /\ InRange /\ Local(u) /\ pc[u] \in {"move", "copy", "copying"}
    BY DEF IInv, MoveAside, CopyBegins, CopyEnds
  <1>2. c \in Program /\ c \notin Reached(u) /\ moved[u] \in SUBSET Program
    BY <1>1, CurrentIsProgram, ReachedFacts DEF InRange, TypeOK
  <1>3. /\ pc'[u] = IF moved[u] = {} THEN "idle" ELSE "remove"
        /\ moved[u] # {} => Binaries[next'[u]] \in moved[u]
    BY <1>1, <1>2, PutBackStep DEF RollBack, TypeOK
  <1>4. /\ UNCHANGED <<aside, to, moved, old>> /\ errors' = errors + 1
    BY <1>1, <1>3 DEF MoveAside, CopyBegins, CopyEnds, Fails, Goto, TypeOK
  <1>5. file' = file \/ (pc[u] = "copying" /\ file' = [file EXCEPT ![c] = to[u]])
    <2>1. pc'[u] \in {"idle", "remove"}
      BY <1>3
    <2>2. CASE MoveAside(u)
      BY <1>1, <2>1, <2>2 DEF MoveAside, Goto, TypeOK
    <2>3. CASE CopyBegins(u)
      BY <1>1, <2>1, <2>3 DEF CopyBegins, Goto, TypeOK
    <2>4. CASE CopyEnds(u)
      <3>1. pc[u] = "copying" /\ pc'[u] \notin {"move", "clear"}
        BY <2>1, <2>4 DEF CopyEnds
      <3> QED
        BY <1>1, <2>4, <3>1 DEF CopyEnds, Goto, Put, TypeOK
    <2> QED
      BY <2>2, <2>3, <2>4
  <1>6. errors \in Nat
    BY <1>1, Bounds DEF TypeOK
  <1>7. pc[u] = "copying" => c \in moved[u] \/ old[u][c] = Missing
    BY <1>1 DEF Local, Forward
  <1> HIDE DEF c
  <1>8. BackupsAreOld(u)'
    BY <1>1, <1>4 DEF Local, BackupsAreOld
  <1>9. AllAreKept(u)'
    <2>1. AllAreKept(u) /\ \A b \in moved[u] : aside[u][b] = old[u][b]
      BY <1>1 DEF Local, BackupsAreOld
    <2>2. ASSUME NEW b \in Program PROVE old'[u][b] \in {Missing, file'[b], aside'[u][b]}
      BY <2>1, <1>1, <1>2, <1>4, <1>5, <1>7 DEF AllAreKept, TypeOK
    <2> QED
      BY <2>2 DEF AllAreKept
  <1>10. Backward(u)'
    <2> SUFFICES ASSUME pc'[u] = "remove"
                 PROVE  /\ Binaries[next'[u]] \in moved'[u] /\ errors' > 0
                        /\ errors' <= 1 /\ (\A b \in Program : old'[u][b] # Missing)
                             => \A b \in Program \ moved'[u] : file'[b] = old'[u][b]
      BY <1>3 DEF Backward, Current
    <2>1. Binaries[next'[u]] \in moved'[u] /\ errors' > 0
      BY <1>3, <1>4, <1>6
    <2>2. ASSUME \A b \in Program : old[u][b] # Missing, NEW b \in Program \ moved[u]
          PROVE  file'[b] = old[u][b]
      <3>1. \A x \in Reached(u) : x \in moved[u] \/ old[u][x] = Missing
        BY <1>1 DEF Local, Forward
      <3>2. b \notin Reached(u)
        BY <2>2, <3>1
      <3>3. b = c => pc[u] = "move"
        BY <1>1, <1>2, <2>2 DEF Local, Forward, c
      <3>4. \/ b \in Reached(u) /\ file[b] = to[u]
            \/ b \notin Reached(u) /\ file[b] = old[u][b] /\ b \notin moved[u]
            \/ b = c /\ pc[u] # "move"
        BY <1>1 DEF Local, Forward, c
      <3>5. file[b] = old[u][b]
        BY <3>2, <3>3, <3>4
      <3> QED
        BY <1>1, <1>2, <1>5, <3>3, <3>5 DEF TypeOK
    <2> QED
      BY <1>4, <2>1, <2>2
  <1>11. Forward(u)'
    BY <1>3 DEF Forward
  <1> QED
    BY <1>8, <1>9, <1>10, <1>11 DEF Local

LEMMA StartKeeps == ASSUME IInv, NEW u \in Updater, Solo, Start(u) PROVE Local(u)'
  <1>1. TypeOK /\ \A v \in Updater : v = u
    BY DEF IInv, Solo
  <1>2. file' = file /\ old' = [old EXCEPT ![u] = file] /\ pc'[u] \in {"idle", "stage"}
    BY <1>1 DEF Start, Goto, TypeOK
  <1>3. old'[u] = file'
    BY <1>1, <1>2 DEF TypeOK
  <1> QED
    BY <1>2, <1>3 DEF Local, AllAreKept, BackupsAreOld, Forward, Backward

LEMMA StageKeeps == ASSUME IInv, NEW u \in Updater, Stage(u) PROVE Local(u)'
  <1>1. TypeOK /\ Local(u) /\ pc[u] = "stage" /\ file = old[u] /\ AllAreKept(u)
    BY DEF IInv, Stage, Local, Forward
  <1>2. UNCHANGED <<file, aside, to, old>>
    BY DEF Stage
  <1>3. AllAreKept(u)'
    BY <1>1, <1>2 DEF AllAreKept
  <1>4. CASE pc' = [pc EXCEPT ![u] = "idle"]
    BY <1>1, <1>3, <1>4 DEF TypeOK, Local, BackupsAreOld, Forward, Backward
  <1>5. CASE pc' = [pc EXCEPT ![u] = "move"] /\ next'[u] = 1 /\ moved'[u] = {}
    <2>1. pc'[u] = "move" /\ Reached(u)' = {}
      BY <1>1, <1>5 DEF TypeOK, Reached
    <2> QED
      BY <1>1, <1>2, <1>3, <1>5, <2>1 DEF Local, BackupsAreOld, Forward, Backward
  <1> QED
    BY <1>1, <1>4, <1>5 DEF Stage, Goto, TypeOK

LEMMA MoveAsideKeeps ==
  ASSUME IInv, NEW u \in Updater, MoveAside(u), ~RollBack(u) PROVE Local(u)'
  <1> DEFINE c == Current(u)
  <1>1. TypeOK /\ InRange /\ Local(u) /\ pc[u] = "move"
    BY DEF IInv, MoveAside
  <1>2. c \in Program /\ c \notin Reached(u) /\ moved[u] \in SUBSET Program
    BY <1>1, CurrentIsProgram, ReachedFacts DEF InRange, TypeOK
  <1>3. pc'[u] = "copy" /\ UNCHANGED <<next, errors, to, old>>
    BY <1>1 DEF MoveAside, Goto, TypeOK
  <1>4. c' = c /\ Reached(u)' = Reached(u)
    BY <1>3 DEF Current, Reached
  <1>5. /\ AllAreKept(u) /\ file[c] = old[u][c] /\ c \notin moved[u]
        /\ \A b \in moved[u] : aside[u][b] = old[u][b]
    BY <1>1, <1>2 DEF Local, Forward, BackupsAreOld
  <1>6. CASE file[c] = Missing /\ UNCHANGED <<file, aside, moved>>
    <2>1. AllAreKept(u)' /\ BackupsAreOld(u)'
      BY <1>3, <1>5, <1>6 DEF AllAreKept, BackupsAreOld
    <2>2. Forward(u)'
      BY <1>1, <1>3, <1>4, <1>5, <1>6 DEF Local, Forward
    <2> QED
      BY <1>3, <2>1, <2>2 DEF Local, Backward
  <1>7. CASE /\ file' = [file EXCEPT ![c] = Missing]
             /\ aside' = [aside EXCEPT ![u][c] = file[c]]
             /\ moved' = [moved EXCEPT ![u] = @ \cup {c}]
    <2> HIDE DEF c
    <2>1. /\ aside'[u][c] = file[c] /\ \A b \in Program \ {c} : aside'[u][b] = aside[u][b]
          /\ \A b \in Program \ {c} : file'[b] = file[b]
          /\ moved'[u] = moved[u] \cup {c}
      BY <1>1, <1>2, <1>7 DEF TypeOK
    <2>2. AllAreKept(u)' /\ BackupsAreOld(u)'
      BY <1>2, <1>3, <1>5, <2>1 DEF AllAreKept, BackupsAreOld
    <2>3. Forward(u)'
      <3>1. /\ \A b \in Program : \/ b \in Reached(u) /\ file[b] = to[u]
                                  \/ b \notin Reached(u) /\ file[b] = old[u][b] /\ b \notin moved[u]
            /\ \A b \in Reached(u) : b \in moved[u] \/ old[u][b] = Missing
        BY <1>1 DEF Local, Forward
      <3>2. \A b \in Program : \/ b \in Reached(u)' /\ file'[b] = to'[u]
                               \/ /\ b \notin Reached(u)' /\ file'[b] = old'[u][b]
                                  /\ b \notin moved'[u]
                               \/ b = Current(u)'
        BY <1>3, <1>4, <2>1, <3>1 DEF c
      <3>3. /\ \A b \in Reached(u)' : b \in moved'[u] \/ old'[u][b] = Missing
            /\ Current(u)' \in moved'[u]
        BY <1>3, <1>4, <2>1, <3>1 DEF c
      <3> QED
        BY <1>3, <3>2, <3>3 DEF Forward
    <2> QED
      BY <1>3, <2>2, <2>3 DEF Local, Backward
  <1> QED
    BY <1>6, <1>7 DEF MoveAside, Put

LEMMA CopyBeginsKeeps ==
  ASSUME IInv, NEW u \in Updater, CopyBegins(u), ~RollBack(u) PROVE Local(u)'
  <1> DEFINE c == Current(u)
  <1>1. TypeOK /\ InRange /\ Local(u) /\ pc[u] = "copy"
    BY DEF IInv, CopyBegins
  <1>2. c \in Program /\ c \notin Reached(u)
    BY <1>1, CurrentIsProgram, ReachedFacts DEF InRange
  <1>3. /\ pc'[u] = "copying" /\ UNCHANGED <<next, errors, to, old, aside, moved>>
        /\ \A b \in Program \ {c} : file'[b] = file[b]
    BY <1>1 DEF CopyBegins, Goto, Put, TypeOK
  <1>4. c' = c /\ Reached(u)' = Reached(u)
    BY <1>3 DEF Current, Reached
  <1>5. c \in moved[u] \/ old[u][c] = Missing
    BY <1>1 DEF Local, Forward
  <1>6. AllAreKept(u) /\ \A b \in moved[u] : aside[u][b] = old[u][b]
    BY <1>1 DEF Local, BackupsAreOld
  <1>7. /\ \A b \in Program : \/ b \in Reached(u) /\ file[b] = to[u]
                              \/ b \notin Reached(u) /\ file[b] = old[u][b] /\ b \notin moved[u]
                              \/ b = c
        /\ \A b \in Reached(u) : b \in moved[u] \/ old[u][b] = Missing
    BY <1>1 DEF Local, Forward
  <1> HIDE DEF c
  <1>8. AllAreKept(u)' /\ BackupsAreOld(u)'
    BY <1>3, <1>5, <1>6 DEF AllAreKept, BackupsAreOld
  <1>9. Forward(u)'
    <2>1. \A b \in Program : \/ b \in Reached(u)' /\ file'[b] = to'[u]
                             \/ /\ b \notin Reached(u)' /\ file'[b] = old'[u][b]
                                /\ b \notin moved'[u]
                             \/ b = Current(u)'
      BY <1>3, <1>4, <1>7 DEF c
    <2>2. /\ \A b \in Reached(u)' : b \in moved'[u] \/ old'[u][b] = Missing
          /\ Current(u)' \in moved'[u] \/ old'[u][Current(u)'] = Missing
      BY <1>3, <1>4, <1>5, <1>7 DEF c
    <2> QED
      BY <1>3, <2>1, <2>2 DEF Forward
  <1> QED
    BY <1>3, <1>8, <1>9 DEF Local, Backward

LEMMA CopyEndsKeeps ==
  ASSUME IInv, NEW u \in Updater, CopyEnds(u), ~RollBack(u) PROVE Local(u)'
  <1> DEFINE c == Current(u)
  <1>1. TypeOK /\ InRange /\ Local(u) /\ pc[u] = "copying" /\ next[u] <= Len(Binaries)
    BY DEF IInv, CopyEnds, InRange
  <1>2. /\ c \in Program /\ c \notin Reached(u)
        /\ {Binaries[i] : i \in 1..next[u]} = Reached(u) \cup {c}
        /\ next[u] = Len(Binaries) => Reached(u) \cup {c} = Program
    BY <1>1, CurrentIsProgram, ReachedFacts
  <1>3. /\ pc'[u] = IF next[u] < Len(Binaries) THEN "move" ELSE "clear"
        /\ next'[u] = next[u] + 1 /\ UNCHANGED <<errors, to, old, aside, moved>>
        /\ file'[c] = to[u] /\ \A b \in Program \ {c} : file'[b] = file[b]
    BY <1>1, <1>2 DEF CopyEnds, Goto, Put, TypeOK
  <1>4. next[u] \in Nat /\ Len(Binaries) \in Nat
    BY <1>1, Places DEF TypeOK
  <1>5. Reached(u)' = Reached(u) \cup {c}
    <2>1. next'[u] - 1 = next[u]
      BY <1>3, <1>4
    <2> QED
      BY <1>2, <2>1 DEF Reached
  <1>6. c \in moved[u] \/ old[u][c] = Missing
    BY <1>1 DEF Local, Forward
  <1>7. AllAreKept(u) /\ \A b \in moved[u] : aside[u][b] = old[u][b]
    BY <1>1 DEF Local, BackupsAreOld
  <1>8. /\ \A b \in Program : \/ b \in Reached(u) /\ file[b] = to[u]
                              \/ b \notin Reached(u) /\ file[b] = old[u][b] /\ b \notin moved[u]
                              \/ b = c
        /\ \A b \in Reached(u) : b \in moved[u] \/ old[u][b] = Missing
    BY <1>1 DEF Local, Forward
  <1> HIDE DEF c
  <1>9. AllAreKept(u)' /\ BackupsAreOld(u)'
    BY <1>3, <1>6, <1>7 DEF AllAreKept, BackupsAreOld
  <1>10. \A b \in Program : \/ b \in Reached(u)' /\ file'[b] = to'[u]
                            \/ b \notin Reached(u)' /\ file'[b] = old'[u][b] /\ b \notin moved'[u]
    <2> SUFFICES ASSUME NEW b \in Program
                 PROVE  \/ b \in Reached(u)' /\ file'[b] = to'[u]
                        \/ b \notin Reached(u)' /\ file'[b] = old'[u][b] /\ b \notin moved'[u]
      OBVIOUS
    <2> HIDE DEF Reached
    <2>1. CASE b = c
      BY <1>3, <1>5, <2>1
    <2>2. CASE b # c
      <3>1. file'[b] = file[b] /\ to' = to /\ old' = old /\ moved' = moved
        BY <1>3, <2>2
      <3>2. b \in Reached(u)' <=> b \in Reached(u)
        BY <1>5, <2>2
      <3> QED
        BY <1>8, <2>2, <3>1, <3>2
    <2> QED
      BY <2>1, <2>2
  <1>11. \A b \in Reached(u)' : b \in moved'[u] \/ old'[u][b] = Missing
    BY <1>3, <1>5, <1>6, <1>8
  <1>12. Forward(u)'
    <2>1. CASE next[u] < Len(Binaries)
      BY <1>3, <1>10, <1>11, <2>1 DEF Forward
    <2>2. CASE ~(next[u] < Len(Binaries))
      <3>1. next[u] = Len(Binaries)
        BY <1>1, <1>4, <2>2
      <3>2. \A b \in Program : file'[b] = to'[u]
        BY <1>2, <1>5, <1>10, <3>1
      <3> QED
        BY <1>3, <2>2, <3>2 DEF Forward
    <2> QED
      BY <2>1, <2>2
  <1> QED
    BY <1>3, <1>9, <1>12 DEF Local, Backward

LEMMA RemoveNewKeeps == ASSUME IInv, NEW u \in Updater, RemoveNew(u) PROVE Local(u)'
  <1> DEFINE c == Current(u)
  <1>1. TypeOK /\ InRange /\ Local(u) /\ pc[u] = "remove"
    BY DEF IInv, RemoveNew
  <1>2. /\ pc'[u] = "restore" /\ UNCHANGED <<next, to, old, aside, moved>>
        /\ \A b \in Program \ {c} : file'[b] = file[b]
        /\ errors' = errors \/ errors' = errors + 1
    BY <1>1 DEF RemoveNew, Goto, Fails, Put, TypeOK
  <1>3. c' = c /\ errors \in Nat
    BY <1>1, <1>2, Bounds DEF Current, TypeOK
  <1>4. /\ AllAreKept(u) /\ c \in moved[u] /\ errors > 0
        /\ \A b \in moved[u] : aside[u][b] = old[u][b]
        /\ errors <= 1 /\ (\A b \in Program : old[u][b] # Missing)
             => \A b \in Program \ moved[u] : file[b] = old[u][b]
    BY <1>1 DEF Local, BackupsAreOld, Backward
  <1> HIDE DEF c
  <1>5. AllAreKept(u)' /\ BackupsAreOld(u)'
    BY <1>2, <1>4 DEF AllAreKept, BackupsAreOld
  <1>6. Backward(u)'
    <2>1. Current(u)' \in moved'[u] /\ errors' > 0 /\ (errors' <= 1 => errors <= 1)
      BY <1>2, <1>3, <1>4 DEF c
    <2>2. \A b \in Program \ moved'[u] : file'[b] = file[b]
      BY <1>2, <1>4
    <2> QED
      BY <1>2, <1>4, <2>1, <2>2 DEF Backward
  <1> QED
    BY <1>2, <1>5, <1>6 DEF Local, Forward

\* What a rollback that has seen one error leaves: the programs it has put back.
LEMMA RestoreOldKeeps ==
  ASSUME IInv, NEW u \in Updater, RestoreOld(u)
  PROVE  /\ Local(u)'
         /\ errors' <= 1 /\ (\A b \in Program : old[u][b] # Missing) /\ pc'[u] = "idle"
              => \A b \in Program : file'[b] = old[u][b]
  <1> DEFINE c == Current(u)
             left == moved[u] \ {c}
  <1>1. TypeOK /\ InRange /\ Local(u) /\ pc[u] = "restore"
    BY DEF IInv, RestoreOld
  <1>2. c \in Program /\ left \in SUBSET Program /\ errors \in Nat
    BY <1>1, CurrentIsProgram, Bounds DEF TypeOK
  <1>3. /\ pc'[u] = IF left = {} THEN "idle" ELSE "remove"
        /\ left # {} => Binaries[next'[u]] \in left
    <2>1. PutBack(u, left)
      BY DEF RestoreOld
    <2> HIDE DEF left
    <2> QED
      BY <1>1, <1>2, <2>1, PutBackStep DEF TypeOK
  <1>4. UNCHANGED <<to, old>> /\ moved'[u] = left
    BY <1>1 DEF RestoreOld, TypeOK
  <1>5. /\ AllAreKept(u) /\ c \in moved[u] /\ errors > 0
        /\ \A b \in moved[u] : aside[u][b] = old[u][b]
        /\ errors <= 1 /\ (\A b \in Program : old[u][b] # Missing)
             => \A b \in Program \ moved[u] : file[b] = old[u][b]
    BY <1>1 DEF Local, BackupsAreOld, Backward
  <1>6. \/ /\ file' = [file EXCEPT ![c] = aside[u][c]]
           /\ aside' = [aside EXCEPT ![u][c] = Missing] /\ errors' = errors
        \/ UNCHANGED <<file, aside>> /\ errors' = errors + 1
    BY DEF RestoreOld, Put, Fails
  <1> HIDE DEF c
  <1>7. /\ \/ file'[c] = aside[u][c] /\ errors' = errors
           \/ UNCHANGED <<file, aside>> /\ errors' > 1
        /\ errors' \in Nat
        /\ \A b \in Program \ {c} : file'[b] = file[b] /\ aside'[u][b] = aside[u][b]
    BY <1>1, <1>2, <1>5, <1>6 DEF TypeOK
  <1>8. AllAreKept(u)'
    BY <1>4, <1>5, <1>7 DEF AllAreKept
  <1>9. \A b \in moved'[u] : aside'[u][b] = old'[u][b]
    BY <1>1, <1>4, <1>5, <1>7 DEF TypeOK
  <1>10. ASSUME errors' <= 1, \A b \in Program : old[u][b] # Missing
         PROVE  \A b \in Program \ moved'[u] : file'[b] = old[u][b]
    <2>1. file'[c] = aside[u][c] /\ errors' = errors
      BY <1>7, <1>10, <1>2
    <2>2. \A b \in Program \ moved[u] : file[b] = old[u][b]
      BY <1>5, <1>10, <2>1
    <2> QED
      BY <1>4, <1>5, <1>7, <2>1, <2>2
  <1>11. Backward(u)'
    <2>1. errors' > 0
      BY <1>2, <1>5, <1>7
    <2>2. pc'[u] = "remove" => Current(u)' \in moved'[u]
      BY <1>3, <1>4 DEF Current
    <2> QED
      BY <1>3, <1>4, <1>10, <2>1, <2>2 DEF Backward
  <1>12. Local(u)'
    BY <1>3, <1>8, <1>9, <1>11 DEF Local, BackupsAreOld, Forward
  <1>13. left = {} => \A b \in Program : b \notin moved'[u]
    BY <1>4
  <1> QED
    BY <1>3, <1>10, <1>12, <1>13

LEMMA ClearBackupsKeeps == ASSUME IInv, NEW u \in Updater, ClearBackups(u) PROVE Local(u)'
  <1>1. /\ TypeOK /\ pc[u] = "clear" /\ \A b \in Program : file[b] = to[u]
    BY DEF IInv, ClearBackups, Local, Forward
  <1>2. pc'[u] = "idle" /\ UNCHANGED <<file, to>>
    BY <1>1 DEF ClearBackups, Goto, TypeOK
  <1> QED
    BY <1>1, <1>2 DEF Local, BackupsAreOld, Forward, Backward

LEMMA KillKeeps == ASSUME IInv, NEW u \in Updater, Kill(u) PROVE Local(u)'
  <1>1. TypeOK /\ Local(u)
    BY DEF IInv
  <1>2. pc'[u] = "idle" /\ UNCHANGED <<file, aside, to, old>>
    BY <1>1 DEF Kill, Goto, TypeOK
  <1> QED
    BY <1>1, <1>2 DEF Local, AllAreKept, BackupsAreOld, Forward, Backward

-----------------------------------------------------------------------------

LEMMA InvStep == ASSUME Solo, IInv, [Next]_vars PROVE IInv'
  <1>1. TypeOK' /\ InRange'
    BY TypeStep DEF IInv
  <1>2. ASSUME NEW v \in Updater PROVE Local(v)'
    <2>1. CASE UNCHANGED vars
      <3>1. Local(v)
        BY DEF IInv
      <3> QED
        BY <2>1, <3>1 DEF vars, counters, Local, AllAreKept, BackupsAreOld, Forward, Backward,
           Current, Reached
    <2>2. ASSUME NEW u \in Updater, Start(u) \/ Run(u) \/ Kill(u) PROVE Local(v)'
      <3>1. v = u
        BY DEF Solo
      <3>2. Local(u)'
        BY <2>2, StartKeeps, StageKeeps, TurnBack, MoveAsideKeeps, CopyBeginsKeeps,
           CopyEndsKeeps, RemoveNewKeeps, RestoreOldKeeps, ClearBackupsKeeps, KillKeeps, Zenon
           DEF Run
      <3> QED
        BY <3>1, <3>2
    <2> QED
      BY <2>1, <2>2 DEF Next
  <1> QED
    BY <1>1, <1>2 DEF IInv

LEMMA InvInit == Init => IInv
  <1> SUFFICES ASSUME Init PROVE IInv
    OBVIOUS
  <1>1. ASSUME NEW u \in Updater PROVE Local(u)
    BY DEF Init, Local, AllAreKept, BackupsAreOld, Forward, Backward
  <1> QED
    BY <1>1, TypeInit DEF IInv

\* An old program can be recovered until the upgrade is whole, whatever the number of
\* programs, kills and errors, when one upgrade runs at a time.
THEOREM Recoverable == Solo => (Spec => []OldIsRecoverable)
  <1> SUFFICES ASSUME Solo PROVE Spec => []OldIsRecoverable
    OBVIOUS
  <1>1. IInv /\ [Next]_vars => IInv'
    BY InvStep
  <1>2. IInv => OldIsRecoverable
    BY DEF IInv, Local, AllAreKept, OldIsRecoverable
  <1> QED
    BY <1>1, <1>2, InvInit, PTL DEF Spec

\* An upgrade that one error stops before it has moved anything has changed nothing.
LEMMA NothingMoved ==
  ASSUME IInv, NEW u \in Updater, MoveAside(u) \/ CopyBegins(u) \/ CopyEnds(u), RollBack(u),
         moved[u] = {}, \A b \in Program : old[u][b] # Missing
  PROVE  file' = old[u]
  <1>1. /\ TypeOK /\ InRange /\ Local(u) /\ pc[u] \in {"move", "copy", "copying"}
    BY DEF IInv, MoveAside, CopyBegins, CopyEnds
  <1>2. Current(u) \in Program /\ Reached(u) \subseteq Program
    <2>1. next[u] \in DOMAIN Binaries
      BY <1>1, CurrentIsProgram
    <2> QED
      BY <1>1, <2>1, CurrentIsProgram, Places DEF Reached
  <1>3. pc[u] = "move"
    BY <1>1, <1>2 DEF Local, Forward
  <1>4. Reached(u) = {}
    BY <1>1, <1>2 DEF Local, Forward
  <1>5. \A b \in Program : file[b] = old[u][b]
    BY <1>1, <1>3, <1>4 DEF Local, Forward
  <1>6. pc' = [pc EXCEPT ![u] = "idle"] /\ MoveAside(u)
    BY <1>3 DEF RollBack, PutBack, Goto, MoveAside, CopyBegins, CopyEnds
  <1>7. file' = file
    BY <1>1, <1>6 DEF MoveAside, Goto, TypeOK
  <1> QED
    BY <1>1, <1>5, <1>7 DEF TypeOK

LEMMA TogetherStep ==
  ASSUME Solo, IInv, Next, NEW u \in Updater, pc[u] \notin {"idle", "stage"}, pc'[u] = "idle",
         kills' = kills
  PROVE  IF pc[u] = "clear" THEN \A b \in Program : file'[b] = to[u]
         ELSE errors' <= 1 /\ (\A b \in Program : old[u][b] # Missing) => file' = old[u]
  <1>0. TypeOK /\ Local(u) /\ kills \in Nat
    BY Bounds DEF IInv, TypeOK
  <1>1. Run(u)
    BY <1>0 DEF Next, Solo, Start, Kill
  <1>2. CASE ClearBackups(u)
    BY <1>0, <1>2 DEF ClearBackups, Local, Forward
  <1>3. CASE RestoreOld(u)
    <2> SUFFICES ASSUME errors' <= 1, \A b \in Program : old[u][b] # Missing
                 PROVE  file' = old[u]
      BY <1>3 DEF RestoreOld
    <2>1. \A b \in Program : file'[b] = old[u][b]
      BY <1>3, RestoreOldKeeps
    <2>2. file' \in [Program -> Content] /\ old[u] \in [Program -> Content]
      BY <1>0, TypeStep DEF IInv, TypeOK
    <2> QED
      BY <2>1, <2>2
  <1>4. CASE MoveAside(u) \/ CopyBegins(u) \/ CopyEnds(u)
    <2>1. RollBack(u)
      BY <1>0, <1>4 DEF MoveAside, CopyBegins, CopyEnds, Goto, TypeOK
    <2>2. moved[u] = {}
      BY <1>0, <2>1 DEF RollBack, PutBack, Goto, TypeOK
    <2>3. pc[u] # "clear"
      BY <1>4 DEF MoveAside, CopyBegins, CopyEnds
    <2> QED
      BY <1>4, <2>1, <2>2, <2>3, NothingMoved
  <1>5. CASE Stage(u) \/ RemoveNew(u)
    BY <1>0, <1>5 DEF Stage, RemoveNew, Goto, TypeOK
  <1> QED
    BY <1>1, <1>2, <1>3, <1>4, <1>5 DEF Run

\* An upgrade that ends by itself has replaced all the programs, or, after one error,
\* none, when one upgrade runs at a time.
THEOREM Together == Solo => (Spec => AllOrNothing)
  <1> SUFFICES ASSUME Solo PROVE Spec => AllOrNothing
    OBVIOUS
  <1>1. IInv /\ [Next]_vars => IInv'
    BY InvStep
  <1>2. IInv /\ [Next]_vars =>
          [\A u \in Updater : pc[u] \notin {"idle", "stage"} /\ pc'[u] = "idle" /\ kills' = kills =>
             IF pc[u] = "clear" THEN \A b \in Program : file'[b] = to[u]
             ELSE errors' <= 1 /\ (\A b \in Program : old[u][b] # Missing)
                    => file' = old[u]]_vars
    BY TogetherStep
  <1> QED
    BY <1>1, <1>2, InvInit, PTL DEF Spec, AllOrNothing
=============================================================================
