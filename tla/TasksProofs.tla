---------------------------- MODULE TasksProofs ----------------------------
(***************************************************************************)
(* Proofs about TaskPlan, and about the threads of TaskRunner.             *)
(*                                                                         *)
(* Whatever tasks are declared, and however they depend on, group and wait *)
(* for each other: the plan has each task that the named one leads to once *)
(* and no other, what is listed for a task is what it depends on, a cycle  *)
(* is reported exactly if there is one, until a hint moves a task every    *)
(* task follows those it depends on, and simple hints are followed.        *)
(*                                                                         *)
(* Whatever the plans, the size of a batch and the errors: what the stacks *)
(* of the threads look like at any time, what each step does to them, that *)
(* teardowns are run, and that what is skipped is current.                 *)
(***************************************************************************)
EXTENDS TaskPlan, TaskRunner, SequenceTheorems, FiniteSetTheorems, WellFoundedInduction, TLAPS

-----------------------------------------------------------------------------
(* Sequences and least numbers *)

LEMMA FrontFacts ==
  ASSUME NEW S, NEW s \in Seq(S), s # <<>>
  PROVE  /\ Front(s) \in Seq(S) /\ Len(Front(s)) = Len(s) - 1 /\ Last(s) \in S
         /\ Len(s) \in Nat \ {0}
         /\ \A i \in 1..(Len(s) - 1) : Front(s)[i] = s[i]
  <1>1. Len(s) \in Nat \ {0} /\ \A i \in 1..Len(s) : s[i] \in S
    BY EmptySeq, LenProperties, ElementOfSeq
  <1>2. \A i \in 1..(Len(s) - 1) : s[i] \in S
    BY <1>1
  <1> DEFINE n == Len(s) - 1
  <1>3. /\ SubSeq(s, 1, n) \in Seq(S)
        /\ Len(SubSeq(s, 1, n)) = IF 1 <= n THEN n - 1 + 1 ELSE 0
        /\ \A i \in 1..(n - 1 + 1) : SubSeq(s, 1, n)[i] = s[1 + i - 1]
    <2>1. n \in Int
      BY <1>1
    <2> HIDE DEF n
    <2> QED
      BY <1>2, <2>1, SubSeqProperties DEF n
  <1>4. /\ Front(s) \in Seq(S)
        /\ Len(Front(s)) = IF 1 <= n THEN n - 1 + 1 ELSE 0
        /\ \A i \in 1..(n - 1 + 1) : Front(s)[i] = s[1 + i - 1]
    BY <1>3, Zenon DEF Front
  <1>5. Len(Front(s)) = n /\ \A i \in 1..n : Front(s)[i] = s[i]
    <2>1. n \in Nat
      BY <1>1
    <2> HIDE DEF n
    <2>2. n - 1 + 1 = n
      BY <2>1
    <2>3. Len(Front(s)) = n
      BY <1>4, <2>1
    <2>4. \A i \in 1..n : Front(s)[i] = s[1 + i - 1]
      BY <1>4, <2>2
    <2>5. \A i \in 1..n : 1 + i - 1 = i
      BY <2>1
    <2> QED
      BY <2>3, <2>4, <2>5
  <1>6. Last(s) \in S
    BY <1>1 DEF Last
  <1> QED
    BY <1>1, <1>4, <1>5, <1>6

\* A step of the innermost frame: the frames below are untouched.
LEMMA TopReplaced ==
  ASSUME NEW S, NEW s \in Seq(S), s # <<>>, NEW x \in S
  PROVE  /\ Append(Front(s), x) \in Seq(S) /\ Len(Append(Front(s), x)) = Len(s)
         /\ \A i \in 1..(Len(s) - 1) : Append(Front(s), x)[i] = s[i]
         /\ Append(Front(s), x)[Len(s)] = x
  BY FrontFacts, AppendProperties

LEMMA MinExists ==
  ASSUME NEW S, S \subseteq Nat, S # {}
  PROVE  Min(S) \in S /\ \A n \in S : Min(S) <= n
  <1> DEFINE R == OpToRel(<, Nat)
  <1>1. \E m \in S : \A n \in S : ~(<<n, m>> \in R)
    <2>1. IsWellFoundedOn(R, Nat)
      BY NatLessThanWellFounded
    <2> HIDE DEF R
    <2> QED
      BY <2>1, WFMin
  <1>2. PICK m \in S : \A n \in S : ~(<<n, m>> \in R)
    BY <1>1
  <1>3. ASSUME NEW n \in S, n < m PROVE <<n, m>> \in R
    BY <1>3, Zenon DEF OpToRel
  <1> HIDE DEF R
  <1>4. ASSUME NEW n \in S PROVE m <= n
    <2>1. m \in Nat /\ n \in Nat
      OBVIOUS
    <2>2. ~(n < m)
      BY <1>2, <1>3
    <2> QED
      BY <2>1, <2>2
  <1> QED
    BY <1>4 DEF Min

\* The tasks of a sequence of tasks.
LEMMA Members ==
  ASSUME NEW s \in Seq(Task)
  PROVE  ToSet(s) \subseteq Task /\ DOMAIN s = 1..Len(s) /\ Len(s) \in Nat
  BY ElementOfSeq, LenProperties DEF ToSet

LEMMA AppendMembers ==
  ASSUME NEW s \in Seq(Task), NEW t \in Task
  PROVE  ToSet(Append(s, t)) = ToSet(s) \cup {t}
  <1>1. /\ Append(s, t) \in Seq(Task) /\ Len(Append(s, t)) = Len(s) + 1
        /\ Append(s, t)[Len(s) + 1] = t /\ \A i \in 1..Len(s) : Append(s, t)[i] = s[i]
    BY AppendProperties
  <1>2. Len(s) \in Nat /\ DOMAIN s = 1..Len(s) /\ DOMAIN Append(s, t) = 1..(Len(s) + 1)
    BY <1>1, LenProperties
  <1>3. 1..(Len(s) + 1) = (1..Len(s)) \cup {Len(s) + 1}
    BY <1>2
  <1> QED
    BY <1>1, <1>2, <1>3 DEF ToSet

LEMMA HeadTailMembers ==
  ASSUME NEW s \in Seq(Task), s # <<>>
  PROVE  /\ Head(s) \in Task /\ Tail(s) \in Seq(Task)
         /\ ToSet(s) = {Head(s)} \cup ToSet(Tail(s))
  <1>1. /\ Head(s) = s[1] /\ Head(s) \in Task /\ Tail(s) \in Seq(Task)
        /\ Len(Tail(s)) = Len(s) - 1 /\ \A i \in 1..(Len(s) - 1) : Tail(s)[i] = s[i + 1]
    BY HeadTailProperties
  <1>2. Len(s) \in Nat \ {0} /\ DOMAIN s = 1..Len(s) /\ DOMAIN Tail(s) = 1..(Len(s) - 1)
    BY <1>1, LenProperties, EmptySeq
  <1>3. \A i \in 1..Len(s) : i = 1 \/ (i - 1 \in 1..(Len(s) - 1) /\ (i - 1) + 1 = i)
    BY <1>2
  <1>4. \A i \in 1..(Len(s) - 1) : i + 1 \in 1..Len(s)
    BY <1>2
  <1>5. ASSUME NEW i \in 1..Len(s) PROVE s[i] \in {Head(s)} \cup ToSet(Tail(s))
    <2>1. CASE i = 1
      BY <1>1, <2>1
    <2>2. CASE i # 1
      <3>1. i - 1 \in 1..(Len(s) - 1) /\ (i - 1) + 1 = i
        BY <1>3, <2>2
      <3>2. s[i] = Tail(s)[i - 1]
        BY <1>1, <3>1
      <3> QED
        BY <1>2, <3>1, <3>2 DEF ToSet
    <2> QED
      BY <2>1, <2>2
  <1>6. 1 \in 1..Len(s)
    BY <1>2
  <1> QED
    BY <1>1, <1>2, <1>4, <1>5, <1>6 DEF ToSet

LEMMA FrontLastMembers ==
  ASSUME NEW s \in Seq(Task), s # <<>>
  PROVE  ToSet(s) = ToSet(Front(s)) \cup {Last(s)} /\ Last(s) \in Task /\ Front(s) \in Seq(Task)
  <1>1. /\ Front(s) \in Seq(Task) /\ Len(Front(s)) = Len(s) - 1 /\ Last(s) \in Task
        /\ Len(s) \in Nat \ {0} /\ \A i \in 1..(Len(s) - 1) : Front(s)[i] = s[i]
    BY FrontFacts
  <1>2. DOMAIN s = 1..Len(s) /\ DOMAIN Front(s) = 1..(Len(s) - 1) /\ Last(s) = s[Len(s)]
    BY <1>1, LenProperties DEF Last
  <1>3. 1..Len(s) = (1..(Len(s) - 1)) \cup {Len(s)}
    BY <1>1
  <1> QED
    BY <1>1, <1>2, <1>3 DEF ToSet

LEMMA EmptyMembers == ToSet(<<>>) = {}
  BY DEF ToSet

-----------------------------------------------------------------------------
(* The tasks of a sequence that are in a set *)

\* f[n] is the first n tasks of s that are in S.
KeepsThose(f, s, last, S) ==
  \A n \in 0..last :
    f[n] = IF n = 0 THEN <<>> ELSE IF s[n] \in S THEN Append(f[n - 1], s[n]) ELSE f[n - 1]

\* The recursion of Among has a solution, and Among is its last value.
LEMMA AmongDefined ==
  ASSUME NEW s \in Seq(Task), NEW last \in Nat, Len(s) = last, NEW S
  PROVE  \E f : KeepsThose(f, s, last, S) /\ Among(s, S) = f[last]
  <1> DEFINE Value(f, n) == IF n = 0 THEN <<>>
                            ELSE IF s[n] \in S THEN Append(f[n - 1], s[n]) ELSE f[n - 1]
             Solved(m) == \E f : f = [n \in 0..m |-> Value(f, n)]
  <1>1. Solved(0)
    <2>1. [n \in 0..0 |-> <<>>] = [n \in 0..0 |-> Value([k \in 0..0 |-> <<>>], n)]
      OBVIOUS
    <2> QED
      BY <2>1
  <1>2. ASSUME NEW m \in Nat \ {0}, Solved(m - 1) PROVE Solved(m)
    <2>1. PICK f : f = [n \in 0..(m - 1) |-> Value(f, n)]
      BY <1>2
    <2> DEFINE g == [n \in 0..m |-> IF n < m THEN f[n] ELSE Value(f, m)]
    <2>2. ASSUME NEW n \in 0..m PROVE g[n] = Value(g, n)
      <3>1. CASE n = 0
        <4>1. g[0] = f[0]
          BY <3>1
        <4>2. f[0] = Value(f, 0)
          BY <2>1
        <4> QED
          BY <3>1, <4>1, <4>2
      <3>2. CASE n # 0
        <4>1. n - 1 \in 0..(m - 1) /\ n - 1 \in 0..m /\ n - 1 < m
          BY <3>2
        <4>2. g[n - 1] = f[n - 1]
          BY <4>1
        <4>3. g[n] = Value(f, n)
          <5>1. CASE n < m
            <6>1. g[n] = f[n] /\ n \in 0..(m - 1)
              BY <5>1
            <6> QED
              BY <2>1, <6>1
          <5>2. CASE n = m
            BY <5>2
          <5> QED
            BY <5>1, <5>2
        <4> QED
          BY <3>2, <4>2, <4>3
      <3> QED
        BY <3>1, <3>2
    <2> HIDE DEF Value
    <2>3. g = [n \in 0..m |-> Value(g, n)]
      BY <2>2
    <2> QED
      BY <2>3
  <1> HIDE DEF Solved
  <1>3. \A m \in Nat : Solved(m)
    <2>1. SUFFICES ASSUME {m \in Nat : ~Solved(m)} # {} PROVE FALSE
      OBVIOUS
    <2>2. PICK m \in Nat : ~Solved(m) /\ \A n \in Nat : ~Solved(n) => m <= n
      BY <2>1, MinExists
    <2>3. m # 0
      BY <1>1, <2>2
    <2>4. m - 1 \in Nat /\ ~(m <= m - 1)
      BY <2>3
    <2> QED
      BY <1>2, <2>2, <2>3, <2>4
  <1>4. Len(s) \in Nat
    BY LenProperties
  <1> DEFINE chosen == CHOOSE f : f = [n \in 0..Len(s) |-> Value(f, n)]
  <1>5. Solved(Len(s))
    BY <1>3, <1>4
  <1>6. chosen = [n \in 0..Len(s) |-> Value(chosen, n)]
    <2> HIDE DEF Value
    <2> QED
      BY <1>5, Zenon DEF Solved
  <1>7. Among(s, S) = chosen[Len(s)]
    BY Zenon DEF Among
  <1> HIDE DEF chosen
  <1>8. \A n \in 0..last : chosen[n] = Value(chosen, n)
    <2> HIDE DEF Value
    <2> QED
      BY <1>6
  <1>9. Among(s, S) = chosen[last]
    BY <1>7
  <1>10. KeepsThose(chosen, s, last, S)
    BY <1>8, Zenon DEF KeepsThose
  <1> QED
    BY <1>9, <1>10, Zenon

\* When only the last of a sequence is left out, its front is left.
LEMMA AmongLast ==
  ASSUME NEW s \in Seq(Task), NEW n \in Nat \ {0}, Len(s) = n,
         NEW S, s[n] \notin S, \A i \in 1..(n - 1) : s[i] \in S
  PROVE  /\ Among(s, S) \in Seq(Task) /\ Len(Among(s, S)) = n - 1
         /\ \A i \in 1..(n - 1) : Among(s, S)[i] = s[i]
  <1>0. n \in Nat
    OBVIOUS
  <1>1. PICK f : KeepsThose(f, s, n, S) /\ Among(s, S) = f[n]
    BY <1>0, AmongDefined
  <1> DEFINE Prefix(m) == f[m] \in Seq(Task) /\ Len(f[m]) = m /\ \A i \in 1..m : f[m][i] = s[i]
  <1>2. Prefix(0)
    <2>1. f[0] = <<>>
      BY <1>1 DEF KeepsThose
    <2> QED
      BY <2>1, EmptySeq
  <1>3. ASSUME NEW m \in 1..(n - 1), Prefix(m - 1) PROVE Prefix(m)
    <2>1. m \in 0..n /\ m # 0 /\ s[m] \in S
      OBVIOUS
    <2>2. f[m] = Append(f[m - 1], s[m])
      BY <1>1, <2>1 DEF KeepsThose
    <2>3. s[m] \in Task
      <3>1. m \in 1..Len(s)
        OBVIOUS
      <3> QED
        BY <3>1, ElementOfSeq
    <2>4. /\ f[m] \in Seq(Task) /\ Len(f[m]) = (m - 1) + 1 /\ f[m][(m - 1) + 1] = s[m]
          /\ \A i \in 1..(m - 1) : f[m][i] = s[i]
      BY <1>3, <2>2, <2>3, AppendProperties
    <2>5. (m - 1) + 1 = m /\ \A i \in 1..m : i = m \/ i \in 1..(m - 1)
      OBVIOUS
    <2> QED
      BY <2>4, <2>5
  <1> HIDE DEF Prefix
  <1>4. \A m \in 0..(n - 1) : Prefix(m)
    <2> DEFINE worse == {m \in 0..(n - 1) : ~Prefix(m)}
    <2>1. SUFFICES ASSUME worse # {} PROVE FALSE
      OBVIOUS
    <2>2. PICK m \in 0..(n - 1) : ~Prefix(m) /\ \A k \in 0..(n - 1) : ~Prefix(k) => m <= k
      <3>1. worse \subseteq Nat
        OBVIOUS
      <3>2. \A m \in worse : m \in 0..(n - 1) /\ ~Prefix(m)
        OBVIOUS
      <3>3. \A m \in 0..(n - 1) : ~Prefix(m) => m \in worse
        OBVIOUS
      <3> HIDE DEF worse
      <3>4. Min(worse) \in worse /\ \A k \in worse : Min(worse) <= k
        BY <2>1, <3>1, MinExists
      <3> QED
        BY <3>2, <3>3, <3>4
    <2>3. m # 0
      BY <1>2, <2>2
    <2>4. m \in 1..(n - 1) /\ m - 1 \in 0..(n - 1) /\ ~(m <= m - 1)
      BY <2>3
    <2> QED
      BY <1>3, <2>2, <2>4
  <1>5. Prefix(n - 1)
    BY <1>4
  <1>6. f[n] = f[n - 1]
    BY <1>1 DEF KeepsThose
  <1> QED
    BY <1>1, <1>5, <1>6 DEF Prefix

\* When only the last of a sequence is taken out, its front is left.
LEMMA AmongOthers ==
  ASSUME NEW s \in Seq(Task), NEW n \in Nat \ {0}, Len(s) = n,
         NEW c, s[n] = c, \A i \in 1..(n - 1) : s[i] # c
  PROVE  /\ Among(s, Task \ {c}) \in Seq(Task) /\ Len(Among(s, Task \ {c})) = n - 1
         /\ \A i \in 1..(n - 1) : Among(s, Task \ {c})[i] = s[i]
  <1>1. PICK S : S = Task \ {c}
    OBVIOUS
  <1>2. \A i \in 1..(n - 1) : s[i] \in Task
    OBVIOUS
  <1>3. s[n] \notin S /\ \A i \in 1..(n - 1) : s[i] \in S
    BY <1>1, <1>2
  <1>4. /\ Among(s, S) \in Seq(Task) /\ Len(Among(s, S)) = n - 1
        /\ \A i \in 1..(n - 1) : Among(s, S)[i] = s[i]
    BY <1>3, AmongLast
  <1> QED
    BY <1>1, <1>4

\* What holds at 0 and goes on from each number to the next holds up to n.
LEMMA UpTo ==
  ASSUME NEW n \in Nat, NEW S, 0 \in S, \A m \in 0..(n - 1) : m \in S => m + 1 \in S
  PROVE  \A m \in 0..n : m \in S
  <1> SUFFICES ASSUME NEW k \in 0..n, k \notin S PROVE FALSE
    OBVIOUS
  <1> DEFINE worse == {m \in 0..n : m \notin S}
  <1>1. worse \subseteq Nat /\ worse # {}
    OBVIOUS
  <1>2. Min(worse) \in worse /\ \A m \in worse : Min(worse) <= m
    BY <1>1, MinExists
  <1>3. PICK m \in 0..n : m \notin S /\ \A l \in 0..n : l \notin S => m <= l
    BY <1>2
  <1>4. m # 0
    BY <1>3
  <1>5. m - 1 \in 0..(n - 1) /\ m - 1 \in 0..n /\ (m - 1) + 1 = m /\ ~(m <= m - 1)
    BY <1>4
  <1> QED
    BY <1>3, <1>5

LEMMA AmongMembers ==
  ASSUME NEW s \in Seq(Task), NEW S
  PROVE  Among(s, S) \in Seq(Task) /\ ToSet(Among(s, S)) = ToSet(s) \cap S
  <1> DEFINE n == Len(s)
  <1>1. n \in Nat /\ ToSet(s) = {s[i] : i \in 1..n}
    BY Members DEF ToSet
  <1>2. PICK f : KeepsThose(f, s, n, S) /\ Among(s, S) = f[n]
    BY <1>1, AmongDefined
  <1>3. \A i \in 1..n : s[i] \in Task
    BY ElementOfSeq
  <1> HIDE DEF n
  <1> DEFINE Done == {m \in 0..n : /\ f[m] \in Seq(Task)
                                   /\ ToSet(f[m]) = {s[i] : i \in 1..m} \cap S}
  <1>4. 0 \in Done
    <2>1. f[0] = <<>> /\ 0 \in 0..n
      BY <1>1, <1>2 DEF KeepsThose
    <2>2. {s[i] : i \in 1..0} = {}
      OBVIOUS
    <2>3. f[0] \in Seq(Task) /\ ToSet(f[0]) = {}
      BY <2>1, EmptyMembers, EmptySeq
    <2> QED
      BY <2>1, <2>2, <2>3
  <1>5. ASSUME NEW m \in 0..(n - 1), m \in Done PROVE m + 1 \in Done
    <2>1. m \in Nat /\ m + 1 \in 1..n /\ m + 1 \in 0..n /\ m + 1 # 0 /\ (m + 1) - 1 = m
      BY <1>1
    <2>2. f[m + 1] = IF s[m + 1] \in S THEN Append(f[m], s[m + 1]) ELSE f[m]
      BY <1>2, <2>1 DEF KeepsThose
    <2>3. {s[i] : i \in 1..(m + 1)} = {s[i] : i \in 1..m} \cup {s[m + 1]}
      <3>1. 1..(m + 1) = (1..m) \cup {m + 1}
        BY <2>1
      <3> QED
        BY <3>1
    <2>4. f[m] \in Seq(Task) /\ ToSet(f[m]) = {s[i] : i \in 1..m} \cap S
      BY <1>5
    <2>5. CASE s[m + 1] \in S
      <3>1. f[m + 1] = Append(f[m], s[m + 1]) /\ s[m + 1] \in Task
        BY <1>3, <2>1, <2>2, <2>5
      <3>2. f[m + 1] \in Seq(Task) /\ ToSet(f[m + 1]) = ToSet(f[m]) \cup {s[m + 1]}
        BY <2>4, <3>1, AppendProperties, AppendMembers
      <3> QED
        BY <2>1, <2>3, <2>4, <2>5, <3>2
    <2>6. CASE s[m + 1] \notin S
      <3>1. {s[i] : i \in 1..(m + 1)} \cap S = {s[i] : i \in 1..m} \cap S
        BY <2>3, <2>6
      <3>2. f[m + 1] = f[m]
        BY <2>2, <2>6
      <3> QED
        BY <2>1, <2>4, <3>1, <3>2
    <2> QED
      BY <2>5, <2>6
  <1>6. n \in Done
    <2> HIDE DEF Done
    <2>1. n \in 0..n
      BY <1>1
    <2> QED
      BY <1>1, <1>4, <1>5, <2>1, UpTo
  <1> QED
    BY <1>1, <1>2, <1>6

\* What is kept of a list in which all follow what they lead to is such a list again, if
\* what is kept leads only to what is kept.
LEMMA AmongFollows ==
  ASSUME NEW s \in Seq(Task), NEW S, NEW Leads, \A t \in S : Leads[t] \subseteq S,
         \A i \in 1..Len(s) : Leads[s[i]] \subseteq {s[j] : j \in 1..(i - 1)}
  PROVE  LET r == Among(s, S) IN
         \A i \in 1..Len(r) : Leads[r[i]] \subseteq {r[j] : j \in 1..(i - 1)}
  <1> DEFINE n == Len(s)
             Follows(r) == \A i \in 1..Len(r) : Leads[r[i]] \subseteq {r[j] : j \in 1..(i - 1)}
  <1>1. n \in Nat
    BY Members
  <1>2. PICK f : KeepsThose(f, s, n, S) /\ Among(s, S) = f[n]
    BY <1>1, AmongDefined
  <1>3. \A i \in 1..n : s[i] \in Task /\ Leads[s[i]] \subseteq {s[j] : j \in 1..(i - 1)}
    BY ElementOfSeq
  <1> HIDE DEF n
  <1> DEFINE Done == {m \in 0..n : /\ f[m] \in Seq(Task) /\ Follows(f[m])
                                   /\ ToSet(f[m]) = {s[i] : i \in 1..m} \cap S}
  <1>4. 0 \in Done
    <2>1. f[0] = <<>> /\ 0 \in 0..n
      BY <1>1, <1>2 DEF KeepsThose
    <2>2. {s[i] : i \in 1..0} = {}
      OBVIOUS
    <2>3. f[0] \in Seq(Task) /\ ToSet(f[0]) = {} /\ Len(f[0]) = 0
      BY <2>1, EmptyMembers, EmptySeq
    <2>4. Follows(f[0])
      BY <2>3
    <2> QED
      BY <2>1, <2>2, <2>3, <2>4
  <1>5. ASSUME NEW m \in 0..(n - 1), m \in Done PROVE m + 1 \in Done
    <2>1. m \in Nat /\ m + 1 \in 1..n /\ m + 1 \in 0..n /\ m + 1 # 0 /\ (m + 1) - 1 = m
      BY <1>1
    <2>2. f[m + 1] = IF s[m + 1] \in S THEN Append(f[m], s[m + 1]) ELSE f[m]
      BY <1>2, <2>1 DEF KeepsThose
    <2>3. {s[i] : i \in 1..(m + 1)} = {s[i] : i \in 1..m} \cup {s[m + 1]}
      <3>1. 1..(m + 1) = (1..m) \cup {m + 1}
        BY <2>1
      <3> QED
        BY <3>1
    <2>4. f[m] \in Seq(Task) /\ Follows(f[m]) /\ ToSet(f[m]) = {s[i] : i \in 1..m} \cap S
      BY <1>5
    <2>5. CASE s[m + 1] \in S
      <3>1. f[m + 1] = Append(f[m], s[m + 1]) /\ s[m + 1] \in Task
        BY <1>3, <2>1, <2>2, <2>5
      <3>2. f[m + 1] \in Seq(Task) /\ ToSet(f[m + 1]) = ToSet(f[m]) \cup {s[m + 1]}
        BY <2>4, <3>1, AppendProperties, AppendMembers
      <3> DEFINE k == Len(f[m])
      <3>3. /\ Len(f[m + 1]) = k + 1 /\ f[m + 1][k + 1] = s[m + 1] /\ k \in Nat
            /\ \A i \in 1..k : f[m + 1][i] = f[m][i]
        BY <2>4, <3>1, AppendProperties, LenProperties
      <3>4. ToSet(f[m]) = {f[m][j] : j \in 1..k}
        BY <2>4, Members DEF ToSet
      <3> HIDE DEF k
      <3>5. Leads[s[m + 1]] \subseteq ToSet(f[m])
        <4>1. Leads[s[m + 1]] \subseteq {s[j] : j \in 1..m}
          BY <1>3, <2>1
        <4> QED
          BY <2>4, <2>5, <4>1
      <3>6. {f[m + 1][j] : j \in 1..k} = {f[m][j] : j \in 1..k}
        BY <3>3
      <3>7. Follows(f[m + 1])
        <4> SUFFICES ASSUME NEW i \in 1..(k + 1)
                     PROVE  Leads[f[m + 1][i]] \subseteq {f[m + 1][j] : j \in 1..(i - 1)}
          BY <3>3
        <4>1. CASE i = k + 1
          <5>1. (k + 1) - 1 = k
            BY <3>3
          <5> QED
            BY <3>3, <3>4, <3>5, <3>6, <4>1, <5>1
        <4>2. CASE i \in 1..k
          <5>1. Leads[f[m][i]] \subseteq {f[m][j] : j \in 1..(i - 1)}
            BY <2>4, <4>2 DEF k
          <5>2. \A j \in 1..(i - 1) : j \in 1..k
            BY <3>3, <4>2
          <5>3. {f[m + 1][j] : j \in 1..(i - 1)} = {f[m][j] : j \in 1..(i - 1)}
            BY <3>3, <5>2
          <5> QED
            BY <3>3, <4>2, <5>1, <5>3
        <4> QED
          BY <3>3, <4>1, <4>2
      <3> QED
        BY <2>1, <2>3, <2>4, <2>5, <3>2, <3>7
    <2>6. CASE s[m + 1] \notin S
      <3>1. {s[i] : i \in 1..(m + 1)} \cap S = {s[i] : i \in 1..m} \cap S
        BY <2>3, <2>6
      <3>2. f[m + 1] = f[m]
        BY <2>2, <2>6
      <3>3. Follows(f[m + 1])
        <4> HIDE DEF Follows
        <4> QED
          BY <2>4, <3>2
      <3>4. f[m + 1] \in Seq(Task) /\ ToSet(f[m + 1]) = {s[i] : i \in 1..(m + 1)} \cap S
        BY <2>4, <3>1, <3>2
      <3> QED
        BY <2>1, <3>3, <3>4
    <2> QED
      BY <2>5, <2>6
  <1>6. n \in Done
    <2> HIDE DEF Done
    <2>1. n \in 0..n
      BY <1>1
    <2> QED
      BY <1>1, <1>4, <1>5, <2>1, UpTo
  <1> QED
    BY <1>2, <1>6

-----------------------------------------------------------------------------
(* Lists of lists *)

LEMMA ConcatMembers ==
  ASSUME NEW s \in Seq(Task), NEW t \in Seq(Task)
  PROVE  s \o t \in Seq(Task) /\ ToSet(s \o t) = ToSet(s) \cup ToSet(t)
  <1>1. /\ s \o t \in Seq(Task) /\ Len(s \o t) = Len(s) + Len(t)
        /\ \A i \in 1..(Len(s) + Len(t)) :
             (s \o t)[i] = IF i <= Len(s) THEN s[i] ELSE t[i - Len(s)]
    BY ConcatProperties
  <1> DEFINE m == Len(s)
             n == Len(t)
             r == s \o t
  <1>2. /\ m \in Nat /\ n \in Nat /\ ToSet(s) = {s[i] : i \in 1..m} /\ ToSet(t) = {t[i] : i \in 1..n}
        /\ ToSet(r) = {r[i] : i \in 1..(m + n)}
    BY <1>1, Members DEF ToSet
  <1>3. \A i \in 1..(m + n) : r[i] = IF i <= m THEN s[i] ELSE t[i - m]
    BY <1>1
  <1> HIDE DEF m, n, r
  <1>4. ASSUME NEW i \in 1..(m + n) PROVE r[i] \in ToSet(s) \cup ToSet(t)
    <2>1. CASE i <= m
      BY <1>2, <1>3, <2>1
    <2>2. CASE ~(i <= m)
      <3>1. i - m \in 1..n /\ r[i] = t[i - m]
        BY <1>2, <1>3, <2>2
      <3> QED
        BY <1>2, <3>1
    <2> QED
      BY <2>1, <2>2
  <1>5. ASSUME NEW i \in 1..m PROVE s[i] \in ToSet(r)
    <2>1. i \in 1..(m + n) /\ r[i] = s[i]
      BY <1>2, <1>3
    <2> QED
      BY <1>2, <2>1
  <1>6. ASSUME NEW i \in 1..n PROVE t[i] \in ToSet(r)
    <2>1. m + i \in 1..(m + n) /\ ~(m + i <= m) /\ (m + i) - m = i
      BY <1>2
    <2>2. r[m + i] = t[i]
      BY <1>3, <2>1
    <2> QED
      BY <1>2, <2>1, <2>2
  <1>7. ToSet(r) = ToSet(s) \cup ToSet(t)
    BY <1>2, <1>4, <1>5, <1>6
  <1> QED
    BY <1>1, <1>7 DEF r

\* f[n] is the first n lists of ss, one after the other.
Concatenates(f, ss, last) ==
  \A n \in 1..last : f[n] = IF n = 1 THEN ss[n] ELSE f[n - 1] \o ss[n]

LEMMA FlattenDefined ==
  ASSUME NEW ss, NEW last \in Nat \ {0}, Len(ss) = last
  PROVE  \E f : Concatenates(f, ss, last) /\ FlattenSeq(ss) = f[last]
  <1> DEFINE Value(f, n) == IF n = 1 THEN ss[n] ELSE f[n - 1] \o ss[n]
             Solved(m) == \E f : f = [n \in 1..m |-> Value(f, n)]
             Good == {m \in 0..last : Solved(m)}
  <1>1. 0 \in Good
    <2> DEFINE g == [n \in 1..0 |-> <<>>]
    <2>1. g = [n \in 1..0 |-> Value(g, n)]
      OBVIOUS
    <2> HIDE DEF g, Value
    <2>2. Solved(0)
      BY <2>1
    <2>3. 0 \in 0..last
      OBVIOUS
    <2> QED
      BY <2>2, <2>3
  <1>2. ASSUME NEW l \in 0..(last - 1), l \in Good PROVE l + 1 \in Good
    <2> DEFINE m == l + 1
    <2>0. m \in Nat \ {0} /\ m - 1 = l /\ m \in 0..last
      OBVIOUS
    <2>1. PICK f : f = [n \in 1..(m - 1) |-> Value(f, n)]
      BY <1>2, <2>0
    <2> HIDE DEF m
    <2> DEFINE g == [n \in 1..m |-> IF n < m THEN f[n] ELSE Value(f, m)]
    <2>2. ASSUME NEW n \in 1..m PROVE g[n] = Value(g, n)
      <3>1. g[n] = Value(f, n)
        <4>1. CASE n < m
          <5>1. g[n] = f[n] /\ n \in 1..(m - 1)
            BY <2>0, <4>1
          <5> QED
            BY <2>1, <5>1
        <4>2. CASE n = m
          BY <2>0, <4>2
        <4> QED
          BY <2>0, <4>1, <4>2
      <3>2. CASE n = 1
        BY <3>1, <3>2
      <3>3. CASE n # 1
        <4>1. n - 1 \in 1..m /\ n - 1 < m
          BY <2>0, <3>3
        <4>2. g[n - 1] = f[n - 1]
          BY <4>1
        <4> QED
          BY <3>1, <3>3, <4>2
      <3> QED
        BY <3>2, <3>3
    <2> HIDE DEF Value
    <2>3. g = [n \in 1..m |-> Value(g, n)]
      BY <2>2
    <2>4. Solved(m)
      BY <2>3
    <2> QED
      BY <2>0, <2>4 DEF m
  <1> HIDE DEF Solved
  <1>3. Solved(last)
    <2>1. last \in 0..last
      OBVIOUS
    <2> HIDE DEF Good
    <2>2. last \in Good
      BY <1>1, <1>2, <2>1, UpTo
    <2> QED
      BY <2>2 DEF Good
  <1> DEFINE flat == CHOOSE f : f = [n \in 1..Len(ss) |-> Value(f, n)]
  <1>4. flat = [n \in 1..Len(ss) |-> Value(flat, n)]
    <2> HIDE DEF Value
    <2>1. Solved(Len(ss))
      BY <1>3
    <2> QED
      BY <2>1, Zenon DEF Solved
  <1>5. ~(Len(ss) = 0)
    OBVIOUS
  <1>6. FlattenSeq(ss) = flat[Len(ss)]
    BY <1>5, Zenon DEF FlattenSeq
  <1> HIDE DEF flat
  <1>7. \A n \in 1..last : flat[n] = Value(flat, n)
    <2> HIDE DEF Value
    <2> QED
      BY <1>4
  <1>8. FlattenSeq(ss) = flat[last]
    BY <1>6
  <1>9. Concatenates(flat, ss, last)
    BY <1>7, Zenon DEF Concatenates
  <1> QED
    BY <1>8, <1>9, Zenon

LEMMA FlattenMembers ==
  ASSUME NEW ss \in Seq(Seq(Task))
  PROVE  /\ FlattenSeq(ss) \in Seq(Task)
         /\ ToSet(FlattenSeq(ss)) \subseteq UNION {ToSet(ss[i]) : i \in DOMAIN ss}
  <1> DEFINE last == Len(ss)
             all == UNION {ToSet(ss[i]) : i \in DOMAIN ss}
  <1>1. last \in Nat /\ DOMAIN ss = 1..last /\ \A i \in 1..last : ss[i] \in Seq(Task)
    BY LenProperties, ElementOfSeq
  <1>2. CASE last = 0
    <2>1. ss = <<>>
      BY <1>2, EmptySeq
    <2>2. FlattenSeq(ss) = <<>>
      BY <1>2, <2>1 DEF FlattenSeq
    <2> QED
      BY <2>2, EmptyMembers, EmptySeq
  <1>3. CASE last # 0
    <2>1. last \in Nat \ {0}
      BY <1>1, <1>3
    <2>2. PICK f : Concatenates(f, ss, last) /\ FlattenSeq(ss) = f[last]
      BY <2>1, FlattenDefined
    <2>3. \A i \in 1..last : ToSet(ss[i]) \subseteq all
      BY <1>1
    <2> HIDE DEF last, all
    <2> DEFINE Done == {m \in 0..last : m = 0 \/ (f[m] \in Seq(Task) /\ ToSet(f[m]) \subseteq all)}
    <2>4. 0 \in Done
      BY <2>1
    <2>5. ASSUME NEW m \in 0..(last - 1), m \in Done PROVE m + 1 \in Done
      <3>1. m + 1 \in 1..last /\ m + 1 \in 0..last /\ (m + 1 = 1 <=> m = 0) /\ (m + 1) - 1 = m
        BY <2>1
      <3>2. f[m + 1] = IF m = 0 THEN ss[m + 1] ELSE f[m] \o ss[m + 1]
        BY <2>2, <3>1 DEF Concatenates
      <3>3. ss[m + 1] \in Seq(Task) /\ ToSet(ss[m + 1]) \subseteq all
        BY <1>1, <2>3, <3>1
      <3>4. CASE m = 0
        BY <3>1, <3>2, <3>3, <3>4
      <3>5. CASE m # 0
        <4>1. f[m] \in Seq(Task) /\ ToSet(f[m]) \subseteq all
          BY <2>5, <3>5
        <4>2. f[m + 1] \in Seq(Task) /\ ToSet(f[m + 1]) = ToSet(f[m]) \cup ToSet(ss[m + 1])
          BY <3>2, <3>3, <3>5, <4>1, ConcatMembers
        <4> QED
          BY <3>1, <3>3, <4>1, <4>2
      <3> QED
        BY <3>4, <3>5
    <2>6. last \in Done
      <3>1. last \in 0..last /\ last \in Nat
        BY <2>1
      <3> HIDE DEF Done
      <3> QED
        BY <2>4, <2>5, <3>1, UpTo
    <2> QED
      BY <2>1, <2>2, <2>6 DEF all
  <1> QED
    BY <1>2, <1>3

-----------------------------------------------------------------------------
(* Planning *)

USE SetsAssumption

-----------------------------------------------------------------------------
(* The visit's stack *)

LEMMA TopIsFrame ==
  ASSUME WalkTypes, path # <<>>
  PROVE  /\ Len(path) \in Nat \ {0} /\ DOMAIN path = 1..Len(path)
         /\ Current = path[Len(path)] /\ Current.task \in Task /\ Current.at \in Nat \ {0}
         /\ Len(set.depends[Current.task]) \in Nat
         /\ DOMAIN set.depends[Current.task] = 1..Len(set.depends[Current.task])
  <1>1. Current \in VisitFrame /\ Len(path) \in Nat \ {0} /\ DOMAIN path = 1..Len(path)
    BY FrontFacts, LenProperties DEF WalkTypes, Current
  <1>2. Current.task \in Task /\ Current.at \in Nat \ {0}
    BY <1>1 DEF VisitFrame
  <1>3. set.depends[Current.task] \in Seq(Task)
    BY <1>2 DEF WalkTypes, TaskSet, Lists
  <1> QED
    BY <1>1, <1>2, <1>3, LenProperties DEF Current, Last

LEMMA PastFacts ==
  ASSUME WalkTypes, path # <<>>
  PROVE  /\ Past \in Seq(VisitFrame) /\ Len(Past) = Len(path)
         /\ \A i \in 1..(Len(path) - 1) : Past[i] = path[i]
         /\ Past[Len(path)].task = Current.task /\ Past[Len(path)].at = Current.at + 1
  <1>1. Current \in VisitFrame
    BY FrontFacts DEF WalkTypes, Current
  <1> DEFINE f == [Current EXCEPT !.at = @ + 1]
  <1>2. f \in VisitFrame /\ f.task = Current.task /\ f.at = Current.at + 1
    BY <1>1 DEF VisitFrame
  <1> HIDE DEF f
  <1>3. /\ Append(Front(path), f) \in Seq(VisitFrame) /\ Len(Append(Front(path), f)) = Len(path)
        /\ \A i \in 1..(Len(path) - 1) : Append(Front(path), f)[i] = path[i]
        /\ Append(Front(path), f)[Len(path)] = f
    BY <1>2, TopReplaced DEF WalkTypes
  <1>4. Past = Append(Front(path), f)
    BY DEF Past, f
  <1> QED
    BY <1>2, <1>3, <1>4

LEMMA ConfigurationTypes ==
  ASSUME WalkTypes, NEW t \in Task
  PROVE  /\ set.depends[t] \in Seq(Task) /\ set.groups[t] \in Seq(Task)
         /\ set.waits[t] \in Seq(Task)
  BY DEF WalkTypes, TaskSet, Lists

\* Only a frame's own dependency is come to.
LEMMA AtIsDependency ==
  ASSUME WalkTypes, NEW d, ComesTo(d)
  PROVE  d \in Task
  <1>1. /\ set.depends[Current.task] \in Seq(Task) /\ Current.at \in 1..Len(set.depends[Current.task])
        /\ d = set.depends[Current.task][Current.at] /\ path # <<>>
    BY TopIsFrame, ConfigurationTypes DEF ComesTo
  <1> QED
    BY <1>1, ElementOfSeq

-----------------------------------------------------------------------------
(* The hints *)

\* A move takes a task behind a later one that it waits for.
LEMMA MoveIsLater ==
  ASSUME WalkTypes, Move
  PROVE  \E i, j \in 1..Len(order) :
           i < j /\ MoveAfter(i, j) /\ order[j] \in ToSet(set.waits[order[i]])
  <1> DEFINE i == Min(Early)
             k == Min(LateAt(i))
             t == set.waits[order[i]][k]
  <1>1. DOMAIN order = 1..Len(order) /\ Len(order) \in Nat
    BY Members DEF WalkTypes
  <1>2. i \in Early
    <2>1. Early \subseteq Nat /\ Early # {}
      BY <1>1 DEF Early, Move
    <2> QED
      BY <2>1, MinExists
  <1>3. i \in 1..Len(order) /\ LateAt(i) # {}
    BY <1>1, <1>2 DEF Early
  <1>4. k \in LateAt(i)
    <2>1. order[i] \in Task
      BY <1>3, ElementOfSeq DEF WalkTypes
    <2>2. LateAt(i) \subseteq Nat
      BY <2>1, ConfigurationTypes, Members DEF LateAt
    <2> QED
      BY <1>3, <2>2, MinExists
  <1>5. t \in Planned /\ Place(t) > i
    BY <1>4 DEF LateAt, Late
  <1>6. Place(t) \in 1..Len(order)
    BY <1>1, <1>5 DEF Place, Planned, ToSet
  <1>7. MoveAfter(i, Place(t))
    BY DEF Move
  <1>8. order[Place(t)] \in ToSet(set.waits[order[i]])
    <2>1. k \in DOMAIN set.waits[order[i]]
      BY <1>4 DEF LateAt
    <2>2. order[Place(t)] = t
      BY <1>5 DEF Place, Planned, ToSet
    <2> QED
      BY <2>1, <2>2 DEF ToSet
  <1> HIDE DEF i, k, t
  <1>9. i < Place(t)
    BY <1>1, <1>3, <1>5, <1>6
  <1> QED
    BY <1>3, <1>6, <1>7, <1>8, <1>9

\* The order after a move.
LEMMA OrderMoved ==
  ASSUME WalkTypes, NEW i \in 1..Len(order), NEW j \in 1..Len(order), i < j, MoveAfter(i, j)
  PROVE  /\ order' \in Seq(Task) /\ Len(order') = Len(order)
         /\ order'[j] = order[i]
         /\ \A m \in 1..Len(order) : i <= m /\ m < j => order'[m] = order[m + 1]
         /\ \A m \in 1..Len(order) : m < i \/ j < m => order'[m] = order[m]
  <1>1. DOMAIN order = 1..Len(order) /\ Len(order) \in Nat
    BY Members DEF WalkTypes
  <1>2. order' = [m \in 1..Len(order) |->
           CASE m = j -> order[i] [] i <= m /\ m < j -> order[m + 1] [] OTHER -> order[m]]
    BY <1>1 DEF MoveAfter
  <1>3. order'[j] = order[i]
    BY <1>2
  <1>4. ASSUME NEW m \in 1..Len(order), i <= m, m < j PROVE order'[m] = order[m + 1]
    BY <1>1, <1>2, <1>4
  <1>5. ASSUME NEW m \in 1..Len(order), m < i \/ j < m PROVE order'[m] = order[m]
    BY <1>1, <1>2, <1>5
  <1>6. ASSUME NEW m \in 1..Len(order) PROVE order'[m] \in Task
    <2>1. \A n \in 1..Len(order) : order[n] \in Task
      BY ElementOfSeq DEF WalkTypes
    <2>2. m \in Nat /\ i \in Nat /\ j \in Nat
      BY <1>1
    <2>3. CASE m = j
      BY <1>3, <2>1, <2>3
    <2>4. CASE i <= m /\ m < j
      <3>1. m + 1 \in 1..Len(order)
        BY <1>1, <2>2, <2>4
      <3> QED
        BY <1>4, <2>1, <2>4, <3>1
    <2>5. CASE m < i \/ j < m
      BY <1>5, <2>1, <2>5
    <2> QED
      BY <2>2, <2>3, <2>4, <2>5
  <1>7. order' \in [1..Len(order) -> Task]
    BY <1>2, <1>6
  <1>8. order' \in Seq(Task) /\ Len(order') = Len(order)
    BY <1>1, <1>7, IsASeq, LenProperties
  <1> QED
    BY <1>3, <1>4, <1>5, <1>8

-----------------------------------------------------------------------------
(* Types *)

LEMMA VisitTypes ==
  ASSUME NEW t \in Task, Visit(t)
  PROVE  path' \in Seq(VisitFrame) /\ visited' \in Seq(Task)
  <1>1. [task |-> t, at |-> 1] \in VisitFrame
    BY DEF VisitFrame
  <1> QED
    BY <1>1, EmptySeq DEF Visit

LEMMA DescendTypes ==
  ASSUME WalkTypes, NEW d \in Task, Descend(d)
  PROVE  path' \in Seq(VisitFrame)
  <1>1. [task |-> d, at |-> 1] \in VisitFrame
    BY DEF VisitFrame
  <1>2. Past \in Seq(VisitFrame)
    BY PastFacts DEF Descend, ComesTo
  <1> QED
    BY <1>1, <1>2, AppendProperties DEF Descend

\* Nothing is planned before the visit of the named task ends, and a prerequisite is
\* listed for a task.
PhaseSound ==
  /\ phase \in {"check", "root"} => order = <<>>
  /\ phase = "prereqs" => todo # <<>>

LEMMA TypeStep == WalkTypes /\ PhaseSound /\ [PlanNext]_planVars => WalkTypes'
  <1> SUFFICES ASSUME WalkTypes, PhaseSound, [PlanNext]_planVars PROVE WalkTypes'
    OBVIOUS
  <1> USE DEF Ends, Visits
  <1>1. CASE UNCHANGED planVars
    BY <1>1 DEF WalkTypes, planVars
  <1>2. CASE Refuse \/ EndAdd \/ EndGroups \/ EndPlan
    BY <1>2 DEF WalkTypes, Refuse, EndAdd, EndGroups, EndPlan
  <1>3. CASE VisitRoot
    BY <1>3, VisitTypes DEF WalkTypes, VisitRoot, Visit
  <1>4. ASSUME NEW d \in Task, SkipDone(d) PROVE WalkTypes'
    BY <1>4, PastFacts DEF WalkTypes, SkipDone, ComesTo
  <1>5. ASSUME NEW d \in Task, ReportCycle(d) PROVE WalkTypes'
    BY <1>5 DEF WalkTypes, ReportCycle
  <1>6. ASSUME NEW d \in Task, Descend(d) PROVE WalkTypes'
    BY <1>6, DescendTypes DEF WalkTypes, Descend
  <1>7. CASE Leave
    <2>1. path' \in Seq(VisitFrame)
      BY <1>7, FrontFacts DEF WalkTypes, Leave
    <2>2. done' \in SUBSET Task /\ visited' \in Seq(Task)
      BY <1>7, TopIsFrame, AppendProperties DEF WalkTypes, Leave
    <2> QED
      BY <1>7, <2>1, <2>2 DEF WalkTypes, Leave
  <1>8. CASE TakeOrder
    <2>1. order = <<>> /\ Len(order) = 0
      BY <1>8, EmptySeq DEF PhaseSound, TakeOrder, VisitReturned
    <2>2. passes' \in 0..Len(order')
      BY <1>8, <2>1, Members DEF WalkTypes, TakeOrder
    <2> QED
      BY <1>8, <2>1, <2>2 DEF WalkTypes, TakeOrder
  <1>9. CASE LookAtGroups
    <2>1. Front(pending) \in Seq(Task) /\ Last(pending) \in Task
      BY <1>9, FrontFacts DEF WalkTypes, LookAtGroups
    <2>2. set.groups[Last(pending)] \in Seq(Task)
      BY <2>1, ConfigurationTypes
    <2> QED
      BY <1>9, <2>1, <2>2 DEF WalkTypes, LookAtGroups
  <1>10. CASE SkipPlanned
    BY <1>10, HeadTailProperties DEF WalkTypes, SkipPlanned
  <1>11. CASE VisitGrouped
    <2>1. Head(refs) \in Task /\ Tail(refs) \in Seq(Task)
      BY <1>11, HeadTailProperties DEF WalkTypes, VisitGrouped
    <2>2. path' \in Seq(VisitFrame) /\ visited' \in Seq(Task)
      BY <1>11, <2>1, VisitTypes DEF VisitGrouped
    <2> QED
      BY <1>11, <2>1, <2>2 DEF WalkTypes, VisitGrouped, Visit
  <1>12. CASE Add
    <2>1. Head(visited) \in Task /\ Tail(visited) \in Seq(Task)
      BY <1>12, HeadTailProperties DEF WalkTypes, Add
    <2>2. CASE Head(visited) \in Planned
      BY <1>12, <2>1, <2>2 DEF WalkTypes, Add
    <2>3. CASE Head(visited) \notin Planned
      <3>1. order' = Append(order, Head(visited)) /\ pending' = Append(pending, Head(visited))
        BY <1>12, <2>3 DEF Add
      <3>2. order \in Seq(Task) /\ pending \in Seq(Task) /\ Len(order) \in Nat
        BY Members DEF WalkTypes
      <3>3. order' \in Seq(Task) /\ pending' \in Seq(Task) /\ Len(order') = Len(order) + 1
        BY <2>1, <3>1, <3>2, AppendProperties
      <3>4. passes' \in 0..Len(order')
        BY <1>12, <3>2, <3>3 DEF WalkTypes, Add
      <3> QED
        BY <1>12, <2>1, <3>3, <3>4 DEF WalkTypes, Add
    <2> QED
      BY <2>2, <2>3
  <1>13. CASE Move
    <2>1. order' \in Seq(Task) /\ Len(order') = Len(order)
      BY <1>13, MoveIsLater, OrderMoved
    <2>2. passes' \in 0..Len(order')
      BY <1>13, <2>1, Members DEF WalkTypes, Move
    <2> QED
      BY <1>13, <2>1, <2>2 DEF WalkTypes, Move
  <1>14. CASE EndHints
    BY <1>14 DEF WalkTypes, EndHints
  <1>15. CASE VisitListed
    <2>1. Head(todo) \in Task
      BY <1>15, HeadTailProperties DEF WalkTypes, VisitListed
    <2>2. path' \in Seq(VisitFrame) /\ visited' \in Seq(Task)
      BY <1>15, <2>1, VisitTypes DEF VisitListed
    <2> QED
      BY <1>15, <2>1, <2>2 DEF WalkTypes, VisitListed, Visit
  <1>16. CASE ListPrerequisites
    <2>1. Tail(todo) \in Seq(Task)
      BY <1>16, HeadTailProperties DEF WalkTypes, PhaseSound, ListPrerequisites, VisitReturned
    <2> QED
      BY <1>16, <2>1 DEF WalkTypes, ListPrerequisites
  <1> QED
    BY <1>1, <1>2, <1>3, <1>4, <1>5, <1>6, <1>7, <1>8, <1>9, <1>10, <1>11, <1>12, <1>13,
       <1>14, <1>15, <1>16 DEF PlanNext

LEMMA PhaseStep == PhaseSound /\ [PlanNext]_planVars => PhaseSound'
  <1> SUFFICES ASSUME PhaseSound, [PlanNext]_planVars PROVE PhaseSound'
    OBVIOUS
  <1> USE DEF PhaseSound, ComesTo, VisitReturned
  <1>1. CASE UNCHANGED planVars
    BY <1>1 DEF planVars
  <1>2. CASE Refuse \/ VisitRoot \/ TakeOrder \/ Leave \/ \E d \in Task : ReportCycle(d)
    BY <1>2 DEF Refuse, VisitRoot, TakeOrder, Leave, ReportCycle
  <1>3. CASE \E d \in Task : SkipDone(d) \/ Descend(d)
    BY <1>3 DEF SkipDone, Descend
  <1>4. CASE LookAtGroups \/ SkipPlanned \/ VisitGrouped \/ Add \/ EndAdd \/ EndGroups
    BY <1>4 DEF LookAtGroups, SkipPlanned, VisitGrouped, Add, EndAdd, EndGroups
  <1>5. CASE Move \/ EndHints \/ VisitListed \/ ListPrerequisites \/ EndPlan
    BY <1>5 DEF Move, EndHints, VisitListed, ListPrerequisites, EndPlan
  <1> QED
    BY <1>1, <1>2, <1>3, <1>4, <1>5 DEF PlanNext

-----------------------------------------------------------------------------
(* The visit: the path has no task twice and none that is done, and a dependency left *)
(* behind is done or is being visited                                                 *)

PathDistinct ==
  /\ \A i, j \in 1..Len(path) : path[i].task = path[j].task => i = j
  /\ \A i \in 1..Len(path) : path[i].task \notin done

DependenciesBehind ==
  \A i \in 1..Len(path) : \A k \in 1..(path[i].at - 1) :
    LET d == set.depends[path[i].task][k] IN
    d \in done \/ (i < Len(path) /\ d = path[i + 1].task)

PathSound == PathDistinct /\ DependenciesBehind

LEMMA VisitSound ==
  ASSUME NEW t \in Task, Visit(t)
  PROVE  PathSound'
  <1> DEFINE f == [task |-> t, at |-> 1]
  <1>1. Len(path') = 1 /\ path'[1] = f /\ done' = {}
    BY DEF Visit
  <1>2. PathDistinct'
    BY <1>1 DEF PathDistinct
  <1>3. DependenciesBehind'
    <2>1. ASSUME NEW i \in 1..Len(path'), NEW k \in 1..(path'[i].at - 1) PROVE FALSE
      BY <1>1, <2>1
    <2> QED
      BY <2>1, Zenon DEF DependenciesBehind
  <1> QED
    BY <1>2, <1>3 DEF PathSound

LEMMA SkipSound ==
  ASSUME WalkTypes, PathSound, NEW d \in Task, SkipDone(d)
  PROVE  PathSound'
  <1> DEFINE n == Len(path)
  <1>1. /\ path # <<>> /\ done' = done /\ set' = set /\ d \in done
        /\ d = set.depends[Current.task][Current.at]
    BY DEF SkipDone, ComesTo
  <1>2. /\ Len(path') = n /\ \A i \in 1..(n - 1) : path'[i] = path[i]
        /\ path'[n].task = path[n].task /\ path'[n].at = path[n].at + 1
    BY <1>1, PastFacts, TopIsFrame DEF SkipDone
  <1>3. n \in Nat \ {0} /\ path[n].at \in Nat \ {0} /\ Current = path[n]
    BY <1>1, TopIsFrame
  <1> HIDE DEF n
  <1>4. \A i \in 1..n : path'[i].task = path[i].task
    BY <1>2, <1>3
  <1>5. PathDistinct'
    BY <1>1, <1>2, <1>4 DEF PathSound, PathDistinct, n
  <1>6. ASSUME NEW i \in 1..n, NEW k \in 1..(path'[i].at - 1)
        PROVE  \/ set.depends[path[i].task][k] \in done
               \/ i < n /\ set.depends[path[i].task][k] = path[i + 1].task
    <2>1. CASE i < n
      <3>1. k \in 1..(path[i].at - 1)
        BY <1>2, <1>3, <1>6, <2>1
      <3> QED
        BY <2>1, <3>1 DEF PathSound, DependenciesBehind, n
    <2>2. CASE i = n /\ k = path[n].at
      BY <1>1, <1>3, <2>2
    <2>3. CASE i = n /\ k # path[n].at
      <3>1. k \in 1..(path[i].at - 1)
        BY <1>2, <1>3, <1>6, <2>3
      <3> QED
        BY <2>3, <3>1 DEF PathSound, DependenciesBehind, n
    <2> QED
      BY <1>3, <2>1, <2>2, <2>3
  <1>7. \A i \in 1..n : i < n => path'[i + 1].task = path[i + 1].task
    BY <1>3, <1>4
  <1>8. DependenciesBehind'
    BY <1>1, <1>2, <1>4, <1>6, <1>7 DEF DependenciesBehind
  <1> QED
    BY <1>5, <1>8 DEF PathSound

LEMMA DescendSound ==
  ASSUME WalkTypes, PathSound, NEW d \in Task, Descend(d)
  PROVE  PathSound'
  <1> DEFINE n == Len(path)
             f == [task |-> d, at |-> 1]
  <1>1. /\ path # <<>> /\ done' = done /\ set' = set /\ d \notin done
        /\ d = set.depends[Current.task][Current.at] /\ d \notin OnPath
    BY DEF Descend, ComesTo
  <1>2. /\ n \in Nat \ {0} /\ path[n].at \in Nat \ {0} /\ Current = path[n]
        /\ DOMAIN path = 1..n
    BY <1>1, TopIsFrame
  <1>3. /\ Len(path') = n + 1 /\ \A i \in 1..(n - 1) : path'[i] = path[i]
        /\ path'[n].task = path[n].task /\ path'[n].at = path[n].at + 1
        /\ path'[n + 1] = f
    <2>1. /\ Past \in Seq(VisitFrame) /\ Len(Past) = n
          /\ \A i \in 1..(n - 1) : Past[i] = path[i]
          /\ Past[n].task = path[n].task /\ Past[n].at = path[n].at + 1
      BY <1>1, <1>2, PastFacts
    <2>2. f \in VisitFrame /\ path' = Append(Past, f)
      BY DEF VisitFrame, Descend
    <2>3. /\ Len(path') = n + 1 /\ path'[n + 1] = f
          /\ \A i \in 1..n : path'[i] = Past[i]
      BY <2>1, <2>2, AppendProperties
    <2> HIDE DEF n, f
    <2> QED
      BY <1>2, <2>1, <2>3
  <1>4. \A i \in 1..n : path[i].task # d
    BY <1>1, <1>2 DEF OnPath
  <1>5. f.task = d /\ f.at = 1
    OBVIOUS
  <1> HIDE DEF n, f
  <1>6. /\ \A i \in 1..n : path'[i].task = path[i].task
        /\ path'[n + 1].task = d /\ path'[n + 1].at = 1
    BY <1>2, <1>3, <1>5
  <1>7. PathDistinct'
    <2>1. ASSUME NEW i \in 1..(n + 1), NEW j \in 1..(n + 1), path'[i].task = path'[j].task
          PROVE  i = j
      <3>1. CASE i \in 1..n /\ j \in 1..n
        BY <1>6, <2>1, <3>1 DEF PathSound, PathDistinct, n
      <3>2. CASE i = n + 1 /\ j \in 1..n
        BY <1>4, <1>6, <2>1, <3>2
      <3>3. CASE i \in 1..n /\ j = n + 1
        BY <1>4, <1>6, <2>1, <3>3
      <3> QED
        BY <1>2, <3>1, <3>2, <3>3
    <2>2. ASSUME NEW i \in 1..(n + 1) PROVE path'[i].task \notin done'
      <3>1. CASE i \in 1..n
        BY <1>1, <1>6, <3>1 DEF PathSound, PathDistinct, n
      <3>2. CASE i = n + 1
        BY <1>1, <1>6, <3>2
      <3> QED
        BY <1>2, <3>1, <3>2
    <2> QED
      BY <1>3, <2>1, <2>2 DEF PathDistinct
  <1>8. ASSUME NEW i \in 1..(n + 1), NEW k \in 1..(path'[i].at - 1)
        PROVE  \/ set.depends[path'[i].task][k] \in done
               \/ i < n + 1 /\ set.depends[path'[i].task][k] = path'[i + 1].task
    <2>1. CASE i < n
      <3>1. k \in 1..(path[i].at - 1) /\ i \in 1..n /\ i + 1 \in 1..n
        BY <1>2, <1>3, <1>8, <2>1
      <3>2. \/ set.depends[path[i].task][k] \in done
            \/ set.depends[path[i].task][k] = path[i + 1].task
        BY <1>2, <2>1, <3>1 DEF PathSound, DependenciesBehind, n
      <3> QED
        BY <1>2, <1>6, <2>1, <3>1, <3>2
    <2>2. CASE i = n /\ k = path[n].at
      BY <1>1, <1>2, <1>6, <2>2
    <2>3. CASE i = n /\ k # path[n].at
      <3>1. k \in 1..(path[n].at - 1) /\ n \in 1..n
        BY <1>2, <1>3, <1>8, <2>3
      <3>2. set.depends[path[n].task][k] \in done
        BY <1>2, <3>1 DEF PathSound, DependenciesBehind, n
      <3> QED
        BY <1>6, <2>3, <3>1, <3>2
    <2>4. CASE i = n + 1
      BY <1>6, <1>8, <2>4
    <2> QED
      BY <1>2, <2>1, <2>2, <2>3, <2>4
  <1>9. DependenciesBehind'
    BY <1>1, <1>3, <1>8 DEF DependenciesBehind
  <1> QED
    BY <1>7, <1>9 DEF PathSound

LEMMA LeaveSound ==
  ASSUME WalkTypes, PathSound, Leave
  PROVE  PathSound'
  <1> DEFINE n == Len(path)
  <1>1. path # <<>> /\ done' = done \cup {Current.task} /\ set' = set /\ path' = Front(path)
    BY DEF Leave
  <1>2. n \in Nat \ {0} /\ Current = path[n]
    BY <1>1, TopIsFrame
  <1>3. Len(path') = n - 1 /\ \A i \in 1..(n - 1) : path'[i] = path[i]
    BY <1>1, FrontFacts DEF WalkTypes
  <1> HIDE DEF n
  <1>4. PathDistinct'
    BY <1>1, <1>2, <1>3 DEF PathSound, PathDistinct, n
  <1>5. ASSUME NEW i \in 1..(n - 1), NEW k \in 1..(path'[i].at - 1)
        PROVE  \/ set.depends[path[i].task][k] \in done'
               \/ i < n - 1 /\ set.depends[path[i].task][k] = path'[i + 1].task
    <2>1. i \in 1..n /\ k \in 1..(path[i].at - 1) /\ i < n
      BY <1>2, <1>3, <1>5
    <2>2. \/ set.depends[path[i].task][k] \in done
          \/ set.depends[path[i].task][k] = path[i + 1].task
      BY <2>1 DEF PathSound, DependenciesBehind, n
    <2>3. CASE i = n - 1
      <3>1. i + 1 = n
        BY <1>2, <2>3
      <3> QED
        BY <1>1, <1>2, <2>2, <3>1
    <2>4. CASE i < n - 1
      <3>1. i + 1 \in 1..(n - 1)
        BY <1>2, <2>1, <2>4
      <3> QED
        BY <1>1, <1>3, <2>2, <2>4, <3>1
    <2> QED
      BY <1>2, <2>1, <2>3, <2>4
  <1>6. DependenciesBehind'
    BY <1>1, <1>3, <1>5 DEF DependenciesBehind
  <1> QED
    BY <1>4, <1>6 DEF PathSound

LEMMA PathStep == WalkTypes /\ PathSound /\ [PlanNext]_planVars => PathSound'
  <1> SUFFICES ASSUME WalkTypes, PathSound, [PlanNext]_planVars PROVE PathSound'
    OBVIOUS
  <1>1. ASSUME UNCHANGED <<set, path, done>> PROVE PathSound'
    BY <1>1 DEF PathSound, PathDistinct, DependenciesBehind
  <1>2. CASE UNCHANGED planVars
    BY <1>1, <1>2 DEF planVars
  <1>3. CASE Refuse \/ TakeOrder \/ \E d \in Task : ReportCycle(d)
    BY <1>1, <1>3 DEF Refuse, TakeOrder, ReportCycle
  <1>4. CASE LookAtGroups \/ SkipPlanned \/ Add \/ EndAdd \/ EndGroups
    BY <1>1, <1>4 DEF LookAtGroups, SkipPlanned, Add, EndAdd, EndGroups
  <1>5. CASE Move \/ EndHints \/ ListPrerequisites \/ EndPlan
    BY <1>1, <1>5 DEF Move, EndHints, ListPrerequisites, EndPlan
  <1>6. CASE VisitRoot
    BY <1>6, VisitSound DEF VisitRoot, WalkTypes
  <1>7. CASE VisitGrouped
    BY <1>7, HeadTailProperties, VisitSound DEF VisitGrouped, WalkTypes
  <1>8. CASE VisitListed
    BY <1>8, HeadTailProperties, VisitSound DEF VisitListed, WalkTypes
  <1>9. CASE \E d \in Task : SkipDone(d) \/ Descend(d)
    BY <1>9, SkipSound, DescendSound
  <1>10. CASE Leave
    BY <1>10, LeaveSound
  <1> QED
    BY <1>2, <1>3, <1>4, <1>5, <1>6, <1>7, <1>8, <1>9, <1>10 DEF PlanNext

-----------------------------------------------------------------------------
(* What the visit returns *)

VisitedOnce ==
  /\ \A i \in 1..Len(visited) : visited[i] \in done
  /\ \A i, j \in 1..Len(visited) : visited[i] = visited[j] => i = j
  /\ path # <<>> => done \subseteq ToSet(visited)

\* A task that is left has all its dependencies behind it, and is left for the first time.
LEMMA LeaveFacts ==
  ASSUME WalkTypes, PathSound, VisitedOnce, Leave
  PROVE  /\ Needs(Current.task) \subseteq ToSet(visited) /\ Current.task \notin done
         /\ visited' = Append(visited, Current.task) /\ Len(visited') = Len(visited) + 1
         /\ Len(visited) \in Nat /\ visited'[Len(visited) + 1] = Current.task
         /\ \A i \in 1..Len(visited) : visited'[i] = visited[i]
         /\ ToSet(visited') = ToSet(visited) \cup {Current.task}
  <1>1. path # <<>> /\ Current.at > Len(set.depends[Current.task]) /\ visited' = Append(visited, Current.task)
    BY DEF Leave
  <1>2. /\ Len(path) \in Nat \ {0} /\ Current = path[Len(path)] /\ Current.task \in Task
        /\ Current.at \in Nat \ {0} /\ Len(set.depends[Current.task]) \in Nat
        /\ DOMAIN set.depends[Current.task] = 1..Len(set.depends[Current.task])
    BY <1>1, TopIsFrame
  <1>3. Current.task \notin done
    BY <1>2 DEF PathSound, PathDistinct
  <1>4. ASSUME NEW k \in 1..Len(set.depends[Current.task])
        PROVE  set.depends[Current.task][k] \in done
    <2>1. k \in 1..(path[Len(path)].at - 1) /\ Len(path) \in 1..Len(path)
      BY <1>1, <1>2
    <2> QED
      BY <1>2, <2>1 DEF PathSound, DependenciesBehind
  <1>5. Needs(Current.task) \subseteq ToSet(visited)
    BY <1>1, <1>2, <1>4 DEF Needs, ToSet, VisitedOnce
  <1>6. visited \in Seq(Task) /\ DOMAIN visited = 1..Len(visited) /\ Len(visited) \in Nat
    BY Members DEF WalkTypes
  <1>7. /\ visited' \in Seq(Task) /\ Len(visited') = Len(visited) + 1
        /\ visited'[Len(visited) + 1] = Current.task
        /\ \A i \in 1..Len(visited) : visited'[i] = visited[i]
    BY <1>1, <1>2, <1>6, AppendProperties
  <1>8. DOMAIN visited' = 1..(Len(visited) + 1)
    BY <1>7, LenProperties
  <1>9. 1..(Len(visited) + 1) = (1..Len(visited)) \cup {Len(visited) + 1}
    BY <1>6
  <1>10. ToSet(visited') = ToSet(visited) \cup {Current.task}
    BY <1>6, <1>7, <1>8, <1>9 DEF ToSet
  <1> QED
    BY <1>1, <1>3, <1>5, <1>6, <1>7, <1>10

\* The head of what is returned is taken off it.
LEMMA AddFacts ==
  ASSUME WalkTypes, Add
  PROVE  /\ visited # <<>> /\ path = <<>> /\ Head(visited) = visited[1] /\ Head(visited) \in Task
         /\ Len(visited) \in Nat \ {0} /\ Len(visited') = Len(visited) - 1
         /\ \A i \in 1..(Len(visited) - 1) : visited'[i] = visited[i + 1]
  <1>1. visited # <<>> /\ visited' = Tail(visited) /\ path = <<>>
    BY DEF Add, VisitReturned
  <1>2. Len(visited) \in Nat \ {0}
    BY <1>1, EmptySeq DEF WalkTypes
  <1> QED
    BY <1>1, <1>2, HeadTailProperties DEF WalkTypes

LEMMA VisitedStep == WalkTypes /\ PathSound /\ VisitedOnce /\ [PlanNext]_planVars => VisitedOnce'
  <1> SUFFICES ASSUME WalkTypes, PathSound, VisitedOnce, [PlanNext]_planVars PROVE VisitedOnce'
    OBVIOUS
  <1>1. ASSUME done' = done, visited' = visited, path' = <<>> => path = <<>>, path = <<>> => path' = <<>>
        PROVE VisitedOnce'
    BY <1>1 DEF VisitedOnce
  <1>2. CASE UNCHANGED planVars
    BY <1>1, <1>2 DEF planVars
  <1>3. CASE Refuse \/ TakeOrder \/ \E d \in Task : ReportCycle(d)
    BY <1>1, <1>3 DEF Refuse, TakeOrder, ReportCycle
  <1>4. CASE LookAtGroups \/ SkipPlanned \/ EndAdd \/ EndGroups
    BY <1>1, <1>4 DEF LookAtGroups, SkipPlanned, EndAdd, EndGroups
  <1>5. CASE Move \/ EndHints \/ ListPrerequisites \/ EndPlan
    BY <1>1, <1>5 DEF Move, EndHints, ListPrerequisites, EndPlan
  <1>6. CASE VisitRoot \/ VisitGrouped \/ VisitListed
    <2>1. done' = {} /\ Len(visited') = 0
      BY <1>6 DEF VisitRoot, VisitGrouped, VisitListed, Visit
    <2> QED
      BY <2>1 DEF VisitedOnce
  <1>7. CASE \E d \in Task : SkipDone(d) \/ Descend(d)
    <2>1. path # <<>> /\ UNCHANGED <<done, visited>>
      BY <1>7 DEF SkipDone, Descend, ComesTo
    <2> QED
      BY <2>1 DEF VisitedOnce
  <1>8. CASE Leave
    <2>1. path # <<>> /\ done' = done \cup {Current.task}
      BY <1>8 DEF Leave
    <2>2. 1..(Len(visited) + 1) = (1..Len(visited)) \cup {Len(visited) + 1}
      BY <1>8, LeaveFacts
    <2>3. ASSUME NEW i \in 1..Len(visited'), NEW j \in 1..Len(visited'), visited'[i] = visited'[j]
          PROVE  i = j
      BY <1>8, <2>2, <2>3, LeaveFacts DEF VisitedOnce
    <2>4. \A i \in 1..Len(visited') : visited'[i] \in done'
      BY <1>8, <2>1, <2>2, LeaveFacts DEF VisitedOnce
    <2>5. done' \subseteq ToSet(visited')
      BY <1>8, <2>1, LeaveFacts DEF VisitedOnce
    <2> QED
      BY <2>3, <2>4, <2>5 DEF VisitedOnce
  <1>9. CASE Add
    <2>1. path' = <<>> /\ done' = done
      BY <1>9, AddFacts DEF Add
    <2>2. \A i \in 1..Len(visited') : i + 1 \in 1..Len(visited) /\ visited'[i] = visited[i + 1]
      BY <1>9, AddFacts
    <2>3. \A i, j \in 1..Len(visited') : visited'[i] = visited'[j] => i = j
      <3> TAKE i, j \in 1..Len(visited')
      <3> HAVE visited'[i] = visited'[j]
      <3>1. i + 1 = j + 1
        BY <2>2 DEF VisitedOnce
      <3>2. i \in Int /\ j \in Int
        OBVIOUS
      <3> QED
        BY <3>1, <3>2
    <2>4. \A i \in 1..Len(visited') : visited'[i] \in done'
      BY <2>1, <2>2 DEF VisitedOnce
    <2> QED
      BY <2>1, <2>3, <2>4 DEF VisitedOnce
  <1> QED
    BY <1>2, <1>3, <1>4, <1>5, <1>6, <1>7, <1>8, <1>9 DEF PlanNext

-----------------------------------------------------------------------------
(* The order *)

\* A task that is not planned goes to the end.
LEMMA AddsLast ==
  ASSUME WalkTypes, Add, Head(visited) \notin Planned
  PROVE  /\ Len(order) \in Nat /\ DOMAIN order = 1..Len(order)
         /\ DOMAIN order' = (1..Len(order)) \cup {Len(order) + 1}
         /\ order'[Len(order) + 1] = Head(visited)
         /\ \A i \in 1..Len(order) : order'[i] = order[i]
         /\ Planned' = Planned \cup {Head(visited)}
  <1>1. order \in Seq(Task) /\ Head(visited) \in Task /\ order' = Append(order, Head(visited))
    BY AddFacts DEF WalkTypes, Add
  <1>2. Len(order) \in Nat /\ DOMAIN order = 1..Len(order)
    BY <1>1, LenProperties
  <1>3. /\ order' \in Seq(Task) /\ Len(order') = Len(order) + 1
        /\ order'[Len(order) + 1] = Head(visited)
        /\ \A i \in 1..Len(order) : order'[i] = order[i]
    BY <1>1, <1>2, AppendProperties
  <1>4. DOMAIN order' = 1..(Len(order) + 1)
    BY <1>3, LenProperties
  <1>5. 1..(Len(order) + 1) = (1..Len(order)) \cup {Len(order) + 1}
    BY <1>2
  <1>6. Planned' = Planned \cup {Head(visited)}
    BY <1>2, <1>3, <1>4, <1>5 DEF Planned, ToSet
  <1> QED
    BY <1>2, <1>3, <1>4, <1>5, <1>6

\* What an action leaves alone.
LEMMA OrderKept ==
  ASSUME [PlanNext]_planVars, ~TakeOrder, ~Add, ~Move
  PROVE  UNCHANGED <<order, passes, set>>
  <1>1. CASE UNCHANGED planVars
    BY <1>1 DEF planVars
  <1>2. CASE Refuse \/ VisitRoot \/ Leave \/ \E d \in Task : ReportCycle(d)
    BY <1>2 DEF Refuse, VisitRoot, Leave, ReportCycle
  <1>3. CASE \E d \in Task : SkipDone(d) \/ Descend(d)
    BY <1>3 DEF SkipDone, Descend
  <1>4. CASE LookAtGroups \/ SkipPlanned \/ VisitGrouped \/ EndAdd \/ EndGroups
    BY <1>4 DEF LookAtGroups, SkipPlanned, VisitGrouped, EndAdd, EndGroups
  <1>5. CASE EndHints \/ VisitListed \/ ListPrerequisites \/ EndPlan
    BY <1>5 DEF EndHints, VisitListed, ListPrerequisites, EndPlan
  <1> QED
    BY <1>1, <1>2, <1>3, <1>4, <1>5 DEF PlanNext

LEMMA OnceStep == WalkTypes /\ VisitedOnce /\ EachOnce /\ [PlanNext]_planVars => EachOnce'
  <1> SUFFICES ASSUME WalkTypes, VisitedOnce, EachOnce, [PlanNext]_planVars PROVE EachOnce'
    OBVIOUS
  <1> USE DEF EachOnce, IsInjective
  <1>1. CASE TakeOrder
    BY <1>1, Members DEF TakeOrder, VisitedOnce, WalkTypes
  <1>2. CASE Add
    <2>1. CASE Head(visited) \in Planned
      BY <1>2, <2>1 DEF Add
    <2>2. CASE Head(visited) \notin Planned
      BY <1>2, <2>2, AddsLast DEF Planned, ToSet
    <2> QED
      BY <2>1, <2>2
  <1>3. CASE Move
    <2>1. PICK i, j \in 1..Len(order) : i < j /\ MoveAfter(i, j)
      BY <1>3, MoveIsLater
    <2> DEFINE n == Len(order)
               from(m) == IF m = j THEN i ELSE IF i <= m /\ m < j THEN m + 1 ELSE m
    <2>2. order \in Seq(Task) /\ n \in Nat /\ DOMAIN order = 1..n
      BY Members DEF WalkTypes
    <2>3. /\ order' \in Seq(Task) /\ Len(order') = n /\ order'[j] = order[i]
          /\ \A m \in 1..n : i <= m /\ m < j => order'[m] = order[m + 1]
          /\ \A m \in 1..n : m < i \/ j < m => order'[m] = order[m]
      BY <2>1, OrderMoved
    <2>4. DOMAIN order' = 1..n
      BY <2>3, LenProperties
    <2> HIDE DEF n
    <2>5. \A m \in 1..n : from(m) \in 1..n
      BY <2>1, <2>2
    <2>6. \A m \in 1..n : order'[m] = order[from(m)]
      <3> TAKE m \in 1..n
      <3>1. CASE m = j
        BY <2>3, <3>1
      <3>2. CASE i <= m /\ m < j
        BY <2>1, <2>2, <2>3, <3>2 DEF n
      <3>3. CASE m < i \/ j < m
        BY <2>1, <2>2, <2>3, <3>3 DEF n
      <3> QED
        BY <2>1, <2>2, <3>1, <3>2, <3>3 DEF n
    <2>7. ASSUME NEW a \in 1..n, NEW b \in 1..n, from(a) = from(b)
          PROVE  a = b
      BY <2>1, <2>2, <2>7 DEF n
    <2> HIDE DEF from
    <2>8. ASSUME NEW a \in 1..n, NEW b \in 1..n, order'[a] = order'[b]
          PROVE  a = b
      <3>1. from(a) = from(b)
        BY <2>2, <2>5, <2>6, <2>8
      <3> QED
        BY <2>7, <3>1
    <2> QED
      BY <2>4, <2>8
  <1> QED
    BY <1>1, <1>2, <1>3, OrderKept

\* As long as no hint has moved a task, what is still to be added depends on what is
\* planned and on what is added before it.
VisitedInOrder ==
  passes = 0 => \A i \in 1..Len(visited) :
    Needs(visited[i]) \subseteq Planned \cup {visited[j] : j \in 1..(i - 1)}

LEMMA VisitedOrderStep ==
  WalkTypes /\ PhaseSound /\ PathSound /\ VisitedOnce /\ VisitedInOrder /\ [PlanNext]_planVars => VisitedInOrder'
  <1> SUFFICES ASSUME WalkTypes, PhaseSound, PathSound, VisitedOnce, VisitedInOrder, [PlanNext]_planVars
               PROVE  VisitedInOrder'
    OBVIOUS
  <1>1. ASSUME UNCHANGED <<order, passes, set, visited>> PROVE VisitedInOrder'
    BY <1>1 DEF VisitedInOrder, Needs, Planned
  <1>2. CASE UNCHANGED planVars
    BY <1>1, <1>2 DEF planVars
  <1>3. CASE Refuse \/ \E d \in Task : ReportCycle(d) \/ SkipDone(d) \/ Descend(d)
    BY <1>1, <1>3 DEF Refuse, ReportCycle, SkipDone, Descend
  <1>4. CASE LookAtGroups \/ SkipPlanned \/ EndAdd \/ EndGroups
    BY <1>1, <1>4 DEF LookAtGroups, SkipPlanned, EndAdd, EndGroups
  <1>5. CASE EndHints \/ ListPrerequisites \/ EndPlan
    BY <1>1, <1>5 DEF EndHints, ListPrerequisites, EndPlan
  <1>6. CASE VisitRoot \/ VisitGrouped \/ VisitListed
    <2>1. Len(visited') = 0
      BY <1>6 DEF VisitRoot, VisitGrouped, VisitListed, Visit
    <2> QED
      BY <2>1 DEF VisitedInOrder
  <1>7. CASE Leave
    <2>1. UNCHANGED <<order, passes, set>>
      BY <1>7 DEF Leave
    <2>2. DOMAIN visited = 1..Len(visited)
      BY Members DEF WalkTypes
    <2>3. 1..(Len(visited) + 1) = (1..Len(visited)) \cup {Len(visited) + 1}
      BY <1>7, LeaveFacts
    <2>4. Len(visited) \in Nat /\ (Len(visited) + 1) - 1 = Len(visited)
      BY <1>7, LeaveFacts
    <2>5. ASSUME passes = 0, NEW i \in 1..Len(visited)
          PROVE  Needs(visited[i]) \subseteq Planned \cup {visited'[j] : j \in 1..(i - 1)}
      <3>1. \A j \in 1..(i - 1) : visited'[j] = visited[j]
        BY <1>7, <2>4, LeaveFacts
      <3> QED
        BY <2>5, <3>1 DEF VisitedInOrder
    <2>6. Needs(Current.task) \subseteq {visited'[j] : j \in 1..Len(visited)}
      BY <1>7, <2>2, LeaveFacts DEF ToSet
    <2>7. ASSUME passes = 0, NEW i \in 1..Len(visited')
          PROVE  Needs(visited'[i]) \subseteq Planned \cup {visited'[j] : j \in 1..(i - 1)}
      <3>1. CASE i \in 1..Len(visited)
        BY <1>7, <2>5, <2>7, <3>1, LeaveFacts
      <3>2. CASE i = Len(visited) + 1
        BY <1>7, <2>4, <2>6, <3>2, LeaveFacts
      <3> QED
        BY <1>7, <2>3, <3>1, <3>2, LeaveFacts
    <2> QED
      BY <2>1, <2>7 DEF VisitedInOrder, Needs, Planned
  <1>8. CASE TakeOrder
    <2>1. visited' = visited /\ order' = visited /\ UNCHANGED <<passes, set>> /\ order = <<>>
      BY <1>8 DEF TakeOrder, VisitReturned, PhaseSound
    <2>2. Planned = {}
      BY <2>1 DEF Planned, ToSet
    <2> QED
      BY <2>1, <2>2 DEF VisitedInOrder, Needs
  <1>9. CASE Add
    <2>1. /\ UNCHANGED <<passes, set>> /\ Planned \subseteq Planned' /\ Head(visited) \in Planned'
      <3>1. CASE Head(visited) \in Planned
        BY <1>9, <3>1 DEF Add, Planned
      <3>2. CASE Head(visited) \notin Planned
        BY <1>9, <3>2, AddsLast DEF Add
      <3> QED
        BY <3>1, <3>2
    <2>2. ASSUME passes = 0, NEW i \in 1..Len(visited')
          PROVE  Needs(visited'[i]) \subseteq Planned' \cup {visited'[j] : j \in 1..(i - 1)}
      <3>1. /\ i + 1 \in 1..Len(visited) /\ visited'[i] = visited[i + 1] /\ (i + 1) - 1 = i
            /\ Head(visited) = visited[1]
        BY <1>9, AddFacts
      <3>2. Needs(visited'[i]) \subseteq Planned \cup {visited[j] : j \in 1..i}
        BY <2>2, <3>1 DEF VisitedInOrder
      <3>3. ASSUME NEW j \in 1..i PROVE visited[j] \in Planned' \cup {visited'[m] : m \in 1..(i - 1)}
        <4>1. CASE j = 1
          BY <2>1, <3>1, <4>1
        <4>2. CASE j # 1
          <5>1. j - 1 \in 1..(i - 1) /\ j - 1 \in 1..(Len(visited) - 1) /\ (j - 1) + 1 = j
            BY <1>9, <3>1, <4>2, AddFacts
          <5> QED
            BY <1>9, <5>1, AddFacts
        <4> QED
          BY <4>1, <4>2
      <3> QED
        BY <2>1, <3>2, <3>3
    <2> QED
      BY <2>1, <2>2 DEF VisitedInOrder, Needs
  <1>10. CASE Move
    <2>1. passes' # 0
      BY <1>10 DEF Move, WalkTypes
    <2> QED
      BY <2>1 DEF VisitedInOrder
  <1> QED
    BY <1>2, <1>3, <1>4, <1>5, <1>6, <1>7, <1>8, <1>9, <1>10 DEF PlanNext

LEMMA OrderStep ==
  WalkTypes /\ PhaseSound /\ VisitedInOrder /\ DependenciesFirst /\ [PlanNext]_planVars => DependenciesFirst'
  <1> SUFFICES ASSUME WalkTypes, PhaseSound, VisitedInOrder, DependenciesFirst, [PlanNext]_planVars
               PROVE  DependenciesFirst'
    OBVIOUS
  <1> USE DEF DependenciesFirst, InOrder
  <1>1. ASSUME UNCHANGED <<order, passes, set>> PROVE DependenciesFirst'
    BY <1>1 DEF Needs
  <1>2. CASE TakeOrder
    <2>1. order' = visited /\ UNCHANGED <<passes, set>> /\ order = <<>>
      BY <1>2 DEF TakeOrder, VisitReturned, PhaseSound
    <2>2. Planned = {} /\ DOMAIN visited = 1..Len(visited)
      BY <2>1, Members DEF Planned, ToSet, WalkTypes
    <2>3. \A i \in 1..Len(visited) :
            passes = 0 => Needs(visited[i]) \subseteq {visited[j] : j \in 1..(i - 1)}
      BY <2>2 DEF VisitedInOrder
    <2>4. \A t : Needs(t)' = Needs(t)
      BY <2>1 DEF Needs
    <2> QED
      BY <2>1, <2>2, <2>3, <2>4
  <1>3. CASE Add
    <2>1. UNCHANGED <<passes, set>>
      BY <1>3 DEF Add
    <2>2. CASE Head(visited) \in Planned
      BY <1>1, <1>3, <2>1, <2>2 DEF Add
    <2>3. CASE Head(visited) \notin Planned
      <3>1. Len(order) \in Nat /\ DOMAIN order = 1..Len(order) /\ (Len(order) + 1) - 1 = Len(order)
        BY <1>3, <2>3, AddsLast
      <3>2. ASSUME passes = 0 PROVE Needs(Head(visited)) \subseteq {order'[j] : j \in 1..Len(order)}
        <4>1. Needs(visited[1]) \subseteq Planned \cup {visited[j] : j \in 1..(1 - 1)}
          BY <1>3, <3>2, AddFacts DEF VisitedInOrder
        <4>2. Needs(visited[1]) \subseteq Planned
          BY <4>1
        <4> QED
          BY <1>3, <2>3, <3>1, <4>2, AddFacts, AddsLast DEF Planned, ToSet
      <3>3. ASSUME passes = 0, NEW i \in 1..Len(order)
            PROVE  Needs(order[i]) \subseteq {order'[j] : j \in 1..(i - 1)}
        <4>1. \A j \in 1..(i - 1) : order'[j] = order[j]
          BY <1>3, <2>3, <3>1, AddsLast
        <4> QED
          BY <3>1, <3>3, <4>1
      <3>4. ASSUME passes = 0, NEW i \in DOMAIN order'
            PROVE  Needs(order'[i]) \subseteq {order'[j] : j \in 1..(i - 1)}
        <4>1. CASE i \in 1..Len(order)
          BY <1>3, <2>3, <3>3, <3>4, <4>1, AddsLast
        <4>2. CASE i = Len(order) + 1
          BY <1>3, <2>3, <3>1, <3>2, <3>4, <4>2, AddsLast
        <4> QED
          BY <1>3, <2>3, <4>1, <4>2, AddsLast
      <3> QED
        BY <2>1, <3>4 DEF Needs
    <2> QED
      BY <2>2, <2>3
  <1>4. CASE Move
    BY <1>4 DEF Move, WalkTypes
  <1> QED
    BY <1>1, <1>2, <1>3, <1>4, OrderKept

-----------------------------------------------------------------------------
(* What the reference definitions compute *)

-----------------------------------------------------------------------------
(* What the named task leads to, and what a task depends on *)

Reach == Within({root}, Uses)
Deps(t) == Within(Needs(t), Needs)

\* The smallest set with the named task that has, with each task, what it uses.
LEMMA ReachFacts ==
  ASSUME WalkTypes
  PROVE  /\ Reach \subseteq Task /\ root \in Reach
         /\ \A u \in Reach : Needs(u) \subseteq Reach /\ ToSet(set.groups[u]) \subseteq Reach
         /\ \A S \in SUBSET Task :
              root \in S /\ (\A u \in S : Needs(u) \subseteq S /\ ToSet(set.groups[u]) \subseteq S)
              => Reach \subseteq S
  <1>1. \A u \in Task : Needs(u) \subseteq Task /\ ToSet(set.groups[u]) \subseteq Task
    BY ConfigurationTypes, Members DEF Needs
  <1>2. root \in Task
    BY DEF WalkTypes
  <1>3. Reach = {t \in Task : \A S \in SUBSET Task :
                   {root} \subseteq S /\ (\A u \in S : Uses(u) \subseteq S) => t \in S}
    BY DEF Reach, Within
  <1>4. \A u : Uses(u) = Needs(u) \cup ToSet(set.groups[u])
    BY DEF Uses
  <1>5. ASSUME NEW u \in Reach, NEW t \in Uses(u) PROVE t \in Reach
    <2>1. t \in Task
      BY <1>1, <1>3, <1>4, <1>5
    <2>2. ASSUME NEW S \in SUBSET Task, {root} \subseteq S, \A x \in S : Uses(x) \subseteq S
          PROVE  t \in S
      BY <1>3, <1>5, <2>2
    <2> QED
      BY <1>3, <2>1, <2>2
  <1>6. root \in Reach
    BY <1>2, <1>3
  <1> QED
    BY <1>3, <1>4, <1>5, <1>6

LEMMA DepsFacts ==
  ASSUME WalkTypes, NEW t \in Task
  PROVE  /\ Deps(t) \subseteq Task /\ Needs(t) \subseteq Deps(t)
         /\ \A u \in Deps(t) : Needs(u) \subseteq Deps(t)
         /\ \A S \in SUBSET Task :
              Needs(t) \subseteq S /\ (\A u \in S : Needs(u) \subseteq S) => Deps(t) \subseteq S
  <1>1. \A u \in Task : Needs(u) \subseteq Task
    BY ConfigurationTypes, Members DEF Needs
  <1>2. Deps(t) = {x \in Task : \A S \in SUBSET Task :
                     Needs(t) \subseteq S /\ (\A u \in S : Needs(u) \subseteq S) => x \in S}
    BY DEF Deps, Within
  <1>3. ASSUME NEW u \in Deps(t), NEW x \in Needs(u) PROVE x \in Deps(t)
    <2>1. x \in Task
      BY <1>1, <1>2, <1>3
    <2>2. ASSUME NEW S \in SUBSET Task, Needs(t) \subseteq S, \A y \in S : Needs(y) \subseteq S
          PROVE  x \in S
      BY <1>2, <1>3, <2>2
    <2> QED
      BY <1>2, <2>1, <2>2
  <1> QED
    BY <1>1, <1>2, <1>3

\* The configuration stays, and with it what it leads to.
LEMMA ConfigurationKept ==
  ASSUME [PlanNext]_planVars
  PROVE  /\ set' = set /\ root' = root /\ Reach' = Reach
         /\ \A t : Needs(t)' = Needs(t) /\ Deps(t)' = Deps(t)
  <1>1. set' = set /\ root' = root
    <2>1. CASE UNCHANGED planVars
      BY <2>1 DEF planVars
    <2>2. CASE Refuse \/ VisitRoot \/ Leave \/ TakeOrder \/ \E d \in Task : ReportCycle(d)
      BY <2>2 DEF Refuse, VisitRoot, Leave, TakeOrder, ReportCycle
    <2>3. CASE \E d \in Task : SkipDone(d) \/ Descend(d)
      BY <2>3 DEF SkipDone, Descend
    <2>4. CASE LookAtGroups \/ SkipPlanned \/ VisitGrouped \/ Add \/ EndAdd \/ EndGroups
      BY <2>4 DEF LookAtGroups, SkipPlanned, VisitGrouped, Add, EndAdd, EndGroups
    <2>5. CASE Move \/ EndHints \/ VisitListed \/ ListPrerequisites \/ EndPlan
      BY <2>5 DEF Move, EndHints, VisitListed, ListPrerequisites, EndPlan
    <2> QED
      BY <2>1, <2>2, <2>3, <2>4, <2>5 DEF PlanNext
  <1>2. Reach' = Reach
    BY <1>1 DEF Reach, Within, Uses, Needs
  <1>3. \A t : Needs(t)' = Needs(t) /\ Deps(t)' = Deps(t)
    BY <1>1 DEF Deps, Within, Needs
  <1> QED
    BY <1>1, <1>2, <1>3

-----------------------------------------------------------------------------
(* What the steps do to the tasks of the lists *)

\* The tasks on the path, by place.
LEMMA PathMembers ==
  ASSUME WalkTypes
  PROVE  OnPath = {path[i].task : i \in 1..Len(path)} /\ OnPath \subseteq Task /\ Len(path) \in Nat
  <1>1. path \in Seq(VisitFrame) /\ DOMAIN path = 1..Len(path) /\ Len(path) \in Nat
    BY LenProperties DEF WalkTypes
  <1>2. \A i \in 1..Len(path) : path[i] \in VisitFrame
    BY <1>1, ElementOfSeq
  <1>3. \A i \in 1..Len(path) : path[i].task \in Task
    BY <1>2 DEF VisitFrame
  <1> QED
    BY <1>1, <1>3 DEF OnPath

LEMMA VisitMembers ==
  ASSUME NEW t \in Task, Visit(t)
  PROVE  OnPath' = {t} /\ ToSet(visited') = {} /\ Len(path') = 1 /\ path'[1].task = t
  <1>1. Len(path') = 1 /\ DOMAIN path' = {1} /\ path'[1].task = t
    BY DEF Visit
  <1> QED
    BY <1>1, EmptyMembers DEF OnPath, Visit

\* Going past a dependency, or down to it, leaves the tasks below as they are.
LEMMA SkipMembers ==
  ASSUME WalkTypes, WalkTypes', NEW d \in Task, SkipDone(d)
  PROVE  /\ OnPath' = OnPath /\ path # <<>> /\ path' # <<>> /\ Len(path') = Len(path)
         /\ \A i \in 1..Len(path) : path'[i].task = path[i].task
         /\ Len(path) \in Nat \ {0}
  <1>1. path # <<>> /\ path' = Past
    BY DEF SkipDone, ComesTo
  <1>2. /\ Len(path') = Len(path) /\ \A i \in 1..(Len(path) - 1) : path'[i] = path[i]
        /\ path'[Len(path)].task = path[Len(path)].task
        /\ Len(path) \in Nat \ {0}
    BY <1>1, PastFacts, TopIsFrame
  <1>3. \A i \in 1..Len(path) : path'[i].task = path[i].task
    BY <1>2
  <1>4. OnPath' = {path'[i].task : i \in 1..Len(path')} /\ OnPath = {path[i].task : i \in 1..Len(path)}
    <2>1. OnPath = {path[i].task : i \in 1..Len(path)}
      BY PathMembers
    <2>2. DOMAIN path' = 1..Len(path')
      BY LenProperties DEF WalkTypes
    <2> QED
      BY <2>1, <2>2 DEF OnPath
  <1>5. path' # <<>>
    BY <1>2
  <1> QED
    BY <1>1, <1>2, <1>3, <1>4, <1>5

LEMMA DescendMembers ==
  ASSUME WalkTypes, WalkTypes', NEW d \in Task, Descend(d)
  PROVE  /\ OnPath' = OnPath \cup {d} /\ path # <<>> /\ path' # <<>>
         /\ Len(path) \in Nat \ {0} /\ Len(path') = Len(path) + 1
         /\ \A i \in 1..Len(path) : path'[i].task = path[i].task
         /\ path'[Len(path) + 1].task = d
         /\ d \in Needs(path[Len(path)].task)
  <1> DEFINE n == Len(path)
             f == [task |-> d, at |-> 1]
  <1>1. path # <<>> /\ path' = Append(Past, f) /\ d = set.depends[Current.task][Current.at]
        /\ Current.at <= Len(set.depends[Current.task])
    BY DEF Descend, ComesTo
  <1>2. /\ Past \in Seq(VisitFrame) /\ Len(Past) = n /\ \A i \in 1..(n - 1) : Past[i] = path[i]
        /\ Past[n].task = Current.task
    BY <1>1, PastFacts
  <1>3. n \in Nat \ {0} /\ Current = path[n] /\ Current.at \in Nat \ {0} /\ Current.task \in Task
        /\ DOMAIN set.depends[Current.task] = 1..Len(set.depends[Current.task])
        /\ Len(set.depends[Current.task]) \in Nat
    BY <1>1, TopIsFrame
  <1>4. f \in VisitFrame
    BY DEF VisitFrame
  <1>5. /\ Len(path') = n + 1 /\ path'[n + 1] = f /\ \A i \in 1..n : path'[i] = Past[i]
    BY <1>1, <1>2, <1>4, AppendProperties
  <1>6. f.task = d
    OBVIOUS
  <1> HIDE DEF n, f
  <1>7. \A i \in 1..n : path'[i].task = path[i].task
    BY <1>2, <1>3, <1>5
  <1>8. d \in Needs(path[n].task)
    BY <1>1, <1>3 DEF Needs, ToSet
  <1>9. OnPath = {path[i].task : i \in 1..n}
    BY PathMembers DEF n
  <1>10. DOMAIN path' = 1..(n + 1)
    BY <1>5, LenProperties DEF WalkTypes
  <1>11. 1..(n + 1) = (1..n) \cup {n + 1}
    BY <1>3
  <1>12. OnPath' = OnPath \cup {d}
    <2>1. OnPath' = {path'[i].task : i \in (1..n) \cup {n + 1}}
      BY <1>10, <1>11 DEF OnPath
    <2> QED
      BY <1>5, <1>6, <1>7, <1>9, <2>1
  <1>13. path' # <<>>
    BY <1>3, <1>5
  <1> QED
    BY <1>1, <1>3, <1>5, <1>6, <1>7, <1>8, <1>12, <1>13 DEF n

LEMMA LeaveMembers ==
  ASSUME WalkTypes, WalkTypes', Leave
  PROVE  /\ OnPath = OnPath' \cup {Current.task} /\ Len(path) \in Nat \ {0}
         /\ Len(path') = Len(path) - 1
         /\ \A i \in 1..(Len(path) - 1) : path'[i] = path[i]
         /\ Current = path[Len(path)] /\ Current.task \in Task
         /\ ToSet(visited') = ToSet(visited) \cup {Current.task}
  <1> DEFINE n == Len(path)
  <1>1. path # <<>> /\ path' = Front(path) /\ visited' = Append(visited, Current.task)
    BY DEF Leave
  <1>2. n \in Nat \ {0} /\ Current = path[n] /\ Current.task \in Task
    BY <1>1, TopIsFrame
  <1>3. Len(path') = n - 1 /\ \A i \in 1..(n - 1) : path'[i] = path[i]
    BY <1>1, FrontFacts DEF WalkTypes
  <1> HIDE DEF n
  <1>4. OnPath = {path[i].task : i \in 1..n} /\ DOMAIN path' = 1..(n - 1)
    BY <1>3, PathMembers, LenProperties DEF WalkTypes, n
  <1>5. 1..n = (1..(n - 1)) \cup {n}
    BY <1>2
  <1>6. OnPath' = {path[i].task : i \in 1..(n - 1)}
    BY <1>3, <1>4 DEF OnPath
  <1>7. OnPath = OnPath' \cup {Current.task}
    BY <1>2, <1>4, <1>5, <1>6
  <1>8. ToSet(visited') = ToSet(visited) \cup {Current.task}
    BY <1>1, <1>2, AppendMembers DEF WalkTypes
  <1> QED
    BY <1>2, <1>3, <1>7, <1>8 DEF n

\* A move keeps the planned tasks.
LEMMA MoveMembers ==
  ASSUME WalkTypes, WalkTypes', Move
  PROVE  Planned' = Planned
  <1>1. PICK i, j \in 1..Len(order) : i < j /\ MoveAfter(i, j)
    BY MoveIsLater
  <1> DEFINE n == Len(order)
  <1>2. DOMAIN order = 1..n /\ n \in Nat /\ i \in 1..n /\ j \in 1..n
    BY Members DEF WalkTypes
  <1>3. /\ Len(order') = n /\ order'[j] = order[i]
        /\ \A m \in 1..n : i <= m /\ m < j => order'[m] = order[m + 1]
        /\ \A m \in 1..n : m < i \/ j < m => order'[m] = order[m]
    BY <1>1, OrderMoved
  <1>4. DOMAIN order' = 1..n
    BY <1>3, LenProperties DEF WalkTypes
  <1> HIDE DEF n
  <1>5. ASSUME NEW m \in 1..n PROVE \E k \in 1..n : order'[m] = order[k]
    <2>1. CASE m = j
      BY <1>2, <1>3, <2>1
    <2>2. CASE i <= m /\ m < j
      <3>1. m + 1 \in 1..n
        BY <1>2, <2>2
      <3> QED
        BY <1>3, <2>2, <3>1
    <2>3. CASE m < i \/ j < m
      BY <1>3, <2>3
    <2> QED
      BY <1>2, <2>1, <2>2, <2>3
  <1>6. ASSUME NEW m \in 1..n PROVE \E k \in 1..n : order[m] = order'[k]
    <2>1. CASE m = i
      BY <1>2, <1>3, <2>1
    <2>2. CASE i < m /\ m <= j
      <3>1. m - 1 \in 1..n /\ i <= m - 1 /\ m - 1 < j /\ (m - 1) + 1 = m
        BY <1>2, <2>2
      <3>2. order'[m - 1] = order[(m - 1) + 1]
        BY <1>3, <3>1
      <3> QED
        BY <3>1, <3>2
    <2>3. CASE m < i \/ j < m
      BY <1>3, <2>3
    <2> QED
      BY <1>2, <2>1, <2>2, <2>3
  <1>7. Planned = {order[m] : m \in 1..n}
    BY <1>2 DEF Planned, ToSet
  <1>8. Planned' = {order'[m] : m \in 1..n}
    BY <1>4 DEF Planned, ToSet
  <1>9. Planned' \subseteq Planned
    BY <1>5, <1>7, <1>8
  <1>10. Planned \subseteq Planned'
    BY <1>6, <1>7, <1>8
  <1> QED
    BY <1>9, <1>10

-----------------------------------------------------------------------------
(* The plan is closed, and a task that depends on itself is found *)

\* All that planning works with is reached from the named task.
Reached ==
  /\ Planned \subseteq Reach /\ ToSet(visited) \subseteq Reach /\ OnPath \subseteq Reach
  /\ ToSet(pending) \subseteq Reach /\ ToSet(refs) \subseteq Reach /\ ToSet(todo) \subseteq Reach

LEMMA ReachedStep ==
  ASSUME WalkTypes, WalkTypes', PhaseSound, Reached, [PlanNext]_planVars
  PROVE  Reached'
  <1>1. /\ Reach' = Reach /\ root \in Reach /\ set' = set
        /\ \A u \in Reach : Needs(u) \subseteq Reach /\ ToSet(set.groups[u]) \subseteq Reach
    BY ReachFacts, ConfigurationKept
  <1> USE DEF Planned
  <1>2. CASE UNCHANGED <<path, visited, order, pending, refs, todo>>
    BY <1>1, <1>2 DEF Reached, OnPath
  <1>3. CASE UNCHANGED planVars
    BY <1>2, <1>3 DEF planVars
  <1>4. CASE Refuse \/ EndAdd \/ EndGroups \/ EndPlan \/ \E d \in Task : ReportCycle(d)
    BY <1>2, <1>4 DEF Refuse, EndAdd, EndGroups, EndPlan, ReportCycle
  <1>5. CASE VisitRoot
    <2>1. OnPath' = {root} /\ ToSet(visited') = {}
      BY <1>5, VisitMembers DEF VisitRoot, WalkTypes
    <2> QED
      BY <1>1, <1>5, <2>1 DEF Reached, VisitRoot
  <1>6. ASSUME NEW d \in Task, SkipDone(d) PROVE Reached'
    <2>1. OnPath' = OnPath
      BY <1>6, SkipMembers
    <2> QED
      BY <1>1, <1>6, <2>1 DEF Reached, SkipDone
  <1>7. ASSUME NEW d \in Task, Descend(d) PROVE Reached'
    <2>1. /\ OnPath' = OnPath \cup {d} /\ Len(path) \in Nat \ {0}
          /\ d \in Needs(path[Len(path)].task)
      BY <1>7, DescendMembers
    <2>2. path[Len(path)].task \in OnPath
      BY <2>1, PathMembers
    <2>3. d \in Reach
      BY <1>1, <2>1, <2>2 DEF Reached
    <2> QED
      BY <1>1, <1>7, <2>1, <2>3 DEF Reached, Descend
  <1>8. CASE Leave
    <2>1. OnPath = OnPath' \cup {Current.task} /\ ToSet(visited') = ToSet(visited) \cup {Current.task}
      BY <1>8, LeaveMembers
    <2> QED
      BY <1>1, <1>8, <2>1 DEF Reached, Leave
  <1>9. CASE TakeOrder
    <2>1. /\ order' = visited /\ pending' = visited /\ path' = path
          /\ UNCHANGED <<visited, refs, todo>>
      BY <1>9 DEF TakeOrder
    <2> QED
      BY <1>1, <2>1 DEF Reached, OnPath
  <1>10. CASE LookAtGroups
    <2>1. ToSet(pending) = ToSet(Front(pending)) \cup {Last(pending)}
      BY <1>10, FrontLastMembers DEF LookAtGroups, WalkTypes
    <2>2. /\ pending' = Front(pending) /\ refs' = set.groups[Last(pending)]
          /\ UNCHANGED <<path, visited, order, todo>>
      BY <1>10 DEF LookAtGroups
    <2> QED
      BY <1>1, <2>1, <2>2 DEF Reached, OnPath
  <1>11. CASE SkipPlanned
    <2>1. ToSet(refs) = {Head(refs)} \cup ToSet(refs')
      BY <1>11, HeadTailMembers DEF SkipPlanned, WalkTypes
    <2>2. UNCHANGED <<path, visited, order, pending, todo>>
      BY <1>11 DEF SkipPlanned
    <2> QED
      BY <1>1, <2>1, <2>2 DEF Reached, OnPath
  <1>12. CASE VisitGrouped
    <2>1. ToSet(refs) = {Head(refs)} \cup ToSet(refs') /\ Head(refs) \in Task
      BY <1>12, HeadTailMembers DEF VisitGrouped, WalkTypes
    <2>2. OnPath' = {Head(refs)} /\ ToSet(visited') = {}
      BY <1>12, <2>1, VisitMembers DEF VisitGrouped
    <2>3. UNCHANGED <<order, pending, todo>>
      BY <1>12 DEF VisitGrouped
    <2> QED
      BY <1>1, <2>1, <2>2, <2>3 DEF Reached
  <1>13. CASE Add
    <2>1. ToSet(visited) = {Head(visited)} \cup ToSet(visited') /\ Head(visited) \in Task
      BY <1>13, HeadTailMembers DEF Add, WalkTypes
    <2>2. \/ order' = order /\ pending' = pending
          \/ order' = Append(order, Head(visited)) /\ pending' = Append(pending, Head(visited))
      BY <1>13 DEF Add
    <2>3. /\ ToSet(order') \subseteq ToSet(order) \cup {Head(visited)}
          /\ ToSet(pending') \subseteq ToSet(pending) \cup {Head(visited)}
      BY <2>1, <2>2, AppendMembers, ZenonT(60) DEF WalkTypes
    <2>4. UNCHANGED <<path, refs, todo>>
      BY <1>13 DEF Add
    <2> QED
      BY <1>1, <2>1, <2>3, <2>4 DEF Reached, OnPath
  <1>14. CASE Move
    <2>1. Planned' = Planned /\ UNCHANGED <<path, visited, pending, refs, todo>>
      BY <1>14, MoveMembers DEF Move
    <2> QED
      BY <1>1, <2>1 DEF Reached, OnPath
  <1>15. CASE EndHints
    <2>1. todo' = order /\ UNCHANGED <<path, visited, order, pending, refs>>
      BY <1>15 DEF EndHints
    <2> QED
      BY <1>1, <2>1 DEF Reached, OnPath
  <1>16. CASE VisitListed
    <2>1. ToSet(todo) = {Head(todo)} \cup ToSet(Tail(todo)) /\ Head(todo) \in Task
      BY <1>16, HeadTailMembers DEF VisitListed, WalkTypes
    <2>2. OnPath' = {Head(todo)} /\ ToSet(visited') = {}
      BY <1>16, <2>1, VisitMembers DEF VisitListed
    <2>3. UNCHANGED <<order, pending, refs, todo>>
      BY <1>16 DEF VisitListed
    <2> QED
      BY <1>1, <2>1, <2>2, <2>3 DEF Reached
  <1>17. CASE ListPrerequisites
    <2>1. ToSet(todo) = {Head(todo)} \cup ToSet(todo')
      BY <1>17, HeadTailMembers DEF ListPrerequisites, VisitReturned, PhaseSound, WalkTypes
    <2>2. UNCHANGED <<path, visited, order, pending, refs>>
      BY <1>17 DEF ListPrerequisites
    <2> QED
      BY <1>1, <2>1, <2>2 DEF Reached, OnPath
  <1> QED
    BY <1>3, <1>4, <1>5, <1>6, <1>7, <1>8, <1>9, <1>10, <1>11, <1>12, <1>13, <1>14, <1>15,
       <1>16, <1>17 DEF PlanNext

\* Each task on the path depends on the next.
Chain == \A i \in 1..(Len(path) - 1) : path[i + 1].task \in Needs(path[i].task)

LEMMA ChainStep ==
  ASSUME WalkTypes, WalkTypes', Chain, [PlanNext]_planVars
  PROVE  Chain'
  <1>1. /\ set' = set /\ Len(path) \in Nat
        /\ \A t : Needs(t)' = Needs(t)
    BY ConfigurationKept, PathMembers
  <1>2. CASE path' = path
    BY <1>1, <1>2 DEF Chain, Needs
  <1>3. CASE UNCHANGED planVars
    BY <1>2, <1>3 DEF planVars
  <1>4. CASE Refuse \/ EndAdd \/ EndGroups \/ EndPlan \/ \E d \in Task : ReportCycle(d)
    BY <1>2, <1>4 DEF Refuse, EndAdd, EndGroups, EndPlan, ReportCycle
  <1>5. CASE TakeOrder \/ LookAtGroups \/ SkipPlanned \/ Add \/ Move \/ EndHints \/ ListPrerequisites
    BY <1>2, <1>5 DEF TakeOrder, LookAtGroups, SkipPlanned, Add, Move, EndHints, ListPrerequisites
  <1>6. CASE VisitRoot \/ VisitGrouped \/ VisitListed
    <2>1. Len(path') = 1
      BY <1>6 DEF VisitRoot, VisitGrouped, VisitListed, Visit
    <2> QED
      BY <2>1 DEF Chain
  <1>7. ASSUME NEW d \in Task, SkipDone(d) PROVE Chain'
    <2>1. Len(path') = Len(path) /\ \A i \in 1..Len(path) : path'[i].task = path[i].task
      BY <1>7, SkipMembers
    <2>2. ASSUME NEW i \in 1..(Len(path) - 1) PROVE path'[i + 1].task \in Needs(path'[i].task)
      <3>1. i \in 1..Len(path) /\ i + 1 \in 1..Len(path)
        BY <1>1
      <3> QED
        BY <2>1, <3>1 DEF Chain
    <2> QED
      BY <1>1, <2>1, <2>2 DEF Chain, Needs
  <1>8. ASSUME NEW d \in Task, Descend(d) PROVE Chain'
    <2>1. /\ Len(path) \in Nat \ {0} /\ Len(path') = Len(path) + 1
          /\ \A i \in 1..Len(path) : path'[i].task = path[i].task
          /\ path'[Len(path) + 1].task = d /\ d \in Needs(path[Len(path)].task)
      BY <1>8, DescendMembers
    <2>2. ASSUME NEW i \in 1..Len(path) PROVE path'[i + 1].task \in Needs(path'[i].task)
      <3>1. CASE i = Len(path)
        BY <2>1, <3>1
      <3>2. CASE i # Len(path)
        <4>1. i \in 1..(Len(path) - 1) /\ i + 1 \in 1..Len(path)
          BY <2>1, <3>2
        <4> QED
          BY <2>1, <4>1 DEF Chain
      <3> QED
        BY <3>1, <3>2
    <2>3. 1..(Len(path') - 1) = 1..Len(path)
      BY <2>1
    <2> QED
      BY <1>1, <2>2, <2>3 DEF Chain, Needs
  <1>9. CASE Leave
    <2>1. /\ Len(path) \in Nat \ {0} /\ Len(path') = Len(path) - 1
          /\ \A i \in 1..(Len(path) - 1) : path'[i] = path[i]
      BY <1>9, LeaveMembers
    <2>2. ASSUME NEW i \in 1..(Len(path') - 1) PROVE path'[i + 1].task \in Needs(path'[i].task)
      <3>1. i \in 1..(Len(path) - 1) /\ i + 1 \in 1..(Len(path) - 1)
        BY <2>1
      <3> QED
        BY <2>1, <3>1 DEF Chain
    <2> QED
      BY <1>1, <2>2 DEF Chain, Needs
  <1> QED
    BY <1>3, <1>4, <1>5, <1>6, <1>7, <1>8, <1>9 DEF PlanNext

\* A task on the path depends, over those above it, on the task that is come to.
LEMMA CycleOnPath ==
  ASSUME WalkTypes, Chain, NEW d \in Task, ReportCycle(d)
  PROVE  d \in Deps(d) /\ d \in OnPath
  <1>1. /\ path # <<>> /\ d \in OnPath /\ d = set.depends[Current.task][Current.at]
        /\ Current.at <= Len(set.depends[Current.task])
    BY DEF ReportCycle, ComesTo
  <1>2. /\ Len(path) \in Nat \ {0} /\ Current = path[Len(path)] /\ Current.at \in Nat \ {0}
        /\ DOMAIN set.depends[Current.task] = 1..Len(set.depends[Current.task])
        /\ Len(set.depends[Current.task]) \in Nat
    BY <1>1, TopIsFrame
  <1>3. d \in Needs(path[Len(path)].task)
    BY <1>1, <1>2 DEF Needs, ToSet
  <1>4. PICK i \in 1..Len(path) : path[i].task = d
    BY <1>1, PathMembers
  <1>5. Needs(d) \subseteq Deps(d) /\ \A u \in Deps(d) : Needs(u) \subseteq Deps(d)
    BY DepsFacts
  <1>6. CASE i = Len(path)
    BY <1>1, <1>3, <1>4, <1>5, <1>6
  <1>7. CASE i < Len(path)
    <2> DEFINE outside == {k \in (i + 1)..Len(path) : path[k].task \notin Deps(d)}
    <2>1. outside = {}
      <3>1. SUFFICES ASSUME outside # {} PROVE FALSE
        OBVIOUS
      <3>2. outside \subseteq Nat
        BY <1>2
      <3>3. \A k \in outside : k \in (i + 1)..Len(path) /\ path[k].task \notin Deps(d)
        OBVIOUS
      <3>4. \A k \in (i + 1)..Len(path) : path[k].task \notin Deps(d) => k \in outside
        OBVIOUS
      <3> HIDE DEF outside
      <3>5. PICK k \in outside : \A j \in outside : k <= j
        BY <3>1, <3>2, MinExists
      <3>6. k \in (i + 1)..Len(path) /\ k - 1 \in 1..(Len(path) - 1) /\ (k - 1) + 1 = k
            /\ ~(k <= k - 1)
        BY <1>2, <3>3, <3>5
      <3>7. path[k].task \in Needs(path[k - 1].task)
        BY <3>6 DEF Chain
      <3>8. path[k - 1].task = d \/ path[k - 1].task \in Deps(d)
        <4>1. CASE k = i + 1
          <5>1. k - 1 = i
            BY <4>1
          <5> QED
            BY <1>4, <5>1
        <4>2. CASE k # i + 1
          <5>1. k - 1 \in (i + 1)..Len(path)
            BY <3>6, <4>2
          <5> QED
            BY <3>4, <3>5, <3>6, <5>1
        <4> QED
          BY <4>1, <4>2
      <3> QED
        BY <1>5, <3>3, <3>5, <3>7, <3>8
    <2>2. Len(path) \in (i + 1)..Len(path)
      BY <1>2, <1>7
    <2>3. path[Len(path)].task \in Deps(d)
      BY <2>1, <2>2
    <2> QED
      BY <1>1, <1>3, <1>5, <2>3
  <1> QED
    BY <1>2, <1>6, <1>7

Settled == {"hints", "list", "prereqs", "planned"}

\* Where the named task is, and what is still to be looked at of the groups of the tasks
\* planned.
Growing ==
  /\ phase \in {"check", "root", "groups", "group"} => passes = 0
  /\ phase = "root" => root \in OnPath \cup ToSet(visited)
  /\ phase \in {"groups", "group"} \cup Settled => root \in Planned
  /\ phase = "groups" => \A t \in Planned \ ToSet(pending) :
       ToSet(set.groups[t]) \subseteq Planned \cup ToSet(refs)
  /\ phase = "group" => \A t \in Planned \ ToSet(pending) :
       ToSet(set.groups[t]) \subseteq Planned \cup ToSet(refs) \cup OnPath \cup ToSet(visited)

LEMMA GrowingStep ==
  ASSUME WalkTypes, WalkTypes', PhaseSound, Growing, [PlanNext]_planVars
  PROVE  Growing'
  <1>1. set' = set /\ root' = root
    BY ConfigurationKept
  <1> USE DEF Planned, Settled
  <1>2. CASE UNCHANGED <<phase, path, visited, order, pending, refs, passes>>
    BY <1>1, <1>2 DEF Growing, OnPath
  <1>3. CASE UNCHANGED planVars
    BY <1>2, <1>3 DEF planVars
  <1>4. CASE Refuse \/ \E d \in Task : ReportCycle(d)
    BY <1>1, <1>4 DEF Growing, Refuse, ReportCycle
  <1>5. CASE VisitRoot
    <2>1. OnPath' = {root} /\ phase' = "root" /\ passes' = passes /\ phase = "check"
      BY <1>5, VisitMembers DEF VisitRoot, WalkTypes
    <2> QED
      BY <1>1, <2>1 DEF Growing
  <1>6. ASSUME NEW d \in Task, SkipDone(d) PROVE Growing'
    <2>1. OnPath' = OnPath
      BY <1>6, SkipMembers
    <2>2. UNCHANGED <<phase, visited, order, pending, refs, passes>>
      BY <1>6 DEF SkipDone
    <2> QED
      BY <1>1, <2>1, <2>2 DEF Growing
  <1>7. ASSUME NEW d \in Task, Descend(d) PROVE Growing'
    <2>1. OnPath' = OnPath \cup {d}
      BY <1>7, DescendMembers
    <2>2. UNCHANGED <<phase, visited, order, pending, refs, passes>>
      BY <1>7 DEF Descend
    <2> QED
      BY <1>1, <2>1, <2>2 DEF Growing
  <1>8. CASE Leave
    <2>1. OnPath = OnPath' \cup {Current.task} /\ ToSet(visited') = ToSet(visited) \cup {Current.task}
      BY <1>8, LeaveMembers
    <2>2. UNCHANGED <<phase, order, pending, refs, passes>>
      BY <1>8 DEF Leave
    <2> QED
      BY <1>1, <2>1, <2>2 DEF Growing
  <1>9. CASE TakeOrder
    <2>1. /\ phase = "root" /\ phase' = "groups" /\ path = <<>> /\ passes' = passes
          /\ order' = visited /\ pending' = visited
      BY <1>9 DEF TakeOrder, VisitReturned
    <2>2. OnPath = {}
      BY <2>1 DEF OnPath
    <2> QED
      BY <1>1, <2>1, <2>2 DEF Growing
  <1>10. CASE LookAtGroups
    <2>1. ToSet(pending) = ToSet(Front(pending)) \cup {Last(pending)}
      BY <1>10, FrontLastMembers DEF LookAtGroups, WalkTypes
    <2>2. /\ pending' = Front(pending) /\ refs' = set.groups[Last(pending)] /\ refs = <<>>
          /\ UNCHANGED <<phase, path, visited, order, passes>> /\ phase = "groups"
      BY <1>10 DEF LookAtGroups
    <2>3. ToSet(refs) = {}
      BY <2>2, EmptyMembers
    <2> QED
      BY <1>1, <2>1, <2>2, <2>3 DEF Growing
  <1>11. CASE SkipPlanned
    <2>1. ToSet(refs) = {Head(refs)} \cup ToSet(refs') /\ Head(refs) \in ToSet(order)
      BY <1>11, HeadTailMembers DEF SkipPlanned, WalkTypes
    <2>2. UNCHANGED <<phase, path, visited, order, pending, passes>> /\ phase = "groups"
      BY <1>11 DEF SkipPlanned
    <2> QED
      BY <1>1, <2>1, <2>2 DEF Growing
  <1>12. CASE VisitGrouped
    <2>1. ToSet(refs) = {Head(refs)} \cup ToSet(refs') /\ Head(refs) \in Task
      BY <1>12, HeadTailMembers DEF VisitGrouped, WalkTypes
    <2>2. OnPath' = {Head(refs)}
      BY <1>12, <2>1, VisitMembers DEF VisitGrouped
    <2>3. UNCHANGED <<order, pending, passes>> /\ phase = "groups" /\ phase' = "group"
      BY <1>12 DEF VisitGrouped
    <2> QED
      BY <1>1, <2>1, <2>2, <2>3 DEF Growing
  <1>13. CASE Add
    <2>1. ToSet(visited) = {Head(visited)} \cup ToSet(visited') /\ Head(visited) \in Task
      BY <1>13, HeadTailMembers DEF Add, WalkTypes
    <2>2. \/ order' = order /\ pending' = pending /\ Head(visited) \in ToSet(order)
          \/ order' = Append(order, Head(visited)) /\ pending' = Append(pending, Head(visited))
      BY <1>13 DEF Add
    <2>3. /\ ToSet(order') = ToSet(order) \cup {Head(visited)}
          /\ ToSet(order') \ ToSet(pending') \subseteq ToSet(order) \ ToSet(pending)
      <3>1. order \in Seq(Task) /\ pending \in Seq(Task)
        BY DEF WalkTypes
      <3>2. /\ ToSet(Append(order, Head(visited))) = ToSet(order) \cup {Head(visited)}
            /\ ToSet(Append(pending, Head(visited))) = ToSet(pending) \cup {Head(visited)}
        BY <2>1, <3>1, AppendMembers
      <3> HIDE DEF Planned
      <3>3. CASE order' = order /\ pending' = pending /\ Head(visited) \in ToSet(order)
        BY <3>3
      <3>4. CASE order' = Append(order, Head(visited)) /\ pending' = Append(pending, Head(visited))
        BY <3>2, <3>4
      <3> QED
        BY <2>2, <3>3, <3>4
    <2>4. UNCHANGED <<phase, path, refs, passes>> /\ phase = "group"
      BY <1>13 DEF Add, VisitReturned
    <2>5. OnPath' = OnPath
      BY <2>4 DEF OnPath
    <2>6. ASSUME NEW t \in ToSet(order') \ ToSet(pending')
          PROVE  ToSet(set.groups[t])
                   \subseteq ToSet(order') \cup ToSet(refs) \cup OnPath \cup ToSet(visited')
      <3>1. t \in ToSet(order) \ ToSet(pending)
        BY <2>3, <2>6
      <3>2. ToSet(set.groups[t])
              \subseteq ToSet(order) \cup ToSet(refs) \cup OnPath \cup ToSet(visited)
        BY <2>4, <3>1 DEF Growing
      <3> QED
        BY <2>1, <2>3, <3>2
    <2> QED
      BY <1>1, <2>3, <2>4, <2>5, <2>6 DEF Growing
  <1>14. CASE EndAdd
    <2>1. /\ phase = "group" /\ phase' = "groups" /\ path = <<>> /\ visited = <<>>
          /\ UNCHANGED <<order, pending, refs, passes>>
      BY <1>14 DEF EndAdd, VisitReturned
    <2>2. OnPath = {} /\ ToSet(visited) = {}
      BY <2>1, EmptyMembers DEF OnPath
    <2> QED
      BY <1>1, <2>1, <2>2 DEF Growing
  <1>15. CASE EndGroups
    BY <1>1, <1>15 DEF Growing, EndGroups
  <1>16. CASE Move
    <2>1. Planned' = Planned /\ phase' = phase /\ phase = "hints"
      BY <1>16, MoveMembers DEF Move
    <2> QED
      BY <1>1, <2>1 DEF Growing
  <1>17. CASE EndHints \/ VisitListed \/ ListPrerequisites \/ EndPlan
    BY <1>1, <1>17 DEF Growing, EndHints, VisitListed, ListPrerequisites, EndPlan, VisitReturned
  <1> QED
    BY <1>3, <1>4, <1>5, <1>6, <1>7, <1>8, <1>9, <1>10, <1>11, <1>12, <1>13, <1>14, <1>15,
       <1>16, <1>17 DEF PlanNext

\* When the groups have been looked at, the plan is what the named task leads to, and no
\* planned task depends on itself; a cycle that is reported is one.
Outcome ==
  /\ phase \in Settled => Planned = Reach /\ \A t \in Planned : t \notin Deps(t)
  /\ phase = "cycle" => \E t \in Reach : t \in Deps(t)

\* In an order that starts with the dependencies nothing depends on itself.
LEMMA OrderedIsAcyclic ==
  ASSUME WalkTypes, EachOnce, InOrder(order), NEW t \in Planned
  PROVE  t \notin Deps(t) /\ Needs(t) \subseteq Planned
  <1>1. order \in Seq(Task) /\ DOMAIN order = 1..Len(order) /\ Len(order) \in Nat
    BY Members DEF WalkTypes
  <1>2. PICK i \in 1..Len(order) : order[i] = t
    BY <1>1 DEF Planned, ToSet
  <1> DEFINE S == {order[j] : j \in 1..(i - 1)}
  <1>3. \A j \in 1..(i - 1) : j \in 1..Len(order) /\ 1..(j - 1) \subseteq 1..(i - 1)
    BY <1>1
  <1>4. t \in Task /\ S \in SUBSET Task
    <2>1. \A j \in 1..Len(order) : order[j] \in Task
      BY <1>1, ElementOfSeq
    <2> QED
      BY <1>2, <1>3, <2>1
  <1>5. Needs(t) \subseteq S
    BY <1>1, <1>2 DEF InOrder
  <1>6. \A u \in S : Needs(u) \subseteq S
    <2> SUFFICES ASSUME NEW j \in 1..(i - 1) PROVE Needs(order[j]) \subseteq S
      OBVIOUS
    <2>1. Needs(order[j]) \subseteq {order[k] : k \in 1..(j - 1)}
      BY <1>1, <1>3 DEF InOrder
    <2> QED
      BY <1>3, <2>1
  <1>7. Deps(t) \subseteq S
    BY <1>4, <1>5, <1>6, DepsFacts
  <1>8. t \notin S
    <2> SUFFICES ASSUME NEW j \in 1..(i - 1), order[j] = order[i] PROVE FALSE
      BY <1>2
    <2>1. j = i
      BY <1>1, <1>3 DEF EachOnce, IsInjective
    <2> QED
      BY <1>1, <2>1
  <1>9. S \subseteq Planned
    BY <1>1, <1>3 DEF Planned, ToSet
  <1> QED
    BY <1>5, <1>7, <1>8, <1>9

LEMMA OutcomeStep ==
  ASSUME WalkTypes, WalkTypes', EachOnce, DependenciesFirst, Reached, Chain, Growing, Outcome,
         [PlanNext]_planVars
  PROVE  Outcome'
  <1>1. Reach' = Reach /\ \A t : Deps(t)' = Deps(t)
    BY ConfigurationKept
  <1> USE DEF Settled
  <1>2. CASE Planned' = Planned /\ phase' \in Settled /\ phase \in Settled
    BY <1>1, <1>2 DEF Outcome
  <1>3. CASE phase' \notin Settled \cup {"cycle"}
    BY <1>3 DEF Outcome
  <1>4. CASE UNCHANGED <<order, phase>>
    <2>1. Planned' = Planned
      BY <1>4 DEF Planned
    <2> QED
      BY <1>1, <1>4, <2>1 DEF Outcome
  <1>5. CASE UNCHANGED planVars
    BY <1>4, <1>5 DEF planVars
  <1>6. CASE Refuse \/ VisitRoot \/ TakeOrder \/ VisitGrouped \/ EndAdd
    BY <1>3, <1>6 DEF Refuse, VisitRoot, TakeOrder, VisitGrouped, EndAdd
  <1>7. CASE Leave \/ LookAtGroups \/ SkipPlanned \/ \E d \in Task : SkipDone(d) \/ Descend(d)
    BY <1>4, <1>7 DEF Leave, LookAtGroups, SkipPlanned, SkipDone, Descend
  <1>8. ASSUME NEW d \in Task, ReportCycle(d) PROVE Outcome'
    <2>1. d \in Deps(d) /\ d \in Reach /\ phase' = "cycle"
      BY <1>8, CycleOnPath DEF Reached, ReportCycle
    <2> QED
      BY <1>1, <2>1 DEF Outcome
  <1>9. CASE Add
    BY <1>3, <1>9 DEF Add, VisitReturned
  <1>10. CASE EndGroups
    <2>1. /\ phase = "groups" /\ phase' = "hints" /\ refs = <<>> /\ pending = <<>> /\ order' = order
      BY <1>10 DEF EndGroups
    <2>2. passes = 0 /\ root \in Planned
          /\ \A t \in Planned : ToSet(set.groups[t]) \subseteq Planned
      BY <2>1, EmptyMembers DEF Growing
    <2>3. InOrder(order)
      BY <2>2 DEF DependenciesFirst
    <2>4. \A t \in Planned : t \notin Deps(t) /\ Needs(t) \subseteq Planned
      BY <2>3, OrderedIsAcyclic
    <2>5. Planned \in SUBSET Task
      BY Members DEF Planned, WalkTypes
    <2>6. Planned = Reach
      BY <2>2, <2>4, <2>5, ReachFacts DEF Reached
    <2>7. Planned' = Planned
      BY <2>1 DEF Planned
    <2> QED
      BY <1>1, <2>1, <2>4, <2>6, <2>7 DEF Outcome
  <1>11. CASE Move
    BY <1>2, <1>11, MoveMembers DEF Move
  <1>12. CASE EndHints \/ VisitListed \/ ListPrerequisites \/ EndPlan
    BY <1>2, <1>12 DEF EndHints, VisitListed, ListPrerequisites, EndPlan, VisitReturned, Planned
  <1> QED
    BY <1>5, <1>6, <1>7, <1>8, <1>9, <1>10, <1>11, <1>12 DEF PlanNext

-----------------------------------------------------------------------------
(* The prerequisites of each task *)

\* The visit whose result is listed: what it has met are dependencies of the task it was
\* called for, the task itself is left last, and each follows what it needs.
Listing ==
  phase = "prereqs" =>
    /\ path # <<>> =>
         /\ path[1].task = Head(todo) /\ ToSet(visited) \subseteq Deps(Head(todo))
         /\ \A i \in 2..Len(path) : path[i].task \in Deps(Head(todo))
    /\ path = <<>> =>
         /\ visited # <<>> /\ visited[Len(visited)] = Head(todo)
         /\ \A i \in 1..(Len(visited) - 1) : visited[i] \in Deps(Head(todo))
    /\ InOrder(visited)

\* The configuration is the same after a step, and so is what is in order.
LEMMA VisitedInOrderKept ==
  ASSUME [PlanNext]_planVars, visited' = visited, InOrder(visited)
  PROVE  InOrder(visited)'
  <1>1. \A t : Needs(t)' = Needs(t)
    BY ConfigurationKept
  <1> QED
    BY <1>1 DEF InOrder

LEMMA ListingLeaves ==
  ASSUME WalkTypes, WalkTypes', PhaseSound, PathSound, VisitedOnce, Listing, [PlanNext]_planVars,
         phase = "prereqs", Leave
  PROVE  Listing'
  <1> DEFINE n == Len(path)
             c == Head(todo)
  <1>1. /\ set' = set /\ todo' = todo /\ phase' = phase /\ path # <<>>
        /\ Deps(c)' = Deps(c)
    BY ConfigurationKept DEF Leave
  <1>2. c \in Task
    BY HeadTailMembers DEF PhaseSound, WalkTypes
  <1>3. /\ n \in Nat \ {0} /\ Len(path') = n - 1 /\ \A i \in 1..(n - 1) : path'[i] = path[i]
        /\ Current = path[n] /\ Current.task \in Task
        /\ ToSet(visited') = ToSet(visited) \cup {Current.task}
    BY LeaveMembers
  <1>4. /\ Needs(Current.task) \subseteq ToSet(visited)
        /\ Len(visited') = Len(visited) + 1 /\ Len(visited) \in Nat
        /\ visited'[Len(visited) + 1] = Current.task
        /\ \A i \in 1..Len(visited) : visited'[i] = visited[i]
    BY LeaveFacts
  <1>5. /\ path[1].task = c /\ ToSet(visited) \subseteq Deps(c) /\ InOrder(visited)
        /\ \A i \in 2..n : path[i].task \in Deps(c)
    BY <1>1 DEF Listing
  <1>6. DOMAIN visited = 1..Len(visited) /\ DOMAIN visited' = 1..(Len(visited) + 1)
    BY <1>4, LenProperties DEF WalkTypes
  <1>7. InOrder(visited)'
    <2>1. ASSUME NEW i \in 1..(Len(visited) + 1)
          PROVE  Needs(visited'[i]) \subseteq {visited'[j] : j \in 1..(i - 1)}
      <3>1. CASE i = Len(visited) + 1
        <4>1. ToSet(visited) = {visited'[j] : j \in 1..Len(visited)}
          BY <1>4, <1>6 DEF ToSet
        <4>2. i - 1 = Len(visited)
          BY <1>4, <3>1
        <4> QED
          BY <1>4, <3>1, <4>1, <4>2
      <3>2. CASE i # Len(visited) + 1
        <4>1. i \in 1..Len(visited) /\ \A j \in 1..(i - 1) : j \in 1..Len(visited)
          BY <1>4, <3>2
        <4>2. Needs(visited[i]) \subseteq {visited[j] : j \in 1..(i - 1)}
          BY <1>5, <1>6, <4>1 DEF InOrder
        <4> QED
          BY <1>4, <4>1, <4>2
      <3> QED
        BY <3>1, <3>2
    <2> QED
      BY <1>1, <1>6, <2>1 DEF InOrder, Needs
  <1>8. CASE n = 1
    <2>1. path' = <<>>
      BY <1>3, <1>8, EmptySeq DEF WalkTypes
    <2>2. /\ visited'[Len(visited')] = c /\ visited' # <<>>
          /\ \A i \in 1..(Len(visited') - 1) : visited'[i] \in Deps(c)
      <3>1. \A i \in 1..Len(visited) : visited[i] \in Deps(c)
        BY <1>5, <1>6 DEF ToSet
      <3>2. (Len(visited) + 1) - 1 = Len(visited) /\ Len(visited') # 0
        BY <1>4
      <3> QED
        BY <1>3, <1>4, <1>5, <1>8, <3>1, <3>2
    <2> QED
      BY <1>1, <1>7, <2>1, <2>2 DEF Listing
  <1>9. CASE n > 1
    <2>1. path' # <<>> /\ Current.task \in Deps(c)
      BY <1>3, <1>5, <1>9
    <2>2. path'[1].task = c /\ \A i \in 2..(n - 1) : path'[i].task \in Deps(c)
      BY <1>3, <1>5, <1>9
    <2> HIDE DEF n, c
    <2>3. ToSet(visited') \subseteq Deps(c)
      BY <1>3, <1>5, <2>1
    <2> QED
      BY <1>1, <1>3, <1>7, <2>1, <2>2, <2>3 DEF Listing, c
  <1> QED
    BY <1>3, <1>8, <1>9

LEMMA ListingStep ==
  ASSUME WalkTypes, WalkTypes', PhaseSound, PathSound, VisitedOnce, Listing, [PlanNext]_planVars
  PROVE  Listing'
  <1>1. set' = set /\ \A t : Deps(t)' = Deps(t) /\ Needs(t)' = Needs(t)
    BY ConfigurationKept
  <1>2. CASE phase' # "prereqs"
    BY <1>2 DEF Listing
  <1>3. CASE UNCHANGED <<path, visited, todo, phase>>
    BY <1>1, <1>3, VisitedInOrderKept DEF Listing
  <1>4. CASE UNCHANGED planVars
    BY <1>3, <1>4 DEF planVars
  <1>5. CASE Refuse \/ VisitRoot \/ TakeOrder \/ VisitGrouped \/ EndAdd \/ EndGroups
    BY <1>2, <1>5 DEF Refuse, VisitRoot, TakeOrder, VisitGrouped, EndAdd, EndGroups
  <1>6. CASE LookAtGroups \/ SkipPlanned \/ Add \/ Move \/ \E d \in Task : ReportCycle(d)
    BY <1>2, <1>6 DEF LookAtGroups, SkipPlanned, Add, Move, ReportCycle, VisitReturned
  <1>7. CASE EndHints \/ ListPrerequisites \/ EndPlan
    BY <1>2, <1>7 DEF EndHints, ListPrerequisites, EndPlan
  <1>8. ASSUME NEW d \in Task, SkipDone(d) PROVE Listing'
    <2>1. /\ path # <<>> /\ path' # <<>> /\ Len(path') = Len(path) /\ Len(path) \in Nat \ {0}
          /\ \A i \in 1..Len(path) : path'[i].task = path[i].task
      BY <1>8, SkipMembers
    <2>2. UNCHANGED <<visited, todo, phase, set>>
      BY <1>8 DEF SkipDone
    <2>3. \A i \in 2..Len(path) : i \in 1..Len(path)
      OBVIOUS
    <2>4. 1 \in 1..Len(path)
      BY <2>1
    <2> QED
      BY <1>1, <2>1, <2>2, <2>3, <2>4, VisitedInOrderKept DEF Listing
  <1>9. ASSUME NEW d \in Task, Descend(d), phase = "prereqs" PROVE Listing'
    <2> DEFINE n == Len(path)
               c == Head(todo)
    <2>1. /\ path # <<>> /\ path' # <<>> /\ n \in Nat \ {0} /\ Len(path') = n + 1
          /\ \A i \in 1..n : path'[i].task = path[i].task
          /\ path'[n + 1].task = d /\ d \in Needs(path[n].task)
      BY <1>9, DescendMembers
    <2>2. UNCHANGED <<visited, todo, phase, set>>
      BY <1>9 DEF Descend
    <2>3. /\ path[1].task = c /\ ToSet(visited) \subseteq Deps(c) /\ InOrder(visited)
          /\ \A i \in 2..n : path[i].task \in Deps(c)
      BY <1>9, <2>1 DEF Listing
    <2>4. c \in Task
      BY <1>9, HeadTailMembers DEF PhaseSound, WalkTypes
    <2>5. Needs(c) \subseteq Deps(c) /\ \A u \in Deps(c) : Needs(u) \subseteq Deps(c)
      BY <2>4, DepsFacts
    <2> HIDE DEF n, c
    <2>6. d \in Deps(c)
      <3>1. CASE n = 1
        BY <2>1, <2>3, <2>5, <3>1
      <3>2. CASE n # 1
        <4>1. n \in 2..n
          BY <2>1, <3>2
        <4> QED
          BY <2>1, <2>3, <2>5, <4>1
      <3> QED
        BY <3>1, <3>2
    <2>7. ASSUME NEW i \in 2..(n + 1) PROVE path'[i].task \in Deps(c)
      <3>1. CASE i = n + 1
        BY <2>1, <2>6, <3>1
      <3>2. CASE i # n + 1
        <4>1. i \in 2..n /\ i \in 1..n
          BY <2>1, <3>2
        <4> QED
          BY <2>1, <2>3, <4>1
      <3> QED
        BY <3>1, <3>2
    <2>8. path'[1].task = c
      BY <2>1, <2>3
    <2> QED
      BY <1>1, <2>1, <2>2, <2>3, <2>7, <2>8, VisitedInOrderKept DEF Listing, c
  <1>10. ASSUME NEW d \in Task, Descend(d), phase # "prereqs" PROVE Listing'
    BY <1>2, <1>10 DEF Descend
  <1>11. CASE Leave
    <2>1. CASE phase = "prereqs"
      BY <1>11, <2>1, ListingLeaves
    <2>2. CASE phase # "prereqs"
      BY <1>2, <1>11, <2>2 DEF Leave
    <2> QED
      BY <2>1, <2>2
  <1>12. CASE VisitListed
    <2>1. Head(todo) \in Task /\ todo' = todo
      BY <1>12, HeadTailMembers DEF VisitListed, WalkTypes
    <2>2. ToSet(visited') = {} /\ Len(path') = 1 /\ path'[1].task = Head(todo)
      BY <1>12, <2>1, VisitMembers DEF VisitListed
    <2>3. visited' = <<>> /\ DOMAIN visited' = {} /\ path' # <<>>
      BY <1>12 DEF VisitListed, Visit
    <2> QED
      BY <2>1, <2>2, <2>3 DEF Listing, InOrder
  <1> QED
    BY <1>4, <1>5, <1>6, <1>7, <1>8, <1>9, <1>10, <1>11, <1>12 DEF PlanNext

\* What has been listed for t.
ListedFor(t) ==
  InOrder(prereqs[t]) /\ IsInjective(prereqs[t]) /\ ToSet(prereqs[t]) = Deps(t)

Listed ==
  /\ prereqs \in Lists
  /\ phase \in {"list", "prereqs", "planned"} =>
       \A t \in Planned \ ToSet(todo) : ListedFor(t)
  /\ phase = "planned" => todo = <<>>

LEMMA ListedNow ==
  ASSUME WalkTypes, WalkTypes', PhaseSound, VisitedOnce, Listing, [PlanNext]_planVars, ListPrerequisites,
         prereqs \in Lists, NEW c, c = Head(todo)
  PROVE  /\ prereqs' \in Lists /\ ListedFor(c)'
         /\ \A t \in Task \ {c} : prereqs'[t] = prereqs[t]
  <1> DEFINE n == Len(visited)
             r == Among(visited, Task \ {c})
  <1>1. phase = "prereqs" /\ path = <<>> /\ prereqs' = [prereqs EXCEPT ![c] = r] /\ set' = set
    BY DEF ListPrerequisites, VisitReturned
  <1>2. c \in Task
    BY <1>1, HeadTailMembers DEF PhaseSound, WalkTypes
  <1>3. /\ visited # <<>> /\ visited[n] = c /\ InOrder(visited)
        /\ \A i \in 1..(n - 1) : visited[i] \in Deps(c)
    BY <1>1 DEF Listing
  <1>4. visited \in Seq(Task) /\ DOMAIN visited = 1..n /\ n \in Nat \ {0}
    <2>1. visited \in Seq(Task)
      BY DEF WalkTypes
    <2>2. DOMAIN visited = 1..n
      BY <2>1, Members
    <2>3. n \in Nat \ {0}
      BY <1>3, <2>1, FrontFacts
    <2> QED
      BY <2>1, <2>2, <2>3
  <1>5. \A i \in 1..(n - 1) : i \in 1..n /\ n \in 1..n /\ i # n
    <2>1. n \in Nat \ {0}
      BY <1>4
    <2> HIDE DEF n
    <2> QED
      BY <2>1
  <1>6. \A i \in 1..(n - 1) : visited[i] # c
    BY <1>3, <1>5 DEF VisitedOnce
  <1>7. r \in Seq(Task) /\ Len(r) = n - 1 /\ \A i \in 1..(n - 1) : r[i] = visited[i]
    <2>1. n \in Nat \ {0} /\ Len(visited) = n
      BY <1>4
    <2> HIDE DEF n
    <2> QED
      BY <1>3, <1>4, <1>6, <2>1, AmongOthers
  <1>8. DOMAIN r = 1..(n - 1)
    BY <1>7, LenProperties
  <1> HIDE DEF n, r
  <1>9. \A i \in 1..n : Needs(visited[i]) \subseteq {visited[j] : j \in 1..(i - 1)}
    BY <1>3, <1>4 DEF InOrder
  <1>10. ASSUME NEW i \in 1..(n - 1) PROVE Needs(r[i]) \subseteq {r[j] : j \in 1..(i - 1)}
    <2>1. \A j \in 1..(i - 1) : r[j] = visited[j]
      <3>1. \A j \in 1..(i - 1) : j \in 1..(n - 1)
        BY <1>4
      <3> QED
        BY <1>7, <3>1
    <2>2. i \in 1..n /\ r[i] = visited[i]
      BY <1>5, <1>7
    <2>3. Needs(visited[i]) \subseteq {visited[j] : j \in 1..(i - 1)}
      BY <1>9, <2>2
    <2>4. {r[j] : j \in 1..(i - 1)} = {visited[j] : j \in 1..(i - 1)}
      BY <2>1
    <2> QED
      BY <2>2, <2>3, <2>4
  <1>11. ASSUME NEW i \in 1..(n - 1), NEW j \in 1..(n - 1), r[i] = r[j] PROVE i = j
    <2>1. visited[i] = visited[j] /\ i \in 1..n /\ j \in 1..n
      BY <1>5, <1>7, <1>11
    <2> QED
      BY <2>1 DEF VisitedOnce, n
  <1> DEFINE S == {visited[i] : i \in 1..(n - 1)}
  <1>12. ToSet(r) = S
    BY <1>7, <1>8 DEF ToSet
  <1>13. S \subseteq Deps(c) /\ Deps(c) \subseteq Task
    BY <1>2, <1>3, DepsFacts DEF n
  <1>14. Needs(c) \subseteq S
    <2>1. n \in 1..n
      BY <1>4
    <2> QED
      BY <1>3, <1>9, <2>1 DEF n
  <1>15. \A u \in S : Needs(u) \subseteq S
    <2> SUFFICES ASSUME NEW i \in 1..(n - 1) PROVE Needs(visited[i]) \subseteq S
      OBVIOUS
    <2>1. \A j \in 1..(i - 1) : j \in 1..(n - 1)
      BY <1>4
    <2> QED
      BY <1>5, <1>9, <2>1
  <1>16. Deps(c) \subseteq S
    BY <1>2, <1>13, <1>14, <1>15, DepsFacts, ZenonT(60)
  <1>17. ToSet(r) = Deps(c)
    BY <1>12, <1>13, <1>16
  <1>18. prereqs' \in Lists /\ prereqs'[c] = r /\ \A t \in Task \ {c} : prereqs'[t] = prereqs[t]
    BY <1>1, <1>2, <1>7 DEF Lists
  <1>19. InOrder(prereqs[c])'
    <2>1. \A i \in DOMAIN r : Needs(r[i]) \subseteq {r[j] : j \in 1..(i - 1)}
      BY <1>8, <1>10
    <2>2. \A t : Needs(t)' = Needs(t)
      BY ConfigurationKept
    <2> QED
      BY <1>18, <2>1, <2>2 DEF InOrder
  <1>20. IsInjective(prereqs'[c]) /\ ToSet(prereqs'[c]) = Deps(c)
    BY <1>8, <1>11, <1>17, <1>18 DEF IsInjective
  <1>21. Deps(c)' = Deps(c)
    BY ConfigurationKept
  <1> QED
    BY <1>18, <1>19, <1>20, <1>21 DEF ListedFor

LEMMA ListedForKept ==
  ASSUME [PlanNext]_planVars, NEW t, prereqs'[t] = prereqs[t], ListedFor(t)
  PROVE  ListedFor(t)'
  <1>1. \A u : Needs(u)' = Needs(u) /\ Deps(u)' = Deps(u)
    BY ConfigurationKept
  <1> QED
    BY <1>1 DEF ListedFor, InOrder

LEMMA ListedStep ==
  ASSUME WalkTypes, WalkTypes', PhaseSound, VisitedOnce, Listing, Listed, [PlanNext]_planVars
  PROVE  Listed'
  <1>1. set' = set /\ \A t : Deps(t)' = Deps(t) /\ Needs(t)' = Needs(t)
    BY ConfigurationKept
  <1>2. ASSUME prereqs' = prereqs, Planned' = Planned, todo' = todo,
               phase' \in {"list", "prereqs", "planned"} => phase \in {"list", "prereqs"},
               phase' = "planned" => todo = <<>>
        PROVE  Listed'
    BY <1>2, ListedForKept DEF Listed
  <1>3. ASSUME prereqs' = prereqs, phase' \notin {"list", "prereqs", "planned"} PROVE Listed'
    BY <1>3 DEF Listed
  <1>4. CASE UNCHANGED planVars
    BY <1>4, ListedForKept DEF planVars, Listed, Planned
  <1>5. CASE Refuse \/ VisitRoot \/ TakeOrder \/ VisitGrouped \/ EndAdd \/ EndGroups
    BY <1>3, <1>5 DEF Refuse, VisitRoot, TakeOrder, VisitGrouped, EndAdd, EndGroups
  <1>6. CASE LookAtGroups \/ SkipPlanned \/ Add \/ Move \/ \E d \in Task : ReportCycle(d)
    BY <1>3, <1>6 DEF LookAtGroups, SkipPlanned, Add, Move, ReportCycle, VisitReturned
  <1>7. CASE Leave \/ \E d \in Task : SkipDone(d) \/ Descend(d)
    <2>1. phase \in Visits /\ UNCHANGED <<phase, prereqs, order, todo>>
      BY <1>7 DEF SkipDone, Descend, Leave, ComesTo
    <2>2. Planned' = Planned /\ phase' # "planned"
      BY <2>1 DEF Planned, Visits
    <2>3. phase' \in {"list", "prereqs", "planned"} => phase \in {"list", "prereqs"}
      BY <2>1 DEF Visits
    <2> QED
      BY <1>2, <2>1, <2>2, <2>3
  <1>8. CASE EndHints
    <2>1. prereqs' = prereqs /\ todo' = order /\ order' = order /\ phase' = "list"
      BY <1>8 DEF EndHints
    <2>2. Planned' \ ToSet(todo') = {}
      BY <2>1 DEF Planned
    <2> QED
      BY <2>1, <2>2 DEF Listed
  <1>9. CASE VisitListed \/ EndPlan
    BY <1>2, <1>9 DEF VisitListed, EndPlan, Planned
  <1>10. CASE ListPrerequisites
    <2>1. /\ phase = "prereqs" /\ phase' = "list" /\ todo' = Tail(todo) /\ Planned' = Planned
          /\ todo # <<>>
      BY <1>10 DEF ListPrerequisites, VisitReturned, Planned, PhaseSound
    <2> DEFINE c == Head(todo)
    <2>2. ToSet(todo) = {c} \cup ToSet(Tail(todo))
      BY <2>1, HeadTailMembers DEF WalkTypes
    <2> HIDE DEF c
    <2>3. PICK e : e = c
      OBVIOUS
    <2>4. /\ prereqs' \in Lists /\ ListedFor(e)'
          /\ \A t \in Task \ {e} : prereqs'[t] = prereqs[t]
      BY <1>10, <2>3, ListedNow DEF Listed, c
    <2>5. ASSUME NEW t \in Planned \ ToSet(Tail(todo)) PROVE ListedFor(t)'
      <3>1. CASE t = e
        BY <2>4, <3>1
      <3>2. CASE t # e
        <4>1. t \in Planned \ ToSet(todo) /\ t \in Task
          BY <2>2, <2>3, <3>2, Members DEF Planned, WalkTypes
        <4>2. ListedFor(t)
          BY <2>1, <4>1 DEF Listed
        <4>3. prereqs'[t] = prereqs[t]
          BY <2>4, <3>2, <4>1
        <4> QED
          BY <4>2, <4>3, ListedForKept
      <3> QED
        BY <3>1, <3>2
    <2> QED
      BY <2>1, <2>4, <2>5 DEF Listed
  <1> QED
    BY <1>4, <1>5, <1>6, <1>7, <1>8, <1>9, <1>10 DEF PlanNext

-----------------------------------------------------------------------------
(* Hints that name one task each *)

HintsSimple == \A t \in Planned : Len(set.waits[t]) <= 1 /\ \A u \in Hints(t) : Hints(u) = {}

\* The tasks that are before one they wait for.
Behind == {order[i] : i \in Early}

EarlyMeans ==
  Early = {i \in 1..Len(order) : \E j \in 1..Len(order) : i < j /\ order[j] \in Hints(order[i])}

LEMMA BehindMeans == WalkTypes /\ EachOnce => EarlyMeans
  <1> SUFFICES ASSUME WalkTypes, EachOnce PROVE EarlyMeans
    OBVIOUS
  <1> DEFINE n == Len(order)
             E == {i \in 1..n : \E j \in 1..n : i < j /\ order[j] \in Hints(order[i])}
  <1>1. DOMAIN order = 1..n /\ n \in Nat
    BY Members DEF WalkTypes
  <1> HIDE DEF n
  <1>2. \A j \in 1..n : Place(order[j]) = j
    BY <1>1 DEF Place, EachOnce, IsInjective
  <1>3. ASSUME NEW i \in Early PROVE i \in E
    <2>1. i \in 1..n /\ LateAt(i) # {}
      BY <1>1, <1>3 DEF Early
    <2>2. PICK k \in DOMAIN set.waits[order[i]] : Late(i, k)
      BY <2>1 DEF LateAt
    <2> DEFINE t == set.waits[order[i]][k]
    <2>3. t \in Planned /\ Place(t) > i /\ t \in ToSet(set.waits[order[i]])
      BY <2>2 DEF Late, ToSet
    <2> HIDE DEF t
    <2>4. PICK j \in 1..n : order[j] = t
      BY <1>1, <2>3 DEF Planned, ToSet
    <2>5. j > i /\ t \in Hints(order[i])
      BY <1>2, <2>3, <2>4 DEF Hints
    <2>6. i < j
      BY <1>1, <2>1, <2>5
    <2> QED
      BY <2>1, <2>4, <2>5, <2>6
  <1>4. ASSUME NEW i \in E PROVE i \in Early
    <2>1. i \in 1..n
      OBVIOUS
    <2>2. PICK j \in 1..n : i < j /\ order[j] \in Hints(order[i])
      OBVIOUS
    <2>3. PICK k \in DOMAIN set.waits[order[i]] : set.waits[order[i]][k] = order[j]
      BY <2>2 DEF Hints, ToSet
    <2>4. order[j] \in Planned /\ Place(order[j]) = j
      BY <1>2, <2>2 DEF Hints
    <2>5. j > i
      BY <1>1, <2>1, <2>2
    <2>6. Late(i, k)
      BY <2>3, <2>4, <2>5 DEF Late
    <2>7. k \in LateAt(i)
      BY <2>6 DEF LateAt
    <2> QED
      BY <1>1, <2>1, <2>7 DEF Early
  <1> QED
    BY <1>3, <1>4 DEF n, EarlyMeans

LEMMA BehindMeansNext == WalkTypes' /\ EachOnce' => EarlyMeans'
  BY BehindMeans, PTL

\* A move takes a task behind the only one it waits for, and puts no other task before
\* one that it waits for: the task that is moved is waited for by none.
LEMMA MoveHelps ==
  ASSUME WalkTypes, WalkTypes', EachOnce, EachOnce', HintsSimple, Move
  PROVE  \E t \in Behind : Behind' \subseteq Behind \ {t}
  <1>1. PICK i, j \in 1..Len(order) :
          i < j /\ MoveAfter(i, j) /\ order[j] \in ToSet(set.waits[order[i]])
    BY MoveIsLater
  <1> DEFINE n == Len(order)
             from(m) == IF m = j THEN i ELSE IF i <= m /\ m < j THEN m + 1 ELSE m
  <1>2. order \in Seq(Task) /\ n \in Nat /\ DOMAIN order = 1..n
    BY Members DEF WalkTypes
  <1>3. /\ order' \in Seq(Task) /\ Len(order') = n /\ order'[j] = order[i]
        /\ \A m \in 1..n : i <= m /\ m < j => order'[m] = order[m + 1]
        /\ \A m \in 1..n : m < i \/ j < m => order'[m] = order[m]
    BY <1>1, OrderMoved
  <1>4. Planned' = Planned /\ set' = set
    BY MoveMembers DEF Move
  <1>5. i \in 1..n /\ j \in 1..n /\ i < j
    BY <1>1
  <1>6. Early = {a \in 1..n : \E b \in 1..n : a < b /\ order[b] \in Hints(order[a])}
    BY BehindMeans DEF EarlyMeans
  <1>7. Early' = {a \in 1..n : \E b \in 1..n : a < b /\ order'[b] \in Hints(order'[a])}
    <2>1. \A t : Hints(t)' = Hints(t)
      BY <1>4 DEF Hints
    <2>2. EarlyMeans'
      BY BehindMeansNext
    <2> QED
      BY <1>3, <2>1, <2>2 DEF EarlyMeans
  <1> HIDE DEF n
  <1>8. \A m \in 1..n : from(m) \in 1..n
    BY <1>2, <1>5
  <1>9. \A m \in 1..n : order'[m] = order[from(m)]
    <2> TAKE m \in 1..n
    <2>1. CASE m = j
      BY <1>3, <2>1
    <2>2. CASE i <= m /\ m < j
      BY <1>2, <1>3, <1>5, <2>2
    <2>3. CASE m < i \/ j < m
      BY <1>2, <1>3, <1>5, <2>3
    <2> QED
      BY <1>2, <1>5, <2>1, <2>2, <2>3
  <1>10. \A a, b \in 1..n : a < b => from(a) < from(b) \/ (from(b) = i /\ b = j)
    BY <1>2, <1>5
  <1>11. \A a \in 1..n : from(a) = i => a = j
    BY <1>2, <1>5
  <1>12. \A b \in 1..n : j < b => from(b) = b
    BY <1>2, <1>5
  <1> HIDE DEF from
  <1> DEFINE t == order[i]
  <1>13. t \in Planned /\ \A a \in 1..n : order[a] \in Planned
    BY <1>2, <1>5 DEF Planned, ToSet
  <1>14. order[j] \in Hints(t)
    BY <1>1, <1>5, <1>13 DEF Hints
  <1>15. \A u \in Hints(t) : u = order[j]
    <2>1. t \in Task
      BY <1>2, <1>5, ElementOfSeq DEF n
    <2>2. set.waits[t] \in Seq(Task) /\ Len(set.waits[t]) <= 1
      BY <1>13, <2>1, ConfigurationTypes DEF HintsSimple
    <2>3. DOMAIN set.waits[t] = 1..Len(set.waits[t]) /\ Len(set.waits[t]) \in Nat
      BY <2>2, Members
    <2>4. \A k, l \in DOMAIN set.waits[t] : k = l
      BY <2>2, <2>3
    <2> QED
      BY <1>14, <2>4 DEF Hints, ToSet
  <1>16. \A a \in 1..n : t \notin Hints(order[a])
    BY <1>13, <1>14 DEF HintsSimple
  <1>17. i \in Early
    BY <1>5, <1>6, <1>14
  <1>18. ASSUME NEW a \in Early' PROVE order'[a] \in Behind \ {t}
    <2>1. a \in 1..n
      BY <1>7
    <2>2. PICK b \in 1..n : a < b /\ order'[b] \in Hints(order'[a])
      BY <1>7
    <2>3. /\ from(a) \in 1..n /\ from(b) \in 1..n
          /\ order[from(b)] \in Hints(order[from(a)])
      BY <1>8, <1>9, <2>1, <2>2
    <2>4. from(b) # i
      BY <1>16, <2>3
    <2>5. from(a) < from(b)
      BY <1>10, <2>1, <2>2, <2>4
    <2>6. from(a) \in Early
      BY <1>6, <2>3, <2>5
    <2>7. order[from(a)] # t
      <3> SUFFICES ASSUME order[from(a)] = t PROVE FALSE
        OBVIOUS
      <3>1. from(a) = i
        BY <1>2, <1>5, <2>3 DEF EachOnce, IsInjective
      <3>2. a = j /\ from(b) = b
        BY <1>11, <1>12, <2>1, <2>2, <3>1
      <3>3. order[b] = order[j]
        BY <1>15, <2>3, <3>2
      <3>4. b = j
        BY <1>2, <1>5, <3>3 DEF EachOnce, IsInjective
      <3> QED
        BY <1>2, <1>5, <2>2, <3>2, <3>4
    <2> QED
      BY <1>9, <2>1, <2>6, <2>7 DEF Behind
  <1>19. Behind' = {order'[a] : a \in Early'}
    BY DEF Behind
  <1>20. Behind' \subseteq Behind \ {t}
    BY <1>18, <1>19
  <1> QED
    BY <1>17, <1>20 DEF Behind

LEMMA PlannedIsFinite ==
  ASSUME WalkTypes
  PROVE  /\ IsFiniteSet(Behind) /\ Cardinality(Behind) \in Nat /\ Cardinality(Behind) <= Len(order)
         /\ Cardinality(Behind) = 0 => Early = {}
  <1> DEFINE n == Len(order)
  <1>1. DOMAIN order = 1..n /\ n \in Nat /\ order \in Seq(Task)
    BY Members DEF WalkTypes
  <1>2. order \in Surjection(1..n, Planned)
    <2>1. order \in [1..n -> Planned]
      <3>1. order \in [1..n -> Task]
        BY <1>1, LenProperties
      <3>2. \A m \in 1..n : order[m] \in Planned
        BY <1>1 DEF Planned, ToSet
      <3> QED
        BY <3>1, <3>2
    <2>2. \A t \in Planned : \E m \in 1..n : order[m] = t
      BY <1>1 DEF Planned, ToSet
    <2> QED
      BY <2>1, <2>2 DEF Surjection
  <1> HIDE DEF n
  <1>3. ExistsSurjection(1..n, Planned)
    BY <1>2 DEF ExistsSurjection
  <1>4. IsFiniteSet(Planned) /\ Cardinality(Planned) <= n
    BY <1>1, <1>3, FS_NatSurjection, FS_SurjCardinalityBound
  <1>5. Behind \subseteq Planned
    BY <1>1 DEF Behind, Early, Planned, ToSet
  <1>6. IsFiniteSet(Behind) /\ Cardinality(Behind) <= Cardinality(Planned)
    BY <1>4, <1>5, FS_Subset
  <1>7. Cardinality(Behind) \in Nat /\ Cardinality(Planned) \in Nat
    BY <1>4, <1>6, FS_CardinalityType
  <1>8. Cardinality(Behind) <= n
    BY <1>1, <1>4, <1>6, <1>7
  <1>9. Cardinality(Behind) = 0 => Behind = {}
    BY <1>6, FS_EmptySet
  <1>10. Behind = {} => Early = {}
    BY DEF Behind
  <1> QED
    BY <1>6, <1>7, <1>8, <1>9, <1>10 DEF n

\* Each move leaves one task fewer before one it waits for.
Moved ==
  HintsSimple =>
    /\ phase = "hints" => Cardinality(Behind) + passes <= Len(order)
    /\ phase \in {"list", "prereqs", "planned"} => Early = {}

LEMMA HintsKept ==
  ASSUME order' = order, set' = set
  PROVE  Early' = Early /\ Behind' = Behind /\ HintsSimple' = HintsSimple
  <1>1. Planned' = Planned
    BY DEF Planned
  <1>2. \A t : Hints(t)' = Hints(t)
    BY <1>1 DEF Hints
  <1>3. \A t : Place(t)' = Place(t)
    BY DEF Place
  <1>4. \A i : LateAt(i)' = LateAt(i)
    BY <1>1, <1>3 DEF LateAt, Late
  <1>5. Early' = Early
    BY <1>4 DEF Early
  <1> QED
    BY <1>1, <1>2, <1>5 DEF Behind, HintsSimple

LEMMA MovedStep ==
  ASSUME WalkTypes, WalkTypes', EachOnce, EachOnce', Growing, Moved, [PlanNext]_planVars
  PROVE  Moved'
  <1>1. ASSUME UNCHANGED <<order, set, passes>>, phase' \in {phase, "list", "prereqs", "planned"},
               phase' \in {"list", "prereqs", "planned"} => phase \in {"list", "prereqs", "planned"}
        PROVE  Moved'
    BY <1>1, HintsKept DEF Moved
  <1>2. ASSUME phase' \notin {"hints", "list", "prereqs", "planned"} PROVE Moved'
    BY <1>2 DEF Moved
  <1>3. CASE UNCHANGED planVars
    BY <1>1, <1>3 DEF planVars
  <1>4. CASE Refuse \/ VisitRoot \/ TakeOrder \/ VisitGrouped \/ EndAdd
    BY <1>2, <1>4 DEF Refuse, VisitRoot, TakeOrder, VisitGrouped, EndAdd
  <1>5. CASE LookAtGroups \/ SkipPlanned \/ Add \/ \E d \in Task : ReportCycle(d)
    BY <1>2, <1>5 DEF LookAtGroups, SkipPlanned, Add, ReportCycle, VisitReturned
  <1>6. CASE Leave \/ \E d \in Task : SkipDone(d) \/ Descend(d)
    BY <1>1, <1>6 DEF SkipDone, Descend, Leave
  <1>7. CASE VisitListed \/ ListPrerequisites \/ EndPlan
    BY <1>1, <1>7 DEF VisitListed, ListPrerequisites, EndPlan, VisitReturned
  <1>8. CASE EndGroups
    <2>1. UNCHANGED <<order, set, passes>> /\ phase' = "hints" /\ passes = 0
      BY <1>8 DEF EndGroups, Growing
    <2>2. Cardinality(Behind) \in Nat /\ Cardinality(Behind) <= Len(order)
      BY PlannedIsFinite
    <2>3. Cardinality(Behind) + 0 <= Len(order)
      BY <2>2
    <2> QED
      BY <2>1, <2>3, HintsKept DEF Moved
  <1>9. CASE EndHints
    <2>1. /\ UNCHANGED <<order, set, passes>> /\ phase = "hints" /\ phase' = "list"
          /\ Early = {} \/ passes = Len(order)
      BY <1>9 DEF EndHints
    <2>2. ASSUME HintsSimple PROVE Early = {}
      <3>1. CASE passes = Len(order)
        <4>1. Cardinality(Behind) + Len(order) <= Len(order)
          BY <2>1, <2>2, <3>1 DEF Moved
        <4>2. Cardinality(Behind) \in Nat /\ Len(order) \in Nat
          BY PlannedIsFinite, Members DEF WalkTypes
        <4>3. Cardinality(Behind) = 0
          BY <4>1, <4>2
        <4> QED
          BY <4>3, PlannedIsFinite
      <3> QED
        BY <2>1, <3>1
    <2> QED
      BY <2>1, <2>2, HintsKept DEF Moved
  <1>10. CASE Move
    <2>1. phase = "hints" /\ phase' = "hints" /\ passes' = passes + 1 /\ set' = set
      BY <1>10 DEF Move
    <2>2. Planned' = Planned /\ Len(order') = Len(order)
      <3>1. Len(order') = Len(order)
        BY <1>10, MoveIsLater, OrderMoved
      <3> QED
        BY <1>10, <3>1, MoveMembers
    <2>3. HintsSimple' = HintsSimple
      <3>1. \A t : Hints(t)' = Hints(t)
        BY <2>1, <2>2 DEF Hints
      <3> QED
        BY <2>1, <2>2, <3>1 DEF HintsSimple
    <2>4. ASSUME HintsSimple PROVE Cardinality(Behind') + passes' <= Len(order')
      <3>1. PICK t \in Behind : Behind' \subseteq Behind \ {t}
        BY <1>10, <2>4, MoveHelps
      <3>2. IsFiniteSet(Behind) /\ Cardinality(Behind) \in Nat
        BY PlannedIsFinite
      <3>3. IsFiniteSet(Behind \ {t}) /\ Cardinality(Behind \ {t}) = Cardinality(Behind) - 1
        BY <3>1, <3>2, FS_RemoveElement
      <3>4. IsFiniteSet(Behind') /\ Cardinality(Behind') <= Cardinality(Behind \ {t})
        BY <3>1, <3>3, FS_Subset
      <3>5. Cardinality(Behind') \in Nat
        BY <3>4, FS_CardinalityType
      <3>6. Cardinality(Behind) + passes <= Len(order)
        BY <2>1, <2>4 DEF Moved
      <3>7. passes \in Nat /\ Len(order) \in Nat
        BY Members DEF WalkTypes
      <3> QED
        BY <2>1, <2>2, <3>2, <3>3, <3>4, <3>5, <3>6, <3>7
    <2> QED
      BY <2>1, <2>3, <2>4 DEF Moved
  <1> QED
    BY <1>3, <1>4, <1>5, <1>6, <1>7, <1>8, <1>9, <1>10 DEF PlanNext

-----------------------------------------------------------------------------
(* The theorems *)

PlanInv ==
  /\ WalkTypes /\ PhaseSound /\ PathSound /\ VisitedOnce /\ VisitedInOrder
  /\ EachOnce /\ DependenciesFirst
  /\ Reached /\ Chain /\ Growing /\ Outcome
  /\ Listing /\ Listed /\ Moved

LEMMA PlanInvInit == PlanInit => PlanInv
  <1> SUFFICES ASSUME PlanInit PROVE PlanInv
    OBVIOUS
  <1>1. /\ order = <<>> /\ visited = <<>> /\ path = <<>> /\ pending = <<>> /\ refs = <<>>
        /\ todo = <<>> /\ phase = "check" /\ passes = 0
    BY DEF PlanInit
  <1>2. Len(order) = 0 /\ Len(visited) = 0 /\ Len(path) = 0 /\ DOMAIN order = {}
    BY <1>1
  <1>3. WalkTypes
    BY <1>2, EmptySeq DEF PlanInit, WalkTypes, Visits, Ends
  <1>4. PhaseSound
    BY <1>1 DEF PhaseSound
  <1>5. PathSound /\ VisitedOnce /\ VisitedInOrder
    BY <1>1, <1>2
       DEF PathSound, PathDistinct, DependenciesBehind, VisitedOnce, VisitedInOrder
  <1>6. EachOnce /\ DependenciesFirst
    BY <1>2 DEF EachOnce, IsInjective, DependenciesFirst, InOrder
  <1>7. Reached
    <2>1. OnPath = {}
      BY <1>2, <1>3, PathMembers
    <2> QED
      BY <1>1, <2>1, EmptyMembers DEF Reached, Planned
  <1>8. Chain
    BY <1>2 DEF Chain
  <1>9. Growing /\ Outcome /\ Listing /\ Moved
    BY <1>1 DEF Growing, Outcome, Listing, Moved, Settled
  <1>10. Listed
    <2>1. [t \in Task |-> <<>>] \in Lists
      BY EmptySeq DEF Lists
    <2> QED
      BY <1>1, <2>1 DEF PlanInit, Listed
  <1> QED
    BY <1>3, <1>4, <1>5, <1>6, <1>7, <1>8, <1>9, <1>10 DEF PlanInv

LEMMA PlanInvStep == PlanInv /\ [PlanNext]_planVars => PlanInv'
  <1> SUFFICES ASSUME PlanInv, [PlanNext]_planVars PROVE PlanInv'
    OBVIOUS
  <1> USE DEF PlanInv
  <1>1. WalkTypes' /\ PhaseSound' /\ PathSound' /\ VisitedOnce' /\ VisitedInOrder'
    BY TypeStep, PhaseStep, PathStep, VisitedStep, VisitedOrderStep
  <1>2. EachOnce' /\ DependenciesFirst'
    BY OnceStep, OrderStep
  <1>3. Reached' /\ Chain' /\ Growing'
    BY <1>1, ReachedStep, ChainStep, GrowingStep
  <1>4. Outcome'
    BY <1>1, OutcomeStep
  <1>5. Listing' /\ Listed'
    BY <1>1, ListingStep, ListedStep
  <1>6. Moved'
    BY <1>1, <1>2, MovedStep
  <1> QED
    BY <1>1, <1>2, <1>3, <1>4, <1>5, <1>6

\* The invariant of planning: the visit's path is a chain of dependencies that never has a
\* task twice; what it returns follows what it depends on; all that is met is something the
\* named task leads to, and nothing it leads to is forgotten.
THEOREM PlanInvariant == PlanSpec => []PlanInv
  BY PlanInvInit, PlanInvStep, PTL DEF PlanSpec

\* Every variable of planning has its type at all times, the listed prerequisites included.
THEOREM PlanTypeCorrect == PlanSpec => []PlanTypeOK
  <1>1. PlanInv => PlanTypeOK
    BY DEF PlanInv, Listed, PlanTypeOK
  <1> QED
    BY <1>1, PlanInvariant, PTL

\* "a shared one runs only once": no task is planned twice, however tasks depend on,
\* group and wait for each other.
THEOREM PlannedOnce == PlanSpec => []EachOnce
  <1>1. PlanInv => EachOnce
    BY DEF PlanInv
  <1> QED
    BY <1>1, PlanInvariant, PTL

\* "Prerequisites run first": until a hint moves one, every planned task follows those
\* it depends on, the tasks that groups bring in included.
THEOREM PlannedInOrder == PlanSpec => []DependenciesFirst
  <1>1. PlanInv => DependenciesFirst
    BY DEF PlanInv
  <1> QED
    BY <1>1, PlanInvariant, PTL

\* "a lookup that misses would skip the whole parallel step without a word": however the
\* tasks of groups have groups, and are planned for other reasons before, the plan has
\* exactly the tasks that the named one leads to; the hints add none and lose none.
THEOREM PlanClosed == PlanSpec => []PlanIsClosed
  <1>1. PlanInv => PlanIsClosed
    BY DEF PlanInv, Outcome, PlanIsClosed, Settled, Reach
  <1> QED
    BY <1>1, PlanInvariant, PTL

\* What `plan` lists for a task is exactly what it depends on, at any depth, each once and
\* after its own dependencies: the runner takes it for a grouped task as it is.
THEOREM PrerequisitesListed == PlanSpec => []PrerequisitesAreAll
  <1> SUFFICES PlanInv => PrerequisitesAreAll
    BY PlanInvariant, PTL
  <1> SUFFICES ASSUME PlanInv, phase = "planned", NEW t \in Planned PROVE ListedFor(t)
    BY DEF PrerequisitesAreAll, ListedFor, Deps
  <1>1. todo = <<>>
    BY DEF PlanInv, Listed
  <1> QED
    BY <1>1, EmptyMembers DEF PlanInv, Listed

\* "unknown references and dependency cycles are reported as errors": a cycle is reported
\* only when a task that the named one leads to depends on itself, and a plan is made only
\* when none does, the cycles behind groups included.
THEOREM CyclesFound == PlanSpec => []CyclesAreReported
  <1>1. PlanInv => CyclesAreReported
    BY DEF PlanInv, Outcome, CyclesAreReported, Settled, Reach, Deps
  <1> QED
    BY <1>1, PlanInvariant, PTL

\* "every `wait_for` target precedes the task naming it", for hints that name one task that
\* waits for none: there are at most as many tasks to move as there are passes.
THEOREM SimpleHintsFollowed == PlanSpec => []SimpleHintsHold
  <1>1. PlanInv => SimpleHintsHold
    BY DEF PlanInv, Moved, HintsSimple, SimpleHintsHold
  <1> QED
    BY <1>1, PlanInvariant, PTL

HIDE SetsAssumption

-----------------------------------------------------------------------------
(* Frames *)

PrereqsOf(f) == UNION {ToSet(Prereqs[t]) : t \in ToSet(f.names)}

\* What a frame in each phase has.
Shaped(f) ==
  /\ IF f.phase \in {"body", "post"} THEN f.task \in Task ELSE f.task = None
  /\ f.phase # "post" => f.post = "ok"
  /\ f.phase \in {"next", "body", "deps"} => f.code = "ok"
  /\ f.phase = "deps" => ToSet(f.todo) \subseteq PrereqsOf(f)
  /\ f.phase = "serial" => ToSet(f.todo) \subseteq ToSet(f.names)
  /\ f.phase \in {"fork", "join"} => Len(f.branches) = Len(f.names)

LEMMA PlanTypes ==
  ASSUME plan \in Plans
  PROVE  /\ Order \in Seq(Task) /\ Prereqs \in [Task -> Seq(Task)] /\ plan.root \in Task
         /\ Body \in [Task -> Seq(Step)] /\ Post \in [Task -> Seq(Step)] /\ Ordering \in BOOLEAN
  BY ConstantsAssumption DEF Plan, Order, Prereqs, Body, Post, Ordering

LEMMA RunFrameTypes ==
  ASSUME NEW o \in Seq(Task), NEW s \in Seq(Task)
  PROVE  /\ RunFrame(o, s) \in Frame /\ Shaped(RunFrame(o, s))
         /\ RunFrame(o, s).todo = s /\ RunFrame(o, s).phase = "next"
         /\ RunFrame(o, s).task = None /\ RunFrame(o, s).names = <<>>
  <1>1. <<>> \in Seq(Task) /\ <<>> \in Seq(SUBSET Task)
    BY EmptySeq
  <1> QED
    BY <1>1 DEF RunFrame, Frame, Shaped, RunPhases, GroupPhases, Result, Code

LEMMA TaskFrameTypes ==
  ASSUME plan \in Plans, NEW o \in Seq(Task), NEW t \in Task
  PROVE  /\ TaskFrame(o, t) \in Frame /\ Shaped(TaskFrame(o, t))
         /\ TaskFrame(o, t).phase = "next" /\ TaskFrame(o, t).task = None
         /\ TaskFrame(o, t).todo = Append(Prereqs[t], t) /\ TaskFrame(o, t).names = <<>>
  <1> DEFINE selected == Append(Prereqs[t], t)
             all == selected \o Among(o, Task \ ToSet(selected))
  <1>1. selected \in Seq(Task)
    <2>1. Prereqs[t] \in Seq(Task)
      BY PlanTypes
    <2> QED
      BY <2>1, AppendProperties
  <1>2. all \in Seq(Task)
    <2>1. Among(o, Task \ ToSet(selected)) \in Seq(Task)
      BY AmongMembers
    <2> QED
      BY <1>1, <2>1, ConcatProperties
  <1>3. TaskFrame(o, t) = RunFrame(all, selected)
    BY DEF TaskFrame
  <1> HIDE DEF all, selected
  <1>4. TaskFrame(o, t).todo = selected
    BY <1>1, <1>2, <1>3, RunFrameTypes
  <1>5. RunFrame(all, selected) \in Frame /\ Shaped(RunFrame(all, selected))
    BY <1>1, <1>2, RunFrameTypes
  <1>6. /\ TaskFrame(o, t).phase = "next" /\ TaskFrame(o, t).task = None
        /\ TaskFrame(o, t).names = <<>>
    BY <1>1, <1>2, <1>3, RunFrameTypes
  <1>7. TaskFrame(o, t).todo = Append(Prereqs[t], t)
    BY <1>4 DEF selected
  <1> QED
    BY <1>3, <1>5, <1>6, <1>7

LEMMA SortedMembers ==
  ASSUME NEW o \in Seq(Task), NEW s \in Seq(Task)
  PROVE  Sorted(o, s) \in Seq(Task) /\ ToSet(Sorted(o, s)) \subseteq ToSet(s)
  <1> DEFINE parts == [i \in DOMAIN o |-> Among(s, {o[i]})]
  <1>1. \A i \in DOMAIN o : Among(s, {o[i]}) \in Seq(Task) /\ ToSet(Among(s, {o[i]})) \subseteq ToSet(s)
    BY AmongMembers
  <1>2. parts \in Seq(Seq(Task))
    <2>1. DOMAIN o = 1..Len(o) /\ Len(o) \in Nat
      BY LenProperties
    <2> QED
      BY <1>1, <2>1, IsASeq
  <1>3. Sorted(o, s) = FlattenSeq(parts)
    BY DEF Sorted
  <1>4. \A i \in DOMAIN parts : ToSet(parts[i]) \subseteq ToSet(s)
    BY <1>1
  <1> HIDE DEF parts
  <1> QED
    BY <1>2, <1>3, <1>4, FlattenMembers

LEMMA GroupFrameTypes ==
  ASSUME plan \in Plans, NEW o \in Seq(Task), NEW s \in Seq(Task)
  PROVE  /\ GroupFrame(o, s) \in Frame /\ Shaped(GroupFrame(o, s))
         /\ GroupFrame(o, s).phase = "deps" /\ GroupFrame(o, s).task = None
         /\ GroupFrame(o, s).names \in Seq(Task)
         /\ ToSet(GroupFrame(o, s).names) \subseteq ToSet(s)
         /\ ToSet(GroupFrame(o, s).todo) \subseteq PrereqsOf(GroupFrame(o, s))
  <1> DEFINE names == IF Ordering THEN Sorted(o, s) ELSE s
             parts == [i \in DOMAIN names |-> Prereqs[names[i]]]
             before == FlattenSeq(parts)
             f == [order |-> o, todo |-> before,
                   task |-> None, phase |-> "deps", at |-> 1, code |-> "ok", post |-> "ok",
                   names |-> names, branches |-> <<>>]
  <1>1. names \in Seq(Task) /\ ToSet(names) \subseteq ToSet(s)
    BY SortedMembers
  <1>2. GroupFrame(o, s) = f
    BY Zenon DEF GroupFrame
  <1> HIDE DEF names
  <1>3. DOMAIN names = 1..Len(names) /\ Len(names) \in Nat /\ \A i \in 1..Len(names) : names[i] \in Task
    BY <1>1, LenProperties, ElementOfSeq
  <1>4. parts \in Seq(Seq(Task))
    <2>1. \A i \in DOMAIN names : Prereqs[names[i]] \in Seq(Task)
      BY <1>3, PlanTypes
    <2> QED
      BY <1>3, <2>1, IsASeq
  <1>5. \A i \in DOMAIN parts : ToSet(parts[i]) \subseteq UNION {ToSet(Prereqs[t]) : t \in ToSet(names)}
    BY DEF ToSet
  <1> HIDE DEF parts
  <1>6. before \in Seq(Task) /\ ToSet(before) \subseteq UNION {ToSet(Prereqs[t]) : t \in ToSet(names)}
    BY <1>4, <1>5, FlattenMembers
  <1> HIDE DEF before
  <1>7. f \in Frame
    <2>1. <<>> \in Seq(SUBSET Task)
      BY EmptySeq
    <2> QED
      BY <1>1, <1>6, <2>1 DEF Frame, RunPhases, GroupPhases, Result, Code
  <1>8. /\ f.phase = "deps" /\ f.task = None /\ f.names = names /\ f.todo = before
        /\ f.code = "ok" /\ f.post = "ok"
    OBVIOUS
  <1> HIDE DEF f
  <1>9. PrereqsOf(f) = UNION {ToSet(Prereqs[t]) : t \in ToSet(names)}
    BY <1>8, Zenon DEF PrereqsOf
  <1>10. Shaped(f)
    BY <1>6, <1>8, <1>9 DEF Shaped
  <1> QED
    BY <1>1, <1>2, <1>6, <1>7, <1>8, <1>9, <1>10

LEMMA ReachableTasks ==
  ASSUME NEW h, NEW t
  PROVE  Reachable(h, t) \in SUBSET Task
  BY DEF Reachable, Within

-----------------------------------------------------------------------------
(* How the stacks change *)

Stacks == stack \in [Alive -> Seq(Frame)] /\ ret \in [Alive -> Result \cup {None}]

Outer(h) == {stack[h][i] : i \in 1..(Len(stack[h]) - 1)}
Frames(h) == {stack[h][i] : i \in 1..Len(stack[h])}

\* Only the innermost frames of h change.
Outside(h) ==
  /\ stack' \in [Alive -> Seq(Frame)] /\ ret' \in [Alive -> Result \cup {None}]
  /\ \A g \in Alive \ {h} : stack'[g] = stack[g] /\ ret'[g] = ret[g]
  /\ \A i \in 1..(Len(stack[h]) - 1) : stack'[h][i] = stack[h][i]
Replaced(h, f) ==
  /\ Outside(h) /\ ret'[h] = None
  /\ Len(stack'[h]) = Len(stack[h]) /\ stack'[h][Len(stack[h])] = f
Grown(h, f, g) ==
  /\ Outside(h) /\ ret'[h] = ret[h]
  /\ Len(stack'[h]) = Len(stack[h]) + 1
  /\ stack'[h][Len(stack[h])] = f /\ stack'[h][Len(stack[h]) + 1] = g
Shrunk(h, r) == Outside(h) /\ ret'[h] = r /\ Len(stack'[h]) = Len(stack[h]) - 1

LEMMA StackFacts ==
  ASSUME Stacks, NEW h \in Alive
  PROVE  /\ stack[h] \in Seq(Frame) /\ ret[h] \in Result \cup {None} /\ Len(stack[h]) \in Nat
         /\ \A i \in 1..Len(stack[h]) : stack[h][i] \in Frame
         /\ stack[h] # <<>> =>
              /\ Top(h) \in Frame /\ Len(stack[h]) \in Nat \ {0} /\ Top(h) = stack[h][Len(stack[h])]
              /\ Frames(h) = Outer(h) \cup {Top(h)}
         /\ stack[h] = <<>> => Frames(h) = {}
  <1>1. stack[h] \in Seq(Frame) /\ ret[h] \in Result \cup {None}
    BY DEF Stacks
  <1>2. Len(stack[h]) \in Nat /\ \A i \in 1..Len(stack[h]) : stack[h][i] \in Frame
    BY <1>1, LenProperties, ElementOfSeq
  <1>3. ASSUME stack[h] # <<>>
        PROVE  /\ Top(h) \in Frame /\ Len(stack[h]) \in Nat \ {0} /\ Top(h) = stack[h][Len(stack[h])]
               /\ Frames(h) = Outer(h) \cup {Top(h)}
    <2>1. Top(h) \in Frame /\ Len(stack[h]) \in Nat \ {0} /\ Top(h) = stack[h][Len(stack[h])]
      BY <1>1, <1>3, FrontFacts DEF Top, Last
    <2>2. 1..Len(stack[h]) = (1..(Len(stack[h]) - 1)) \cup {Len(stack[h])}
      BY <2>1
    <2> QED
      BY <2>1, <2>2 DEF Frames, Outer
  <1>4. ASSUME stack[h] = <<>> PROVE Frames(h) = {}
    <2>1. 1..Len(stack[h]) = {}
      BY <1>4
    <2> QED
      BY <2>1 DEF Frames
  <1> QED
    BY <1>1, <1>2, <1>3, <1>4

LEMMA ContinueReplaces ==
  ASSUME Stacks, NEW h \in Alive, stack[h] # <<>>, NEW f \in Frame, Continue(h, f)
  PROVE  Replaced(h, f)
  <1>1. /\ stack' = [stack EXCEPT ![h] = Append(Front(stack[h]), f)]
        /\ ret' = [ret EXCEPT ![h] = None]
    BY DEF Continue
  <1>2. /\ Append(Front(stack[h]), f) \in Seq(Frame) /\ Len(Append(Front(stack[h]), f)) = Len(stack[h])
        /\ \A i \in 1..(Len(stack[h]) - 1) : Append(Front(stack[h]), f)[i] = stack[h][i]
        /\ Append(Front(stack[h]), f)[Len(stack[h])] = f
    BY TopReplaced DEF Stacks
  <1> QED
    BY <1>1, <1>2 DEF Replaced, Outside, Stacks

LEMMA CallGrows ==
  ASSUME Stacks, NEW h \in Alive, stack[h] # <<>>, NEW f \in Frame, NEW g \in Frame, Call(h, f, g)
  PROVE  Grown(h, f, g)
  <1> DEFINE low == Front(stack[h])
             two == <<f, g>>
             s == low \o two
             n == Len(stack[h])
  <1>1. stack' = [stack EXCEPT ![h] = s] /\ ret' = ret
    BY Zenon DEF Call
  <1>2. low \in Seq(Frame) /\ Len(low) = n - 1 /\ n \in Nat \ {0} /\ \A i \in 1..(n - 1) : low[i] = stack[h][i]
    BY FrontFacts DEF Stacks
  <1>3. two \in Seq(Frame) /\ Len(two) = 2 /\ two[1] = f /\ two[2] = g
    OBVIOUS
  <1> HIDE DEF low, n, two
  <1>4. /\ s \in Seq(Frame) /\ Len(s) = Len(low) + Len(two)
        /\ \A i \in 1..(Len(low) + Len(two)) : s[i] = IF i <= Len(low) THEN low[i] ELSE two[i - Len(low)]
    BY <1>2, <1>3, ConcatProperties, Zenon
  <1> HIDE DEF s
  <1>5. Len(s) = n + 1 /\ \A i \in 1..(n - 1) : s[i] = stack[h][i]
    <2>1. Len(low) + Len(two) = n + 1 /\ \A i \in 1..(n - 1) : i \in 1..(Len(low) + Len(two)) /\ i <= Len(low)
      BY <1>2, <1>3
    <2> QED
      BY <1>2, <1>4, <2>1
  <1>6. s[n] = f /\ s[n + 1] = g
    <2>1. /\ n \in 1..(Len(low) + Len(two)) /\ n + 1 \in 1..(Len(low) + Len(two))
          /\ ~(n <= Len(low)) /\ ~(n + 1 <= Len(low)) /\ n - Len(low) = 1 /\ (n + 1) - Len(low) = 2
      BY <1>2, <1>3
    <2> QED
      BY <1>3, <1>4, <2>1
  <1>7. /\ Len(s) = Len(stack[h]) + 1 /\ \A i \in 1..(Len(stack[h]) - 1) : s[i] = stack[h][i]
        /\ s[Len(stack[h])] = f /\ s[Len(stack[h]) + 1] = g
    BY <1>4, <1>5, <1>6 DEF n
  <1> QED
    BY <1>1, <1>4, <1>7 DEF Grown, Outside, Stacks

LEMMA ReturnShrinks ==
  ASSUME Stacks, NEW h \in Alive, stack[h] # <<>>, NEW r \in Result, Return(h, r)
  PROVE  Shrunk(h, r)
  <1>1. stack' = [stack EXCEPT ![h] = Front(stack[h])] /\ ret' = [ret EXCEPT ![h] = r]
    BY DEF Return
  <1>2. /\ Front(stack[h]) \in Seq(Frame) /\ Len(Front(stack[h])) = Len(stack[h]) - 1
        /\ \A i \in 1..(Len(stack[h]) - 1) : Front(stack[h])[i] = stack[h][i]
    BY FrontFacts DEF Stacks
  <1> QED
    BY <1>1, <1>2 DEF Shrunk, Outside, Stacks

\* What is on the stacks after such a step.
LEMMA OutsideFrames ==
  ASSUME Stacks, NEW h \in Alive, Outside(h)
  PROVE  /\ Alive' = Alive /\ Stacks'
         /\ \A g \in Alive \ {h} : Frames(g)' = Frames(g) /\ Outer(g)' = Outer(g) /\ Top(g)' = Top(g)
  BY DEF Outside, Stacks, Alive, Frames, Outer, Top, Last

LEMMA ReplacedFrames ==
  ASSUME Stacks, NEW h \in Alive, stack[h] # <<>>, NEW f, Replaced(h, f)
  PROVE  /\ Outer(h)' = Outer(h) /\ Frames(h)' = Outer(h) \cup {f}
         /\ Top(h)' = f /\ stack'[h] # <<>>
  <1>1. Len(stack[h]) \in Nat \ {0}
    BY StackFacts
  <1>2. 1..Len(stack[h]) = (1..(Len(stack[h]) - 1)) \cup {Len(stack[h])}
    BY <1>1
  <1>3. Outer(h)' = Outer(h)
    BY DEF Replaced, Outside, Outer
  <1>4. Frames(h)' = Outer(h) \cup {f}
    <2>1. Frames(h)' = {stack'[h][i] : i \in 1..(Len(stack[h]) - 1)} \cup {stack'[h][Len(stack[h])]}
      BY <1>2 DEF Replaced, Frames
    <2>2. {stack'[h][i] : i \in 1..(Len(stack[h]) - 1)} = Outer(h)
      BY DEF Replaced, Outside, Outer
    <2> QED
      BY <2>1, <2>2 DEF Replaced
  <1>5. Top(h)' = f
    BY DEF Replaced, Top, Last
  <1>6. stack'[h] # <<>>
    <2>1. Len(stack'[h]) # 0
      BY <1>1 DEF Replaced
    <2> QED
      BY <2>1
  <1> QED
    BY <1>3, <1>4, <1>5, <1>6

LEMMA GrownFrames ==
  ASSUME Stacks, NEW h \in Alive, stack[h] # <<>>, NEW f, NEW g, Grown(h, f, g)
  PROVE  /\ Outer(h)' = Outer(h) \cup {f} /\ Frames(h)' = Outer(h) \cup {f, g}
         /\ Top(h)' = g /\ stack'[h] # <<>>
  <1> DEFINE n == Len(stack[h])
  <1>1. n \in Nat \ {0}
    BY StackFacts
  <1>2. /\ Len(stack'[h]) = n + 1 /\ stack'[h][n] = f /\ stack'[h][n + 1] = g
        /\ \A i \in 1..(n - 1) : stack'[h][i] = stack[h][i]
    BY DEF Grown, Outside
  <1>3. Outer(h) = {stack[h][i] : i \in 1..(n - 1)} /\ Outer(h)' = {stack'[h][i] : i \in 1..(n + 1 - 1)}
        /\ Frames(h)' = {stack'[h][i] : i \in 1..(n + 1)}
    BY <1>2 DEF Outer, Frames
  <1> HIDE DEF n
  <1>4. 1..(n + 1 - 1) = (1..(n - 1)) \cup {n} /\ 1..(n + 1) = (1..(n - 1)) \cup {n, n + 1}
    BY <1>1
  <1>0. {stack'[h][i] : i \in 1..(n - 1)} = Outer(h)
    BY <1>2, <1>3
  <1>5. Outer(h)' = Outer(h) \cup {f}
    <2>1. Outer(h)' = {stack'[h][i] : i \in 1..(n - 1)} \cup {stack'[h][n]}
      BY <1>3, <1>4
    <2> QED
      BY <1>0, <1>2, <2>1
  <1>6. Frames(h)' = Outer(h) \cup {f, g}
    <2>1. Frames(h)' = {stack'[h][i] : i \in 1..(n - 1)} \cup {stack'[h][n], stack'[h][n + 1]}
      BY <1>3, <1>4
    <2> QED
      BY <1>0, <1>2, <2>1
  <1>7. Top(h)' = g
    BY <1>2 DEF Top, Last
  <1>8. stack'[h] # <<>>
    <2>1. Len(stack'[h]) # 0
      BY <1>1, <1>2
    <2> QED
      BY <2>1
  <1> QED
    BY <1>5, <1>6, <1>7, <1>8

LEMMA ShrunkFrames ==
  ASSUME Stacks, NEW h \in Alive, stack[h] # <<>>, NEW r, Shrunk(h, r)
  PROVE  Frames(h)' = Outer(h)
  BY DEF Shrunk, Outside, Outer, Frames

\* A step of h: its innermost frame goes on as f, calls g from f, or returns r.
Keeps(h) ==
  /\ Outside(h) /\ Alive' = Alive /\ Stacks'
  /\ \A g \in Alive \ {h} : Frames(g)' = Frames(g)
Goes(h, f) ==
  /\ Keeps(h) /\ stack'[h] # <<>> /\ Len(stack'[h]) = Len(stack[h])
  /\ Top(h)' = f /\ Outer(h)' = Outer(h) /\ Frames(h)' = Outer(h) \cup {f} /\ ret'[h] = None
Pushes(h, f, g) ==
  /\ Keeps(h) /\ stack'[h] # <<>> /\ Len(stack'[h]) = Len(stack[h]) + 1
  /\ stack'[h][Len(stack[h])] = f
  /\ Top(h)' = g /\ Outer(h)' = Outer(h) \cup {f} /\ Frames(h)' = Outer(h) \cup {f, g} /\ ret'[h] = ret[h]
Pops(h, r) ==
  /\ Keeps(h) /\ Len(stack'[h]) = Len(stack[h]) - 1
  /\ Frames(h)' = Outer(h) /\ ret'[h] = r

LEMMA ContinueGoes ==
  ASSUME Stacks, NEW h \in Alive, stack[h] # <<>>, NEW f \in Frame, Continue(h, f)
  PROVE  Goes(h, f)
  <1>1. Replaced(h, f)
    BY ContinueReplaces
  <1>2. Outside(h) /\ ret'[h] = None /\ Len(stack'[h]) = Len(stack[h])
    BY <1>1 DEF Replaced
  <1>3. Keeps(h)
    BY <1>2, OutsideFrames DEF Keeps
  <1> QED
    BY <1>1, <1>2, <1>3, ReplacedFrames DEF Goes

LEMMA CallPushes ==
  ASSUME Stacks, NEW h \in Alive, stack[h] # <<>>, NEW f \in Frame, NEW g \in Frame, Call(h, f, g)
  PROVE  Pushes(h, f, g)
  <1>1. Grown(h, f, g)
    BY CallGrows
  <1>2. /\ Outside(h) /\ ret'[h] = ret[h] /\ Len(stack'[h]) = Len(stack[h]) + 1
        /\ stack'[h][Len(stack[h])] = f
    BY <1>1 DEF Grown
  <1>3. Keeps(h)
    BY <1>2, OutsideFrames DEF Keeps
  <1> QED
    BY <1>1, <1>2, <1>3, GrownFrames DEF Pushes

LEMMA ReturnPops ==
  ASSUME Stacks, NEW h \in Alive, stack[h] # <<>>, NEW r \in Result, Return(h, r)
  PROVE  Pops(h, r)
  <1>1. Shrunk(h, r)
    BY ReturnShrinks
  <1>2. Outside(h) /\ ret'[h] = r /\ Len(stack'[h]) = Len(stack[h]) - 1
    BY <1>1 DEF Shrunk
  <1>3. Keeps(h)
    BY <1>2, OutsideFrames DEF Keeps
  <1> QED
    BY <1>1, <1>2, <1>3, ShrunkFrames DEF Pops

-----------------------------------------------------------------------------
(* What the innermost frame is, and how each action changes it *)

Shape == \A h \in Alive : \A f \in Frames(h) : Shaped(f)

LEMMA TopFacts ==
  ASSUME TypeOK, Shape, NEW h \in Alive, stack[h] # <<>>
  PROVE  /\ Stacks /\ plan \in Plans /\ Top(h) \in Frame /\ Shaped(Top(h)) /\ Top(h) \in Frames(h)
         /\ Top(h).order \in Seq(Task) /\ Top(h).todo \in Seq(Task)
         /\ Top(h).task \in Task \cup {None} /\ Top(h).at \in Nat \ {0}
         /\ Top(h).phase \in RunPhases \cup GroupPhases
         /\ Top(h).code \in Result /\ Top(h).post \in Code
         /\ Top(h).names \in Seq(Task) /\ Top(h).branches \in Seq(SUBSET Task)
  <1>1. Stacks /\ plan \in Plans
    BY DEF TypeOK, Stacks
  <1>2. Top(h) \in Frame /\ Top(h) \in Frames(h)
    BY <1>1, StackFacts
  <1>3. Shaped(Top(h))
    BY <1>2 DEF Shape
  <1> QED
    BY <1>1, <1>2, <1>3 DEF Frame

LEMMA WorkFacts ==
  ASSUME TypeOK, Shape, NEW h \in Alive, stack[h] # <<>>, Top(h).phase \in {"body", "post"}
  PROVE  /\ Top(h).task \in Task
         /\ Body[Top(h).task] \in Seq(Step) /\ Post[Top(h).task] \in Seq(Step)
         /\ Len(Body[Top(h).task]) \in Nat /\ Len(Post[Top(h).task]) \in Nat
  <1>1. Top(h).task \in Task
    BY TopFacts DEF Shaped
  <1>2. Body[Top(h).task] \in Seq(Step) /\ Post[Top(h).task] \in Seq(Step)
    BY <1>1, TopFacts, PlanTypes
  <1> QED
    BY <1>1, <1>2, LenProperties

LEMMA StepFacts ==
  ASSUME NEW s \in Seq(Step), NEW i \in Nat \ {0}, i <= Len(s)
  PROVE  s[i] \in Step /\ s[i].tasks \in Seq(Task) /\ s[i].ignore \in BOOLEAN
  <1>1. i \in 1..Len(s)
    BY LenProperties
  <1>2. s[i] \in Step
    BY <1>1, ElementOfSeq
  <1> QED
    BY <1>2 DEF Step

\* The list of a frame that has gone on to the next task.
Passed(f) == [f EXCEPT !.todo = Tail(@)]

LEMMA PassedTypes ==
  ASSUME NEW f \in Frame, f.todo # <<>>
  PROVE  /\ Passed(f) \in Frame /\ Passed(f).todo = Tail(f.todo) /\ Passed(f).order = f.order
         /\ Passed(f).task = f.task /\ Passed(f).phase = f.phase /\ Passed(f).at = f.at
         /\ Passed(f).code = f.code /\ Passed(f).post = f.post /\ Passed(f).names = f.names
         /\ Passed(f).branches = f.branches
         /\ Head(f.todo) \in Task /\ ToSet(f.todo) = {Head(f.todo)} \cup ToSet(Passed(f).todo)
         /\ PrereqsOf(Passed(f)) = PrereqsOf(f)
         /\ Shaped(f) => Shaped(Passed(f))
  <1>1. f.todo \in Seq(Task)
    BY DEF Frame
  <1>2. Head(f.todo) \in Task /\ Tail(f.todo) \in Seq(Task) /\ ToSet(f.todo) = {Head(f.todo)} \cup ToSet(Tail(f.todo))
    BY <1>1, HeadTailMembers
  <1>3. /\ Passed(f) \in Frame /\ Passed(f).todo = Tail(f.todo) /\ Passed(f).order = f.order
        /\ Passed(f).task = f.task /\ Passed(f).phase = f.phase /\ Passed(f).at = f.at
        /\ Passed(f).code = f.code /\ Passed(f).post = f.post /\ Passed(f).names = f.names
        /\ Passed(f).branches = f.branches
    BY <1>2 DEF Passed, Frame
  <1>4. PrereqsOf(Passed(f)) = PrereqsOf(f)
    BY <1>3 DEF PrereqsOf
  <1>5. Shaped(f) => Shaped(Passed(f))
    BY <1>2, <1>3, <1>4 DEF Shaped
  <1> QED
    BY <1>2, <1>3, <1>4, <1>5

LEMMA SkipGoes ==
  ASSUME TypeOK, Shape, NEW h \in Alive, Ready(h, "next"), Top(h).todo # <<>>,
         Continue(h, Passed(Top(h)))
  PROVE  Goes(h, Passed(Top(h))) /\ Passed(Top(h)) \in Frame /\ Shaped(Passed(Top(h)))
  <1>1. stack[h] # <<>>
    BY DEF Ready, At
  <1> QED
    BY <1>1, TopFacts, PassedTypes, ContinueGoes

LEMMA LeavePops ==
  ASSUME TypeOK, Shape, NEW h \in Alive, stack[h] # <<>>, NEW r \in Result, Return(h, r)
  PROVE  Pops(h, r)
  BY TopFacts, ReturnPops

LEMMA TakesFacts ==
  ASSUME TypeOK, Shape, NEW h \in Alive, NEW t \in Task, Takes(h, t)
  PROVE  /\ stack[h] # <<>> /\ Top(h).phase = "next" /\ ret[h] = None
         /\ Top(h).todo # <<>> /\ Head(Top(h).todo) = t /\ Completed(h, t) # "ok"
  BY DEF Takes, Ready, At

Started(f, t) ==
  [f EXCEPT !.todo = Tail(@), !.task = t, !.phase = "body", !.at = 1, !.code = "ok", !.post = "ok"]

LEMMA StartedTypes ==
  ASSUME NEW f \in Frame, f.todo # <<>>, NEW t \in Task
  PROVE  LET g == Started(f, t) IN
         /\ g \in Frame /\ g.todo = Tail(f.todo) /\ g.task = t /\ g.phase = "body" /\ g.at = 1
         /\ g.code = "ok" /\ g.post = "ok" /\ g.names = f.names
  <1>1. f.todo \in Seq(Task)
    BY DEF Frame
  <1>2. PICK s \in Seq(Task) : s = Tail(f.todo)
    BY <1>1, HeadTailMembers
  <1>3. Started(f, t) = [f EXCEPT !.todo = s, !.task = t, !.phase = "body", !.at = 1,
                                  !.code = "ok", !.post = "ok"]
    BY <1>2 DEF Started
  <1>4. "ok" \in Result /\ "ok" \in Code /\ "body" \in RunPhases \cup GroupPhases /\ 1 \in Nat \ {0}
    BY DEF Result, Code, RunPhases, GroupPhases
  <1>5. PICK g : g = Started(f, t)
    OBVIOUS
  <1>6. g = [order |-> f.order, todo |-> s, task |-> t, phase |-> "body", at |-> 1,
             code |-> "ok", post |-> "ok", names |-> f.names, branches |-> f.branches]
    BY <1>3, <1>5 DEF Frame
  <1>7. f.order \in Seq(Task) /\ f.names \in Seq(Task) /\ f.branches \in Seq(SUBSET Task)
    BY DEF Frame
  <1>8. g \in Frame
    BY <1>2, <1>4, <1>6, <1>7 DEF Frame
  <1> QED
    BY <1>2, <1>5, <1>6, <1>8

LEMMA StartBodyGoes ==
  ASSUME TypeOK, Shape, NEW h \in Alive, NEW t \in Task, StartBody(h, t)
  PROVE  LET f == Started(Top(h), t) IN
         /\ Goes(h, f) /\ f \in Frame /\ Shaped(f)
         /\ f.todo = Tail(Top(h).todo) /\ f.task = t /\ f.phase = "body" /\ f.at = 1
         /\ f.code = "ok" /\ f.post = "ok" /\ f.names = Top(h).names
  <1> DEFINE f == Started(Top(h), t)
  <1>1. stack[h] # <<>> /\ Top(h).todo # <<>>
    BY TakesFacts DEF StartBody, Decides
  <1>2. Top(h) \in Frame /\ Tail(Top(h).todo) \in Seq(Task) /\ Stacks
    BY <1>1, TopFacts, HeadTailMembers
  <1>3. /\ f \in Frame /\ f.todo = Tail(Top(h).todo) /\ f.task = t /\ f.phase = "body" /\ f.at = 1
        /\ f.code = "ok" /\ f.post = "ok" /\ f.names = Top(h).names
    BY <1>1, <1>2, StartedTypes
  <1>4. Continue(h, f)
    BY Zenon DEF StartBody, Started
  <1>5. Shaped(f)
    BY <1>3 DEF Shaped
  <1>6. f \in Frame
    BY <1>3
  <1>7. Goes(h, f)
    <2> HIDE DEF f
    <2> QED
      BY <1>1, <1>2, <1>4, <1>6, ContinueGoes
  <1> QED
    BY <1>3, <1>5, <1>7

LEMMA TeardownTypes ==
  ASSUME NEW f \in Frame, f.phase = "body", Shaped(f), NEW code \in Result
  PROVE  /\ Teardown(f, code) \in Frame /\ Shaped(Teardown(f, code))
         /\ Teardown(f, code).task = f.task /\ Teardown(f, code).phase = "post"
         /\ Teardown(f, code).at = 1 /\ Teardown(f, code).code = code /\ Teardown(f, code).post = "ok"
         /\ Teardown(f, code).todo = f.todo /\ Teardown(f, code).names = f.names
  <1>1. f.task \in Task /\ f.post = "ok"
    BY DEF Shaped
  <1>2. /\ Teardown(f, code) \in Frame
        /\ Teardown(f, code).task = f.task /\ Teardown(f, code).phase = "post"
        /\ Teardown(f, code).at = 1 /\ Teardown(f, code).code = code /\ Teardown(f, code).post = f.post
        /\ Teardown(f, code).todo = f.todo /\ Teardown(f, code).names = f.names
    <2>1. Teardown(f, code) = [f EXCEPT !.phase = "post", !.at = 1, !.code = code]
      BY DEF Teardown
    <2>2. "post" \in RunPhases \cup GroupPhases /\ 1 \in Nat \ {0}
      BY DEF RunPhases
    <2> QED
      BY <2>1, <2>2 DEF Frame
  <1>3. Shaped(Teardown(f, code))
    <2>1. PICK g : g = Teardown(f, code)
      OBVIOUS
    <2>2. g.phase = "post" /\ g.task \in Task
      BY <1>1, <1>2, <2>1
    <2>3. Shaped(g)
      BY <2>2 DEF Shaped
    <2> QED
      BY <2>1, <2>3
  <1> QED
    BY <1>1, <1>2, <1>3

LEMMA AfterStepTypes ==
  ASSUME NEW f \in Frame, f.phase = "body", Shaped(f), NEW code \in Result
  PROVE  LET g == AfterStep(f, code) IN
         /\ g \in Frame /\ Shaped(g) /\ g.task = f.task /\ g.code = code /\ g.post = "ok"
         /\ g.todo = f.todo /\ g.names = f.names
         /\ \/ g.phase = "body" /\ code = "ok"
            \/ g.phase = "post" /\ g.at = 1
  <1> DEFINE g == AfterStep(f, code)
  <1>1. CASE code = "ok"
    <2>1. g = [f EXCEPT !.at = @ + 1]
      BY <1>1 DEF AfterStep
    <2>2. f.task \in Task /\ f.post = "ok" /\ f.code = "ok" /\ f.at + 1 \in Nat \ {0}
      BY DEF Shaped, Frame
    <2>3. /\ g \in Frame /\ g.task = f.task /\ g.code = f.code /\ g.post = f.post
          /\ g.todo = f.todo /\ g.names = f.names /\ g.phase = f.phase
      BY <2>1, <2>2 DEF Frame
    <2> QED
      BY <1>1, <2>2, <2>3 DEF Shaped
  <1>2. CASE code # "ok"
    <2>1. g = Teardown(f, code)
      BY <1>2 DEF AfterStep
    <2> QED
      BY <2>1, TeardownTypes
  <1> QED
    BY <1>1, <1>2

LEMMA BodyGoes ==
  ASSUME TypeOK, Shape, NEW h \in Alive, stack[h] # <<>>, Top(h).phase = "body",
         NEW code \in Result, Continue(h, AfterStep(Top(h), code))
  PROVE  LET g == AfterStep(Top(h), code) IN
         /\ Goes(h, g) /\ g \in Frame /\ Shaped(g) /\ g.task = Top(h).task /\ g.code = code /\ g.post = "ok"
         /\ g.todo = Top(h).todo /\ g.names = Top(h).names
         /\ \/ g.phase = "body" /\ code = "ok"
            \/ g.phase = "post" /\ g.at = 1
  <1>1. Stacks /\ Top(h) \in Frame /\ Shaped(Top(h))
    BY TopFacts
  <1> QED
    BY <1>1, AfterStepTypes, ContinueGoes

LEMMA EndOfBodyGoes ==
  ASSUME TypeOK, Shape, NEW h \in Alive, EndOfBody(h)
  PROVE  LET g == Teardown(Top(h), "ok") IN
         /\ stack[h] # <<>> /\ Top(h).phase = "body"
         /\ Goes(h, g) /\ g \in Frame /\ Shaped(g) /\ g.task = Top(h).task /\ g.phase = "post"
         /\ g.at = 1 /\ g.code = "ok" /\ g.post = "ok" /\ g.todo = Top(h).todo /\ g.names = Top(h).names
  <1>1. stack[h] # <<>> /\ Top(h).phase = "body" /\ Continue(h, Teardown(Top(h), "ok"))
    BY DEF EndOfBody, Ready, At
  <1>2. Stacks /\ Top(h) \in Frame /\ Shaped(Top(h)) /\ "ok" \in Result
    BY <1>1, TopFacts DEF Result, Code
  <1>3. Teardown(Top(h), "ok") \in Frame
    BY <1>1, <1>2, TeardownTypes
  <1>4. Goes(h, Teardown(Top(h), "ok"))
    BY <1>1, <1>2, <1>3, ContinueGoes
  <1> QED
    BY <1>1, <1>2, <1>4, TeardownTypes

\* A body or a teardown calls a group.
LEMMA GroupPushes ==
  ASSUME TypeOK, Shape, NEW h \in Alive, stack[h] # <<>>, NEW s \in Seq(Task),
         Call(h, Top(h), GroupFrame(Top(h).order, s))
  PROVE  LET g == GroupFrame(Top(h).order, s) IN
         /\ Pushes(h, Top(h), g) /\ g \in Frame /\ Shaped(g) /\ g.phase = "deps" /\ g.task = None
         /\ ToSet(g.names) \subseteq ToSet(s) /\ ToSet(g.todo) \subseteq PrereqsOf(g)
  BY TopFacts, GroupFrameTypes, CallPushes

LEMMA PostMoves ==
  ASSUME TypeOK, Shape, NEW h \in Alive, stack[h] # <<>>, Top(h).phase = "post",
         NEW result \in Result, AfterPost(h, Top(h), result)
  PROVE  \/ /\ result \in Err /\ \E r \in Err : Pops(h, r)
         \/ /\ result \in Code
            /\ LET g == [Top(h) EXCEPT !.at = @ + 1, !.post = FirstFailure(@, result)] IN
               /\ Goes(h, g) /\ g \in Frame /\ Shaped(g) /\ g.phase = "post" /\ g.task = Top(h).task
               /\ g.code = Top(h).code /\ g.post = FirstFailure(Top(h).post, result)
               /\ g.at = Top(h).at + 1 /\ g.at # 1
               /\ g.todo = Top(h).todo /\ g.names = Top(h).names
  <1> DEFINE g == [Top(h) EXCEPT !.at = @ + 1, !.post = FirstFailure(@, result)]
  <1>1. Stacks /\ Top(h) \in Frame /\ Shaped(Top(h)) /\ Top(h).at + 1 \in Nat \ {0, 1}
    BY TopFacts
  <1>2. CASE result \in Err
    <2>1. PICK r \in Err : Return(h, r)
      BY <1>2 DEF AfterPost
    <2>2. r \in Result
      BY DEF Result
    <2> QED
      BY <1>2, <2>1, <2>2, LeavePops
  <1>3. CASE result \notin Err
    <2>1. result \in Code /\ Continue(h, g)
      BY <1>3 DEF AfterPost, Result
    <2>2. FirstFailure(Top(h).post, result) \in Code
      BY <2>1, TopFacts DEF FirstFailure
    <2>3. /\ g \in Frame /\ g.phase = "post" /\ g.task = Top(h).task
          /\ g.code = Top(h).code /\ g.post = FirstFailure(Top(h).post, result)
          /\ g.at = Top(h).at + 1 /\ g.todo = Top(h).todo /\ g.names = Top(h).names
      BY <1>1, <2>2 DEF Frame
    <2>4. Shaped(g)
      BY <1>1, <2>3 DEF Shaped
    <2> HIDE DEF g
    <2>5. Goes(h, g)
      BY <1>1, <2>1, <2>3, ContinueGoes
    <2> QED
      BY <1>1, <2>1, <2>3, <2>4, <2>5 DEF g
  <1> QED
    BY <1>2, <1>3

LEMMA EndWithSuccessGoes ==
  ASSUME TypeOK, Shape, NEW h \in Alive, EndWithSuccess(h)
  PROVE  LET g == [Top(h) EXCEPT !.task = None, !.phase = "next"] IN
         /\ stack[h] # <<>> /\ Top(h).phase = "post" /\ ret[h] = None
         /\ Goes(h, g) /\ g \in Frame /\ Shaped(g) /\ g.task = None /\ g.phase = "next"
         /\ g.code = "ok" /\ g.post = "ok" /\ g.todo = Top(h).todo /\ g.names = Top(h).names
  <1> DEFINE g == [Top(h) EXCEPT !.task = None, !.phase = "next"]
  <1>1. /\ stack[h] # <<>> /\ Top(h).phase = "post" /\ ret[h] = None /\ Continue(h, g)
        /\ Top(h).code = "ok" /\ Top(h).post = "ok"
    BY DEF EndWithSuccess, TeardownDone, Ready, At
  <1>2. Stacks /\ Top(h) \in Frame /\ Shaped(Top(h))
    BY <1>1, TopFacts
  <1>3. /\ g \in Frame /\ g.task = None /\ g.phase = "next"
        /\ g.code = "ok" /\ g.post = "ok" /\ g.todo = Top(h).todo /\ g.names = Top(h).names
    BY <1>1, <1>2 DEF Frame, RunPhases
  <1>4. Shaped(g)
    BY <1>3 DEF Shaped
  <1> HIDE DEF g
  <1>5. Goes(h, g)
    BY <1>1, <1>2, <1>3, ContinueGoes
  <1> QED
    BY <1>1, <1>3, <1>4, <1>5 DEF g

-----------------------------------------------------------------------------
(* The same for the steps of a group *)

\* A group goes on to its next task, which has completed or is called.
LEMMA NextTaskPushes ==
  ASSUME TypeOK, Shape, NEW h \in Alive, stack[h] # <<>>, Top(h).phase \in {"deps", "serial"},
         Top(h).todo # <<>>,
         Call(h, Passed(Top(h)), TaskFrame(Top(h).order, Head(Top(h).todo)))
  PROVE  LET t == Head(Top(h).todo)  g == TaskFrame(Top(h).order, t) IN
         /\ t \in Task /\ Pushes(h, Passed(Top(h)), g)
         /\ Passed(Top(h)) \in Frame /\ Shaped(Passed(Top(h)))
         /\ g \in Frame /\ Shaped(g) /\ g.phase = "next" /\ g.task = None
         /\ g.todo = Append(Prereqs[t], t) /\ g.names = <<>>
  <1>1. Stacks /\ plan \in Plans /\ Top(h) \in Frame /\ Shaped(Top(h)) /\ Top(h).order \in Seq(Task)
    BY TopFacts
  <1>2. Passed(Top(h)) \in Frame /\ Shaped(Passed(Top(h))) /\ Head(Top(h).todo) \in Task
    BY <1>1, PassedTypes
  <1> QED
    BY <1>1, <1>2, TaskFrameTypes, CallPushes

LEMMA NextTaskGoes ==
  ASSUME TypeOK, Shape, NEW h \in Alive, stack[h] # <<>>, Top(h).phase = "deps", Top(h).todo # <<>>,
         Continue(h, Passed(Top(h)))
  PROVE  Goes(h, Passed(Top(h))) /\ Passed(Top(h)) \in Frame /\ Shaped(Passed(Top(h)))
  BY TopFacts, PassedTypes, ContinueGoes

\* A list of named tasks takes over a task's code.
Noted(f, code) == [f EXCEPT !.code = FirstFailure(@, code)]

LEMMA NotedTypes ==
  ASSUME NEW f \in Frame, Shaped(f), f.phase = "serial", NEW code \in Result
  PROVE  LET g == Noted(f, code) IN
         /\ g \in Frame /\ Shaped(g) /\ g.todo = f.todo /\ g.names = f.names
         /\ g.code = FirstFailure(f.code, code) /\ g.phase = f.phase /\ g.task = f.task
         /\ g.post = f.post
  <1>1. PICK c \in Result : c = FirstFailure(f.code, code)
    BY DEF FirstFailure, Frame
  <1>2. PICK g : g = Noted(f, code)
    OBVIOUS
  <1>3. g = [f EXCEPT !.code = c]
    BY <1>1, <1>2 DEF Noted
  <1>4. /\ g \in Frame /\ g.todo = f.todo /\ g.names = f.names /\ g.code = c /\ g.phase = f.phase
        /\ g.task = f.task /\ g.post = f.post
    BY <1>3 DEF Frame
  <1>5. Shaped(g)
    BY <1>4 DEF Shaped
  <1> QED
    BY <1>1, <1>2, <1>4, <1>5

LEMMA CompletedTypes ==
  ASSUME TypeOK, NEW h \in Alive, NEW t \in Task
  PROVE  /\ Completed(h, t) \in Code \cup {None} /\ memo[h] \in Memo
         /\ memo[h].running \subseteq Task /\ memo[h].completed \in [Task -> Code \cup {None}]
         /\ record[h] \in Records
  BY DEF TypeOK, Completed, Memo

LEMMA SerialGoes ==
  ASSUME TypeOK, Shape, NEW h \in Alive, stack[h] # <<>>, Top(h).phase = "serial", Top(h).todo # <<>>,
         NEW code \in Result, Continue(h, [Passed(Top(h)) EXCEPT !.code = FirstFailure(@, code)])
  PROVE  LET g == Noted(Passed(Top(h)), code) IN
         /\ Goes(h, g) /\ g \in Frame /\ Shaped(g) /\ g.todo = Tail(Top(h).todo) /\ g.names = Top(h).names
         /\ g.code = FirstFailure(Top(h).code, code) /\ g.phase = "serial" /\ g.task = Top(h).task
         /\ g.post = Top(h).post
  <1>1. Stacks /\ Top(h) \in Frame /\ Shaped(Top(h))
    BY TopFacts
  <1>2. /\ Passed(Top(h)) \in Frame /\ Shaped(Passed(Top(h))) /\ Passed(Top(h)).phase = "serial"
        /\ Passed(Top(h)).todo = Tail(Top(h).todo) /\ Passed(Top(h)).names = Top(h).names
        /\ Passed(Top(h)).code = Top(h).code /\ Passed(Top(h)).task = Top(h).task
        /\ Passed(Top(h)).post = Top(h).post
    BY <1>1, PassedTypes
  <1>3. Continue(h, Noted(Passed(Top(h)), code))
    BY DEF Noted
  <1>4. LET g == Noted(Passed(Top(h)), code) IN
         /\ g \in Frame /\ Shaped(g) /\ g.todo = Tail(Top(h).todo) /\ g.names = Top(h).names
         /\ g.code = FirstFailure(Top(h).code, code) /\ g.phase = "serial" /\ g.task = Top(h).task
         /\ g.post = Top(h).post
    BY <1>2, NotedTypes
  <1> QED
    BY <1>1, <1>3, <1>4, ContinueGoes

LEMMA SerialTaskReturnsMoves ==
  ASSUME TypeOK, Shape, NEW h \in Alive, SerialTaskReturns(h)
  PROVE  /\ stack[h] # <<>> /\ Top(h).phase = "serial" /\ ret[h] \in Result
         /\ \/ ret[h] \in Err /\ Pops(h, ret[h])
            \/ /\ ret[h] \in Code
               /\ LET g == Noted(Top(h), ret[h]) IN
                  /\ Goes(h, g) /\ g \in Frame /\ Shaped(g) /\ g.todo = Top(h).todo
                  /\ g.names = Top(h).names /\ g.code = FirstFailure(Top(h).code, ret[h])
                  /\ g.phase = "serial" /\ g.task = Top(h).task /\ g.post = Top(h).post
  <1>1. stack[h] # <<>> /\ Top(h).phase = "serial" /\ ret[h] # None
    BY DEF SerialTaskReturns, Returned, At
  <1>2. Stacks /\ Top(h) \in Frame /\ Shaped(Top(h))
    BY <1>1, TopFacts
  <1>3. ret[h] \in Result
    BY <1>1, <1>2, StackFacts
  <1>4. CASE ret[h] \in Err
    <2>1. Return(h, ret[h])
      BY <1>4 DEF SerialTaskReturns
    <2> QED
      BY <1>1, <1>3, <1>4, <2>1, LeavePops
  <1>5. CASE ret[h] \notin Err
    <2>1. ret[h] \in Code /\ Continue(h, Noted(Top(h), ret[h]))
      BY <1>3, <1>5 DEF SerialTaskReturns, Noted, Result
    <2>2. LET g == Noted(Top(h), ret[h]) IN
          /\ g \in Frame /\ Shaped(g) /\ g.todo = Top(h).todo
          /\ g.names = Top(h).names /\ g.code = FirstFailure(Top(h).code, ret[h])
          /\ g.phase = "serial" /\ g.task = Top(h).task /\ g.post = Top(h).post
      BY <1>1, <1>2, <1>3, NotedTypes
    <2>3. Goes(h, Noted(Top(h), ret[h]))
      BY <1>1, <1>2, <2>1, <2>2, ContinueGoes
    <2> QED
      BY <1>1, <1>3, <2>1, <2>2, <2>3
  <1> QED
    BY <1>4, <1>5

LEMMA GroupPrerequisiteReturnsMoves ==
  ASSUME TypeOK, Shape, NEW h \in Alive, GroupPrerequisiteReturns(h)
  PROVE  /\ stack[h] # <<>> /\ Top(h).phase = "deps" /\ ret[h] \in Result
         /\ \/ ret[h] \in Err /\ Pops(h, ret[h])
            \/ ret[h] \in Code /\ Goes(h, Top(h)) /\ Top(h) \in Frame /\ Shaped(Top(h))
  <1>1. stack[h] # <<>> /\ Top(h).phase = "deps" /\ ret[h] # None
    BY DEF GroupPrerequisiteReturns, Returned, At
  <1>2. Stacks /\ Top(h) \in Frame /\ Shaped(Top(h))
    BY <1>1, TopFacts
  <1>3. ret[h] \in Result
    BY <1>1, <1>2, StackFacts
  <1>4. CASE ret[h] \in Err
    <2>1. Return(h, ret[h])
      BY <1>4 DEF GroupPrerequisiteReturns
    <2> QED
      BY <1>1, <1>3, <1>4, <2>1, LeavePops
  <1>5. CASE ret[h] \notin Err
    <2>1. ret[h] \in Code /\ Continue(h, Top(h))
      BY <1>3, <1>5 DEF GroupPrerequisiteReturns, Result
    <2> QED
      BY <1>1, <1>2, <1>3, <2>1, ContinueGoes
  <1> QED
    BY <1>4, <1>5

Branches(h) == [i \in DOMAIN Top(h).names |-> Reachable(h, Top(h).names[i])]
Forking(h) == [Top(h) EXCEPT !.phase = "fork", !.branches = Branches(h)]
InOrderNow(h) == [Top(h) EXCEPT !.phase = "serial", !.todo = Top(h).names]

LEMMA StartGroupGoes ==
  ASSUME TypeOK, Shape, NEW h \in Alive, StartGroup(h)
  PROVE  /\ stack[h] # <<>> /\ Top(h).phase = "deps" /\ Top(h).todo = <<>>
         /\ \/ LET g == Forking(h) IN
               /\ Goes(h, g) /\ g \in Frame /\ Shaped(g) /\ g.phase = "fork" /\ g.todo = <<>>
               /\ g.task = None /\ g.code = "ok" /\ g.post = "ok" /\ g.at = Top(h).at
               /\ g.names = Top(h).names /\ g.branches = Branches(h) /\ Independent(Branches(h))
            \/ LET g == InOrderNow(h) IN
               /\ Goes(h, g) /\ g \in Frame /\ Shaped(g) /\ g.phase = "serial" /\ g.todo = Top(h).names
               /\ g.task = None /\ g.code = "ok" /\ g.post = "ok" /\ g.names = Top(h).names
  <1>1. /\ stack[h] # <<>> /\ Top(h).phase = "deps" /\ Top(h).todo = <<>>
        /\ Continue(h, IF Independent(Branches(h)) THEN Forking(h) ELSE InOrderNow(h))
    BY DEF StartGroup, Ready, At, Branches, Forking, InOrderNow
  <1>2. /\ Stacks /\ Top(h) \in Frame /\ Shaped(Top(h)) /\ Top(h).names \in Seq(Task)
        /\ Top(h).todo \in Seq(Task)
    BY <1>1, TopFacts
  <1>3. Top(h).task = None /\ Top(h).code = "ok" /\ Top(h).post = "ok"
    BY <1>1, <1>2 DEF Shaped
  <1>4. CASE Independent(Branches(h))
    <2>1. PICK b \in Seq(SUBSET Task) : b = Branches(h) /\ Len(b) = Len(Top(h).names)
      <3>1. DOMAIN Top(h).names = 1..Len(Top(h).names) /\ Len(Top(h).names) \in Nat
        BY <1>2, LenProperties
      <3>2. \A i \in 1..Len(Top(h).names) : Reachable(h, Top(h).names[i]) \in SUBSET Task
        BY ReachableTasks
      <3>3. Branches(h) = [i \in 1..Len(Top(h).names) |-> Reachable(h, Top(h).names[i])]
        BY <3>1 DEF Branches
      <3>4. [i \in 1..Len(Top(h).names) |-> Reachable(h, Top(h).names[i])] \in Seq(SUBSET Task)
        BY <3>1, <3>2, IsASeq
      <3>5. DOMAIN [i \in 1..Len(Top(h).names) |-> Reachable(h, Top(h).names[i])] = 1..Len(Top(h).names)
        OBVIOUS
      <3>6. Len(Branches(h)) = Len(Top(h).names)
        BY <3>1, <3>3, <3>4, <3>5, LenProperties
      <3> QED
        BY <3>3, <3>4, <3>6
    <2>2. PICK g : g = Forking(h)
      OBVIOUS
    <2>3. g = [Top(h) EXCEPT !.phase = "fork", !.branches = b]
      BY <2>1, <2>2 DEF Forking
    <2>4. "fork" \in RunPhases \cup GroupPhases
      BY DEF GroupPhases
    <2>5. /\ g \in Frame /\ g.phase = "fork" /\ g.todo = Top(h).todo /\ g.task = Top(h).task
          /\ g.code = Top(h).code /\ g.post = Top(h).post /\ g.names = Top(h).names /\ g.branches = b
          /\ g.at = Top(h).at
      BY <1>2, <2>1, <2>3, <2>4 DEF Frame
    <2>6. Shaped(g)
      BY <1>3, <2>1, <2>5 DEF Shaped
    <2>7. Goes(h, g)
      BY <1>1, <1>2, <1>4, <2>2, <2>5, ContinueGoes
    <2> QED
      BY <1>1, <1>3, <1>4, <2>1, <2>2, <2>5, <2>6, <2>7
  <1>5. CASE ~Independent(Branches(h))
    <2>1. PICK g : g = InOrderNow(h)
      OBVIOUS
    <2>2. g = [Top(h) EXCEPT !.phase = "serial", !.todo = Top(h).names]
      BY <2>1 DEF InOrderNow
    <2>3. "serial" \in RunPhases \cup GroupPhases
      BY DEF GroupPhases
    <2>4. /\ g \in Frame /\ g.phase = "serial" /\ g.todo = Top(h).names /\ g.task = Top(h).task
          /\ g.code = Top(h).code /\ g.post = Top(h).post /\ g.names = Top(h).names
      BY <1>2, <2>2, <2>3 DEF Frame
    <2>5. Shaped(g)
      BY <1>3, <2>4 DEF Shaped
    <2>6. Goes(h, g)
      BY <1>1, <1>2, <1>5, <2>1, <2>4, ContinueGoes
    <2> QED
      BY <1>1, <1>3, <2>1, <2>4, <2>5, <2>6
  <1> QED
    BY <1>4, <1>5

-----------------------------------------------------------------------------
(* Threads: g is below w when g, or a thread it forked, forked w *)

Below(g, w) == Len(g) < Len(w) /\ \A i \in 1..Len(g) : g[i] = w[i]

LEMMA ThreadFacts ==
  ASSUME NEW w \in Thread, w # <<>>
  PROVE  /\ Front(w) \in Thread /\ Last(w) \in Task /\ Below(Front(w), w)
         /\ Len(w) \in Nat \ {0} /\ Len(Front(w)) = Len(w) - 1
         /\ Last(w) = w[Len(w)] /\ \A i \in 1..(Len(w) - 1) : Front(w)[i] = w[i]
  <1>1. /\ Front(w) \in Seq(Task) /\ Len(Front(w)) = Len(w) - 1 /\ Last(w) \in Task
        /\ Len(w) \in Nat \ {0} /\ \A i \in 1..(Len(w) - 1) : Front(w)[i] = w[i]
    BY FrontFacts DEF Thread
  <1>2. Below(Front(w), w)
    BY <1>1 DEF Below
  <1> QED
    BY <1>1, <1>2 DEF Thread, Last

LEMMA ThreadAppend ==
  ASSUME NEW h \in Thread, NEW t \in Task
  PROVE  /\ Append(h, t) \in Thread /\ Append(h, t) # <<>> /\ Append(h, t) # h
         /\ Front(Append(h, t)) = h /\ Last(Append(h, t)) = t
         /\ Len(Append(h, t)) = Len(h) + 1 /\ Len(h) \in Nat
         /\ Append(h, t)[Len(h) + 1] = t /\ \A i \in 1..Len(h) : Append(h, t)[i] = h[i]
  <1>1. /\ Append(h, t) \in Seq(Task) /\ Len(Append(h, t)) = Len(h) + 1
        /\ Append(h, t)[Len(h) + 1] = t /\ \A i \in 1..Len(h) : Append(h, t)[i] = h[i]
    BY AppendProperties DEF Thread
  <1>2. Len(h) \in Nat
    BY LenProperties DEF Thread
  <1>3. Append(h, t) # <<>> /\ Append(h, t) # h
    BY <1>1, <1>2
  <1>4. /\ Front(Append(h, t)) \in Seq(Task) /\ Len(Front(Append(h, t))) = Len(h)
        /\ \A i \in 1..Len(h) : Front(Append(h, t))[i] = h[i]
    <2>1. /\ Front(Append(h, t)) \in Seq(Task) /\ Len(Front(Append(h, t))) = Len(Append(h, t)) - 1
          /\ \A i \in 1..(Len(Append(h, t)) - 1) : Front(Append(h, t))[i] = Append(h, t)[i]
      BY <1>1, <1>3, FrontFacts
    <2>2. Len(Append(h, t)) - 1 = Len(h)
      BY <1>1, <1>2
    <2> QED
      BY <1>1, <2>1, <2>2
  <1>5. Front(Append(h, t)) = h
    BY <1>4, SeqEqual DEF Thread
  <1>6. Last(Append(h, t)) = t
    BY <1>1 DEF Last
  <1> QED
    BY <1>1, <1>2, <1>3, <1>5, <1>6 DEF Thread

LEMMA SameThread ==
  ASSUME NEW w \in Thread, NEW v \in Thread, w # <<>>, v # <<>>, Front(w) = Front(v), Last(w) = Last(v)
  PROVE  w = v
  <1>1. Len(w) = Len(v) /\ Len(w) \in Nat \ {0}
    BY ThreadFacts
  <1>2. \A i \in 1..Len(w) : i = Len(w) \/ i \in 1..(Len(w) - 1)
    BY <1>1
  <1>3. \A i \in 1..Len(w) : w[i] = v[i]
    BY <1>1, <1>2, ThreadFacts
  <1> QED
    BY <1>1, <1>3, SeqEqual DEF Thread

LEMMA BelowFront ==
  ASSUME NEW g \in Thread, NEW w \in Thread, Below(g, w)
  PROVE  w # <<>> /\ g # w /\ (g = Front(w) \/ Below(g, Front(w)))
  <1>1. Len(g) \in Nat /\ Len(w) \in Nat /\ Len(g) < Len(w) /\ \A i \in 1..Len(g) : g[i] = w[i]
    BY LenProperties DEF Below, Thread
  <1>2. w # <<>> /\ g # w
    BY <1>1
  <1>3. Front(w) \in Thread /\ Len(Front(w)) = Len(w) - 1 /\ \A i \in 1..(Len(w) - 1) : Front(w)[i] = w[i]
    BY <1>2, ThreadFacts
  <1>4. \A i \in 1..Len(g) : g[i] = Front(w)[i]
    BY <1>1, <1>3
  <1>5. CASE Len(g) = Len(w) - 1
    <2>1. g = Front(w)
      BY <1>3, <1>4, <1>5, SeqEqual DEF Thread
    <2> QED
      BY <1>2, <2>1
  <1>6. CASE Len(g) # Len(w) - 1
    <2>1. Len(g) < Len(w) - 1
      BY <1>1, <1>6
    <2> QED
      BY <1>2, <1>3, <1>4, <2>1 DEF Below
  <1> QED
    BY <1>5, <1>6

LEMMA BelowTransitive ==
  ASSUME NEW g \in Thread, NEW h \in Thread, NEW w \in Thread, Below(g, h), Below(h, w)
  PROVE  Below(g, w)
  <1>1. Len(g) \in Nat /\ Len(h) \in Nat /\ Len(w) \in Nat
    BY LenProperties DEF Thread
  <1> QED
    BY <1>1 DEF Below

LEMMA BelowAppend ==
  ASSUME NEW g \in Thread, NEW w \in Thread, w # <<>>, g = Front(w) \/ Below(g, Front(w))
  PROVE  Below(g, w)
  BY ThreadFacts, BelowTransitive

LEMMA MainIsBelow ==
  ASSUME NEW w \in Thread, w # Main
  PROVE  Below(Main, w)
  <1>1. Len(w) \in Nat /\ Len(w) # 0
    BY LenProperties, EmptySeq DEF Thread, Main
  <1> QED
    BY <1>1 DEF Below, Main

\* Between a thread and one far above there is one that the first forked itself.
LEMMA BelowByOne ==
  ASSUME NEW g \in Thread, NEW w \in Thread, Below(g, w), Front(w) # g
  PROVE  \E v \in Thread : v # <<>> /\ Front(v) = g /\ Below(v, w)
  <1>1. Len(g) \in Nat /\ Len(w) \in Nat /\ Len(g) < Len(w) /\ \A i \in 1..Len(g) : g[i] = w[i]
    BY LenProperties DEF Below, Thread
  <1>2. Below(g, Front(w)) /\ w # <<>>
    BY BelowFront
  <1>3. Len(g) < Len(w) - 1
    <2>1. Len(Front(w)) = Len(w) - 1
      BY <1>2, ThreadFacts
    <2> QED
      BY <1>2, <2>1 DEF Below
  <1> DEFINE n == Len(g) + 1
             v == Append(g, w[n])
  <1>4. n \in 1..Len(w) /\ n \in Nat
    BY <1>1
  <1>5. w[n] \in Task
    BY <1>4, ElementOfSeq DEF Thread
  <1>6. /\ v \in Thread /\ v # <<>> /\ Front(v) = g /\ Len(v) = n /\ v[n] = w[n]
        /\ \A i \in 1..Len(g) : v[i] = g[i]
    BY <1>5, ThreadAppend
  <1>7. \A i \in 1..n : i = n \/ i \in 1..Len(g)
    BY <1>1
  <1>8. n < Len(w)
    BY <1>1, <1>3
  <1> HIDE DEF n, v
  <1>9. Below(v, w)
    BY <1>1, <1>6, <1>7, <1>8 DEF Below
  <1> QED
    BY <1>6, <1>9

-----------------------------------------------------------------------------
(* The tree of threads, and how Fork and Join change it *)

Tree ==
  /\ \A w \in Alive, g \in Thread : Below(g, w) => g \in Alive /\ At(g, "join") /\ ret[g] = None
  /\ \A w \in Alive \ {Main} : \E i \in InBatch(Top(Front(w))) :
       /\ Top(Front(w)).names[i] = Last(w) /\ Completed(Front(w), Last(w)) = None

LEMMA ParentFacts ==
  ASSUME TypeOK, Tree, NEW w \in Alive, w # Main
  PROVE  /\ w \in Thread /\ w # <<>> /\ Front(w) \in Alive /\ Below(Front(w), w) /\ Last(w) \in Task
         /\ stack[Front(w)] # <<>> /\ Top(Front(w)).phase = "join" /\ ret[Front(w)] = None
  <1>1. w \in Thread /\ w # <<>>
    BY DEF TypeOK, Main
  <1>2. Front(w) \in Thread /\ Below(Front(w), w) /\ Last(w) \in Task
    BY <1>1, ThreadFacts
  <1>3. Front(w) \in Alive /\ At(Front(w), "join") /\ ret[Front(w)] = None
    BY <1>2 DEF Tree
  <1> QED
    BY <1>1, <1>2, <1>3 DEF At

\* A thread that can make a step other than Join has no workers.
LEMMA NotJoining ==
  ASSUME TypeOK, Tree, NEW h \in Alive, ~At(h, "join") \/ ret[h] # None
  PROVE  /\ \A w \in Alive : ~Below(h, w)
         /\ \A w \in Alive \ {Main} : Front(w) # h
  <1>1. \A w \in Alive : ~Below(h, w)
    BY DEF Tree, TypeOK
  <1>2. \A w \in Alive \ {Main} : Front(w) # h
    BY <1>1, ParentFacts
  <1> QED
    BY <1>1, <1>2

Forked(h) ==
  {Append(h, Top(h).names[i]) : i \in {j \in InBatch(Top(h)) : Completed(h, Top(h).names[j]) = None}}

LEMMA ForkedFacts ==
  ASSUME TypeOK, Shape, Tree, NEW h \in Alive, Ready(h, "fork")
  PROVE  /\ Forked(h) \subseteq Thread \ {Main} /\ Forked(h) \cap Alive = {}
         /\ \A w \in Forked(h) :
              /\ Front(w) = h /\ Last(w) \in Task /\ Completed(h, Last(w)) = None
              /\ \E i \in InBatch(Top(h)) : Top(h).names[i] = Last(w)
  <1>1. stack[h] # <<>> /\ Top(h).phase = "fork" /\ h \in Thread
    BY DEF Ready, At, TypeOK
  <1>2. Top(h).names \in Seq(Task)
    BY <1>1, TopFacts
  <1>3. \A i \in InBatch(Top(h)) : Top(h).names[i] \in Task
    BY <1>2, ElementOfSeq, LenProperties DEF InBatch
  <1>4. ASSUME NEW w \in Forked(h)
        PROVE  /\ w \in Thread /\ w # Main /\ w \notin Alive
               /\ Front(w) = h /\ Last(w) \in Task /\ Completed(h, Last(w)) = None
               /\ \E i \in InBatch(Top(h)) : Top(h).names[i] = Last(w)
    <2>1. PICK i \in InBatch(Top(h)) : /\ Completed(h, Top(h).names[i]) = None
                                       /\ w = Append(h, Top(h).names[i])
      BY DEF Forked
    <2>2. /\ w \in Thread /\ w # <<>> /\ Front(w) = h /\ Last(w) = Top(h).names[i]
          /\ Top(h).names[i] \in Task
      BY <1>1, <1>3, <2>1, ThreadAppend
    <2>3. w \notin Alive
      <3>1. SUFFICES ASSUME w \in Alive PROVE FALSE
        OBVIOUS
      <3>2. Top(h).phase = "join"
        BY <2>2, <3>1, ParentFacts DEF Main
      <3> QED
        BY <1>1, <3>2
    <2> QED
      BY <2>1, <2>2, <2>3 DEF Main
  <1> QED
    BY <1>4

Joining(h) == [Top(h) EXCEPT !.phase = "join"]

ForkMoves(h) ==
  /\ Alive' = Alive \cup Forked(h) /\ Stacks'
  /\ \A g \in Alive \ {h} : stack'[g] = stack[g] /\ ret'[g] = ret[g] /\ Frames(g)' = Frames(g)
  /\ \A g \in Alive : memo'[g] = memo[g] /\ record'[g] = record[g]
  /\ stack'[h] # <<>> /\ Len(stack'[h]) = Len(stack[h]) /\ ret'[h] = None
  /\ Top(h)' = Joining(h) /\ Outer(h)' = Outer(h) /\ Frames(h)' = Outer(h) \cup {Joining(h)}
  /\ \A i \in 1..(Len(stack[h]) - 1) : stack'[h][i] = stack[h][i]
  /\ \A w \in Forked(h) :
       /\ stack'[w] = <<TaskFrame(Top(h).order, Last(w))>> /\ ret'[w] = None
       /\ Frames(w)' = {TaskFrame(Top(h).order, Last(w))}
       /\ memo'[w] = memo[h] /\ record'[w] = record[h]

LEMMA JoiningTypes ==
  ASSUME NEW f \in Frame, Shaped(f), f.phase = "fork"
  PROVE  LET g == [f EXCEPT !.phase = "join"] IN
         /\ g \in Frame /\ Shaped(g) /\ g.phase = "join" /\ g.names = f.names /\ g.at = f.at
         /\ g.branches = f.branches /\ g.code = f.code /\ g.post = f.post /\ g.todo = f.todo
         /\ g.task = f.task
  <1>1. PICK g : g = [f EXCEPT !.phase = "join"]
    OBVIOUS
  <1>2. "join" \in RunPhases \cup GroupPhases
    BY DEF GroupPhases
  <1>3. /\ g \in Frame /\ g.phase = "join" /\ g.names = f.names /\ g.at = f.at
        /\ g.branches = f.branches /\ g.code = f.code /\ g.post = f.post /\ g.todo = f.todo
        /\ g.task = f.task
    BY <1>1, <1>2 DEF Frame
  <1>4. Shaped(g)
    BY <1>3 DEF Shaped
  <1> QED
    BY <1>1, <1>3, <1>4

LEMMA ForkDoes ==
  ASSUME TypeOK, Shape, Tree, NEW h \in Alive, Fork(h)
  PROVE  ForkMoves(h)
  <1> DEFINE new == Forked(h)
             f == Top(h)
             s == Append(Front(stack[h]), Joining(h))
  <1>1. Ready(h, "fork") /\ stack[h] # <<>> /\ f.phase = "fork" /\ ret[h] = None
    BY DEF Fork, Ready, At
  <1>2. new \subseteq Thread \ {Main} /\ new \cap Alive = {} /\ \A w \in new : Last(w) \in Task
    BY <1>1, ForkedFacts
  <1>3. Stacks /\ plan \in Plans /\ f \in Frame /\ Shaped(f) /\ f.order \in Seq(Task)
    BY <1>1, TopFacts
  <1>4. /\ stack' = [w \in Alive \cup new |-> IF w \in new THEN <<TaskFrame(f.order, Last(w))>>
                                             ELSE IF w = h THEN s ELSE stack[w]]
        /\ ret' = [w \in Alive \cup new |-> IF w \in new THEN None ELSE ret[w]]
        /\ memo' = [w \in Alive \cup new |-> memo[IF w \in new THEN h ELSE w]]
        /\ record' = [w \in Alive \cup new |-> record[IF w \in new THEN h ELSE w]]
    BY Zenon DEF Fork, Forked, Joining
  <1>5. Joining(h) \in Frame
    BY <1>1, <1>3, JoiningTypes DEF Joining
  <1>6. /\ s \in Seq(Frame) /\ Len(s) = Len(stack[h])
        /\ \A i \in 1..(Len(stack[h]) - 1) : s[i] = stack[h][i]
        /\ s[Len(stack[h])] = Joining(h)
    BY <1>1, <1>3, <1>5, TopReplaced DEF Stacks
  <1>7. \A w \in new : TaskFrame(f.order, Last(w)) \in Frame
    BY <1>2, <1>3, TaskFrameTypes
  <1>8. Len(stack[h]) \in Nat \ {0}
    BY <1>1, <1>3, StackFacts
  <1> HIDE DEF new, f, s
  <1>9. Alive' = Alive \cup new
    BY <1>4 DEF Alive
  <1>10. Stacks'
    <2>1. \A w \in new : <<TaskFrame(f.order, Last(w))>> \in Seq(Frame)
      BY <1>7
    <2>2. \A w \in Alive : stack[w] \in Seq(Frame) /\ ret[w] \in Result \cup {None}
      BY <1>3 DEF Stacks
    <2>3. stack' \in [Alive \cup new -> Seq(Frame)]
      BY <1>4, <1>6, <2>1, <2>2
    <2>4. ret' \in [Alive \cup new -> Result \cup {None}]
      BY <1>4, <2>2
    <2> QED
      BY <1>9, <2>3, <2>4 DEF Stacks
  <1>11. \A g \in Alive \ {h} : stack'[g] = stack[g] /\ ret'[g] = ret[g] /\ Frames(g)' = Frames(g)
    BY <1>2, <1>4 DEF Frames
  <1>12. \A g \in Alive : memo'[g] = memo[g] /\ record'[g] = record[g]
    BY <1>2, <1>4
  <1>13. stack'[h] = s /\ ret'[h] = None
    BY <1>1, <1>2, <1>4
  <1>14. Top(h)' = Joining(h) /\ stack'[h] # <<>>
    <2>1. stack'[h] # <<>>
      BY <1>6, <1>8, <1>13
    <2> QED
      BY <1>6, <1>13, <2>1 DEF Top, Last
  <1>15. Outer(h)' = Outer(h)
    BY <1>6, <1>13 DEF Outer
  <1>16. Frames(h)' = Outer(h) \cup {Joining(h)}
    <2>1. 1..Len(stack[h]) = (1..(Len(stack[h]) - 1)) \cup {Len(stack[h])}
      BY <1>8
    <2>2. Frames(h)' = {s[i] : i \in 1..(Len(stack[h]) - 1)} \cup {s[Len(stack[h])]}
      BY <1>6, <1>13, <2>1 DEF Frames
    <2>3. {s[i] : i \in 1..(Len(stack[h]) - 1)} = Outer(h)
      BY <1>6 DEF Outer
    <2> QED
      BY <1>6, <2>2, <2>3
  <1>17. ASSUME NEW w \in new
         PROVE  /\ stack'[w] = <<TaskFrame(f.order, Last(w))>> /\ ret'[w] = None
                /\ Frames(w)' = {TaskFrame(f.order, Last(w))}
                /\ memo'[w] = memo[h] /\ record'[w] = record[h]
    <2>1. /\ stack'[w] = <<TaskFrame(f.order, Last(w))>> /\ ret'[w] = None
          /\ memo'[w] = memo[h] /\ record'[w] = record[h]
      BY <1>4
    <2>2. PICK x : x = TaskFrame(f.order, Last(w))
      OBVIOUS
    <2>3. stack'[w] = <<x>>
      BY <2>1, <2>2
    <2>4. Len(<<x>>) = 1 /\ <<x>>[1] = x /\ 1..1 = {1}
      OBVIOUS
    <2>5. Frames(w)' = {x}
      BY <2>3, <2>4 DEF Frames
    <2> QED
      BY <2>1, <2>2, <2>5
  <1>18. \A i \in 1..(Len(stack[h]) - 1) : stack'[h][i] = stack[h][i]
    BY <1>6, <1>13
  <1> QED
    BY <1>6, <1>9, <1>10, <1>11, <1>12, <1>13, <1>14, <1>15, <1>16, <1>17, <1>18
    DEF ForkMoves, new, f

-----------------------------------------------------------------------------

\* The result of the i-th named task of the batch.
ResultOf(h, i) ==
  LET w == Append(h, Top(h).names[i]) IN
  IF w \in Alive THEN ret[w] ELSE Completed(h, Top(h).names[i])
Results(h) == [i \in InBatch(Top(h)) |-> ResultOf(h, i)]
Joined(h) ==
  [Top(h) EXCEPT !.phase = "fork", !.at = NextBatch(Top(h)), !.code = Merge(Top(h).code, Results(h))]

JoinMoves(h) ==
  /\ Alive' = Alive \ Workers(h) /\ h \in Alive' /\ Stacks'
  /\ \A g \in Alive' \ {h} : /\ stack'[g] = stack[g] /\ ret'[g] = ret[g] /\ Frames(g)' = Frames(g)
                            /\ memo'[g] = memo[g] /\ record'[g] = record[g]
  /\ stack'[h] # <<>> /\ Len(stack'[h]) = Len(stack[h]) /\ ret'[h] = None
  /\ Top(h)' = Joined(h) /\ Outer(h)' = Outer(h) /\ Frames(h)' = Outer(h) \cup {Joined(h)}
  /\ \A i \in 1..(Len(stack[h]) - 1) : stack'[h][i] = stack[h][i]
  /\ memo'[h].running = memo[h].running
  /\ memo'[h].completed = [t \in Task |-> Completed(Owner(h, t), t)]
  /\ record'[h] = [t \in Task |-> record[Owner(h, t)][t]]

LEMMA MergeTypes ==
  ASSUME NEW first \in Result, NEW results, DOMAIN results \subseteq Nat
  PROVE  Merge(first, results) \in Result
  <1> DEFINE errors == {i \in DOMAIN results : results[i] \in Err}
  <1>1. errors # {} => Min(errors) \in errors
    BY MinExists
  <1>2. Merge(first, results) \in {first, results[Min(errors)], "failed", "ok"}
    BY DEF Merge
  <1>3. (Merge(first, results) = results[Min(errors)] /\ errors # {}) \/ Merge(first, results) \in {first, "failed", "ok"}
    BY DEF Merge
  <1> QED
    BY <1>1, <1>3 DEF Result, Code

LEMMA JoinedTypes ==
  ASSUME TypeOK, Shape, NEW h \in Alive, stack[h] # <<>>, Top(h).phase = "join"
  PROVE  LET g == Joined(h)  f == Top(h) IN
         /\ g \in Frame /\ Shaped(g) /\ g.phase = "fork" /\ g.names = f.names /\ g.at = f.at + Batch
         /\ g.branches = f.branches /\ g.code = Merge(f.code, Results(h)) /\ g.post = f.post
         /\ g.todo = f.todo /\ g.task = f.task
  <1>1. Top(h) \in Frame /\ Shaped(Top(h)) /\ Top(h).code \in Result /\ Top(h).at \in Nat \ {0} /\ Top(h).names \in Seq(Task)
    BY TopFacts
  <1>2. PICK c \in Result : c = Merge(Top(h).code, Results(h))
    <2>1. DOMAIN Results(h) \subseteq Nat
      BY <1>1, LenProperties DEF Results, InBatch
    <2> QED
      BY <1>1, <2>1, MergeTypes
  <1>3. PICK n \in Nat \ {0} : n = Top(h).at + Batch /\ n = NextBatch(Top(h))
    BY <1>1, ConstantsAssumption DEF NextBatch
  <1>4. PICK g : g = Joined(h)
    OBVIOUS
  <1>5. g = [Top(h) EXCEPT !.phase = "fork", !.at = n, !.code = c]
    BY <1>2, <1>3, <1>4 DEF Joined
  <1>6. "fork" \in RunPhases \cup GroupPhases
    BY DEF GroupPhases
  <1>7. /\ g \in Frame /\ g.phase = "fork" /\ g.names = Top(h).names /\ g.at = n
        /\ g.branches = Top(h).branches /\ g.code = c /\ g.post = Top(h).post
        /\ g.todo = Top(h).todo /\ g.task = Top(h).task
    BY <1>1, <1>5, <1>6 DEF Frame
  <1>8. Shaped(g)
    BY <1>1, <1>7 DEF Shaped
  <1> QED
    BY <1>2, <1>3, <1>4, <1>7, <1>8

LEMMA OwnerFacts ==
  ASSUME NEW h \in Alive, NEW t
  PROVE  /\ Owner(h, t) \in Alive
         /\ \/ Owner(h, t) \in Workers(h) /\ t \in Branch(Owner(h, t))
            \/ Owner(h, t) = h /\ \A w \in Workers(h) : t \notin Branch(w)
  <1>1. CASE \E w \in Workers(h) : t \in Branch(w)
    <2>1. Owner(h, t) = CHOOSE w \in Workers(h) : t \in Branch(w)
      BY <1>1, Zenon DEF Owner
    <2>2. Owner(h, t) \in Workers(h) /\ t \in Branch(Owner(h, t))
      BY <1>1, <2>1, Zenon
    <2> QED
      BY <2>2 DEF Workers
  <1>2. CASE ~ \E w \in Workers(h) : t \in Branch(w)
    <2>1. Owner(h, t) = h
      BY <1>2, Zenon DEF Owner
    <2> QED
      BY <1>2, <2>1
  <1> QED
    BY <1>1, <1>2

LEMMA JoinDoes ==
  ASSUME TypeOK, Shape, Tree, NEW h \in Alive, Join(h)
  PROVE  JoinMoves(h)
  <1> DEFINE left == Alive \ Workers(h)
             s == Append(Front(stack[h]), Joined(h))
  <1>1. stack[h] # <<>> /\ Top(h).phase = "join" /\ ret[h] = None
    BY DEF Join, Ready, At
  <1>2. Stacks /\ Top(h) \in Frame /\ Shaped(Top(h))
    BY <1>1, TopFacts
  <1>3. h \in left
    <2>1. h \notin Workers(h)
      <3>1. SUFFICES ASSUME h # Main, Front(h) = h PROVE FALSE
        BY DEF Workers
      <3>2. h \in Thread /\ Below(Front(h), h)
        BY <3>1, ParentFacts
      <3> QED
        BY <3>1, <3>2, BelowFront
    <2> QED
      BY <2>1
  <1>4. [i \in InBatch(Top(h)) |-> LET w == Append(h, Top(h).names[i]) IN
            IF w \in Alive THEN ret[w] ELSE Completed(h, Top(h).names[i])] = Results(h)
    BY Zenon DEF Results, ResultOf
  <1>5. /\ stack' = [[w \in left |-> stack[w]] EXCEPT ![h] = s]
        /\ ret' = [w \in left |-> ret[w]]
        /\ memo' = [[w \in left |-> memo[w]] EXCEPT
                       ![h].completed = [t \in Task |-> Completed(Owner(h, t), t)]]
        /\ record' = [[w \in left |-> record[w]] EXCEPT ![h] = [t \in Task |-> record[Owner(h, t)][t]]]
    <2>1. stack' = [[w \in left |-> stack[w]] EXCEPT ![h] = Append(Front(@), Joined(h))]
      BY <1>4 DEF Join, Joined, ResultOf
    <2>2. [w \in left |-> stack[w]][h] = stack[h]
      BY <1>3
    <2>3. stack' = [[w \in left |-> stack[w]] EXCEPT ![h] = s]
      BY <2>1, <2>2
    <2> QED
      BY <2>3, Zenon DEF Join
  <1>6. Joined(h) \in Frame
    BY <1>1, JoinedTypes
  <1>7. /\ s \in Seq(Frame) /\ Len(s) = Len(stack[h])
        /\ \A i \in 1..(Len(stack[h]) - 1) : s[i] = stack[h][i]
        /\ s[Len(stack[h])] = Joined(h)
    BY <1>1, <1>2, <1>6, TopReplaced DEF Stacks
  <1>8. Len(stack[h]) \in Nat \ {0}
    BY <1>1, <1>2, StackFacts
  <1> HIDE DEF s
  <1>9. Alive' = left
    BY <1>5 DEF Alive
  <1>10. Stacks'
    <2>1. \A w \in Alive : stack[w] \in Seq(Frame) /\ ret[w] \in Result \cup {None}
      BY <1>2 DEF Stacks
    <2> QED
      BY <1>5, <1>7, <1>9, <2>1 DEF Stacks
  <1>11. \A g \in left \ {h} : /\ stack'[g] = stack[g] /\ ret'[g] = ret[g] /\ Frames(g)' = Frames(g)
                              /\ memo'[g] = memo[g] /\ record'[g] = record[g]
    BY <1>5 DEF Frames
  <1>12. stack'[h] = s /\ ret'[h] = None
    BY <1>1, <1>3, <1>5
  <1>13. Top(h)' = Joined(h) /\ stack'[h] # <<>>
    <2>1. stack'[h] # <<>>
      BY <1>7, <1>8, <1>12
    <2> QED
      BY <1>7, <1>12, <2>1 DEF Top, Last
  <1>14. Outer(h)' = Outer(h)
    BY <1>7, <1>12 DEF Outer
  <1>15. Frames(h)' = Outer(h) \cup {Joined(h)}
    <2>1. 1..Len(stack[h]) = (1..(Len(stack[h]) - 1)) \cup {Len(stack[h])}
      BY <1>8
    <2>2. Frames(h)' = {s[i] : i \in 1..(Len(stack[h]) - 1)} \cup {s[Len(stack[h])]}
      BY <1>7, <1>12, <2>1 DEF Frames
    <2>3. {s[i] : i \in 1..(Len(stack[h]) - 1)} = Outer(h)
      BY <1>7 DEF Outer
    <2> QED
      BY <1>7, <2>2, <2>3
  <1>16. /\ memo'[h].running = memo[h].running
         /\ memo'[h].completed = [t \in Task |-> Completed(Owner(h, t), t)]
    <2>1. memo[h] \in Memo
      BY CompletedTypes DEF TypeOK
    <2>2. PICK c : c = [t \in Task |-> Completed(Owner(h, t), t)]
      OBVIOUS
    <2>3. memo' = [[w \in left |-> memo[w]] EXCEPT ![h].completed = c]
      BY <1>5, <2>2
    <2> HIDE DEF left
    <2>4. memo'[h] = [memo[h] EXCEPT !.completed = c]
      BY <1>3, <2>3
    <2> QED
      BY <2>1, <2>2, <2>4 DEF Memo
  <1>17. record'[h] = [t \in Task |-> record[Owner(h, t)][t]]
    BY <1>3, <1>5
  <1>18. \A i \in 1..(Len(stack[h]) - 1) : stack'[h][i] = stack[h][i]
    BY <1>7, <1>12
  <1> QED
    BY <1>3, <1>7, <1>9, <1>10, <1>11, <1>12, <1>13, <1>14, <1>15, <1>16, <1>17, <1>18 DEF JoinMoves

-----------------------------------------------------------------------------
(* The steps of a thread, but for Fork and Join *)

Plain(h) ==
  \/ TaskStep(h)
  \/ GroupPrerequisite(h) \/ GroupPrerequisiteReturns(h) \/ StartGroup(h)
  \/ SerialTask(h) \/ SerialTaskReturns(h) \/ EndSerial(h) \/ EndFork(h)

LEMMA StepKinds ==
  ASSUME NEW h
  PROVE  ThreadStep(h) <=> Plain(h) \/ Fork(h) \/ Join(h)
  BY Zenon DEF ThreadStep, GroupStep, Plain

\* The stack of h.
Moves(h) ==
  \/ \E f \in Frame : Goes(h, f) /\ Shaped(f)
  \/ \E f \in Frame, g \in Frame : Pushes(h, f, g) /\ Shaped(f) /\ Shaped(g)
  \/ \E r \in Result : Pops(h, r)

\* The memo and the records of h, and the history.
Quiet == UNCHANGED <<memo, record, disk, plan, source, runs, history>>
Changes(h) ==
  /\ UNCHANGED <<disk, plan, source, runs>>
  /\ \/ UNCHANGED memo
     \/ \E t \in Task : MarkRunning(h, t)
     \/ \E t \in Task, code \in Code : Complete(h, t, code)
  /\ \/ UNCHANGED record
     \/ \E t \in Sources : record' = [record EXCEPT ![h][t] = source[t]]
  /\ starts' = starts \/ \E t \in Task : starts' = [starts EXCEPT ![t] = @ + 1]
  /\ posts' = posts \/ \E t \in Task : posts' = [posts EXCEPT ![t] = @ + 1]
  /\ fine' = fine \/ \E t \in Task : fine' = fine \cup {t}
  /\ bad' = bad \/ \E t \in Task : bad' = bad \cup {t}
  /\ good' = good \/ \E t \in Task : good' = [good EXCEPT ![t] = @ \cup {source[t]}]
  /\ kept' = kept \/ \E t \in Task : kept' = [kept EXCEPT ![t] = source[t]]

LEMMA QuietChanges ==
  ASSUME NEW h, Quiet
  PROVE  Changes(h)
  BY DEF Quiet, Changes, history

LEMMA FailsChanges ==
  ASSUME NEW t \in Task, NEW code, Fails(t, code)
  PROVE  bad' = bad \/ \E u \in Task : bad' = bad \cup {u}
  BY DEF Fails

LEMMA TakeDoes ==
  ASSUME TypeOK, Shape, NEW h \in Alive, NEW t \in Task, TakeStep(h, t)
  PROVE  stack[h] # <<>> /\ Top(h).phase = "next" /\ ret[h] = None /\ Moves(h) /\ Changes(h)
  <1>0. ASSUME Takes(h, t)
        PROVE  stack[h] # <<>> /\ Top(h).phase = "next" /\ ret[h] = None
               /\ Top(h).todo # <<>> /\ Ready(h, "next")
    BY <1>0, TakesFacts DEF Takes
  <1>1. CASE ReferenceCycle(h, t)
    <2>1. Takes(h, t) /\ Return(h, "cycle") /\ Quiet /\ "cycle" \in Result
      BY <1>1 DEF ReferenceCycle, Quiet, Result, Err
    <2>2. Pops(h, "cycle")
      BY <1>0, <2>1, LeavePops
    <2> QED
      BY <1>0, <2>1, <2>2, QuietChanges DEF Moves
  <1>2. CASE ReturnCompleted(h, t)
    <2>1. /\ Takes(h, t) /\ Return(h, "failed") /\ "failed" \in Result /\ MarkRunning(h, t)
          /\ UNCHANGED <<record, disk, plan, source, runs, history>>
      BY <1>2 DEF ReturnCompleted, Result, Code
    <2>2. Pops(h, "failed")
      BY <1>0, <2>1, LeavePops
    <2>3. Changes(h)
      BY <2>1 DEF Changes, history
    <2> QED
      BY <1>0, <2>1, <2>2, <2>3 DEF Moves
  <1>3. CASE SkipFresh(h, t)
    <2>1. /\ Takes(h, t) /\ Continue(h, Passed(Top(h))) /\ Complete(h, t, "ok") /\ fine' = fine \cup {t}
          /\ "ok" \in Code /\ kept' = [kept EXCEPT ![t] = source[t]]
          /\ UNCHANGED <<record, disk, plan, source, runs, starts, posts, bad, good>>
      BY <1>3 DEF SkipFresh, Decides, Passed, Code
    <2>2. Goes(h, Passed(Top(h))) /\ Passed(Top(h)) \in Frame /\ Shaped(Passed(Top(h)))
      BY <1>0, <2>1, SkipGoes
    <2>3. Changes(h)
      BY <2>1 DEF Changes
    <2> QED
      BY <1>0, <2>1, <2>2, <2>3 DEF Moves
  <1>4. CASE DecideFails(h, t)
    <2>1. /\ Takes(h, t) /\ Return(h, "error") /\ "error" \in Result /\ MarkRunning(h, t)
          /\ bad' = bad \cup {t}
          /\ UNCHANGED <<record, disk, plan, source, runs, starts, posts, fine, good, kept>>
      BY <1>4 DEF DecideFails, Decides, Result, Err
    <2>2. Pops(h, "error")
      BY <1>0, <2>1, LeavePops
    <2>3. Changes(h)
      BY <2>1 DEF Changes
    <2> QED
      BY <1>0, <2>1, <2>2, <2>3 DEF Moves
  <1>5. CASE StartBody(h, t)
    <2>1. /\ Takes(h, t) /\ MarkRunning(h, t)
          /\ starts' = [starts EXCEPT ![t] = @ + 1]
          /\ UNCHANGED <<record, disk, plan, source, runs, posts, fine, bad, good, kept>>
      BY <1>5 DEF StartBody, Decides
    <2>2. LET f == Started(Top(h), t) IN Goes(h, f) /\ f \in Frame /\ Shaped(f)
      BY <1>5, StartBodyGoes
    <2>3. Changes(h)
      BY <2>1 DEF Changes
    <2> QED
      BY <1>0, <2>1, <2>2, <2>3 DEF Moves
  <1> QED
    BY <1>1, <1>2, <1>3, <1>4, <1>5 DEF TakeStep

\* The code that counts of a command: a failure may be ignored.
LEMMA CommandCode ==
  ASSUME NEW exit \in Code \cup {"error"}, NEW ignore
  PROVE  (IF exit = "failed" /\ ignore THEN "ok" ELSE exit) \in Result
  BY DEF Result, Code, Err

LEMMA BodyCommandGoes ==
  ASSUME TypeOK, Shape, NEW h \in Alive, BodyCommand(h)
  PROVE  /\ stack[h] # <<>> /\ Top(h).phase = "body" /\ ret[h] = None
         /\ UNCHANGED <<memo, record, disk, plan, source, runs, starts, posts, fine, good, kept>>
         /\ \E code \in Result : LET g == AfterStep(Top(h), code) IN
              /\ Fails(Top(h).task, code)
              /\ Goes(h, g) /\ g \in Frame /\ Shaped(g) /\ g.task = Top(h).task /\ g.code = code /\ g.post = "ok"
              /\ g.todo = Top(h).todo /\ g.names = Top(h).names
              /\ \/ g.phase = "body" /\ code = "ok"
                 \/ g.phase = "post" /\ g.at = 1
  <1>1. stack[h] # <<>> /\ Top(h).phase = "body" /\ ret[h] = None
    BY DEF BodyCommand, Ready, At
  <1>2. PICK exit \in Code \cup {"error"} :
          LET step == Body[Top(h).task][Top(h).at]
              code == IF exit = "failed" /\ step.ignore THEN "ok" ELSE exit IN
          Continue(h, AfterStep(Top(h), code)) /\ Fails(Top(h).task, code)
    BY DEF BodyCommand
  <1>3. PICK code \in Result : Continue(h, AfterStep(Top(h), code)) /\ Fails(Top(h).task, code)
    BY <1>2, CommandCode
  <1>4. UNCHANGED <<memo, record, disk, plan, source, runs, starts, posts, fine, good, kept>>
    BY DEF BodyCommand
  <1> QED
    BY <1>1, <1>3, <1>4, BodyGoes

LEMMA BodyGroupReturnsGoes ==
  ASSUME TypeOK, Shape, NEW h \in Alive, BodyGroupReturns(h)
  PROVE  /\ stack[h] # <<>> /\ Top(h).phase = "body" /\ ret[h] \in Result
         /\ UNCHANGED <<memo, record, disk, plan, source, runs, starts, posts, fine, good, kept>>
         /\ Fails(Top(h).task, ret[h])
         /\ LET g == AfterStep(Top(h), ret[h]) IN
              /\ Goes(h, g) /\ g \in Frame /\ Shaped(g) /\ g.task = Top(h).task /\ g.code = ret[h] /\ g.post = "ok"
              /\ g.todo = Top(h).todo /\ g.names = Top(h).names
              /\ \/ g.phase = "body" /\ ret[h] = "ok"
                 \/ g.phase = "post" /\ g.at = 1
  <1>1. /\ stack[h] # <<>> /\ Top(h).phase = "body" /\ ret[h] # None
        /\ Continue(h, AfterStep(Top(h), ret[h])) /\ Fails(Top(h).task, ret[h])
        /\ UNCHANGED <<memo, record, disk, plan, source, runs, starts, posts, fine, good, kept>>
    BY DEF BodyGroupReturns, Returned, At
  <1>2. ret[h] \in Result
    BY <1>1, TopFacts, StackFacts
  <1> QED
    BY <1>1, <1>2, BodyGoes

LEMMA BodyGroupPushes ==
  ASSUME TypeOK, Shape, NEW h \in Alive, BodyGroup(h)
  PROVE  /\ stack[h] # <<>> /\ Top(h).phase = "body" /\ ret[h] = None /\ Quiet
         /\ \E s \in Seq(Task) : LET g == GroupFrame(Top(h).order, s) IN
              /\ \E k \in 1..Len(Body[Top(h).task]) : s = Body[Top(h).task][k].tasks /\ IsGroup(Body[Top(h).task][k])
              /\ Pushes(h, Top(h), g) /\ g \in Frame /\ Shaped(g) /\ g.phase = "deps" /\ g.task = None
              /\ ToSet(g.names) \subseteq ToSet(s) /\ ToSet(g.todo) \subseteq PrereqsOf(g)
  <1> DEFINE steps == Body[Top(h).task]
             k == Top(h).at
  <1>1. /\ stack[h] # <<>> /\ Top(h).phase = "body" /\ ret[h] = None /\ Quiet
        /\ k <= Len(steps) /\ IsGroup(steps[k])
        /\ Call(h, Top(h), GroupFrame(Top(h).order, steps[k].tasks))
    BY DEF BodyGroup, Ready, At, Quiet
  <1>2. steps \in Seq(Step) /\ Len(steps) \in Nat /\ k \in Nat \ {0}
    BY <1>1, WorkFacts, TopFacts
  <1>3. k \in 1..Len(steps)
    BY <1>1, <1>2
  <1>4. PICK s \in Seq(Task) : s = steps[k].tasks
    BY <1>1, <1>2, StepFacts
  <1>5. Call(h, Top(h), GroupFrame(Top(h).order, s))
    BY <1>1, <1>4
  <1>6. LET g == GroupFrame(Top(h).order, s) IN
        /\ Pushes(h, Top(h), g) /\ g \in Frame /\ Shaped(g) /\ g.phase = "deps" /\ g.task = None
        /\ ToSet(g.names) \subseteq ToSet(s) /\ ToSet(g.todo) \subseteq PrereqsOf(g)
    BY <1>1, <1>5, GroupPushes
  <1>7. \E j \in 1..Len(steps) : s = steps[j].tasks /\ IsGroup(steps[j])
    BY <1>1, <1>3, <1>4
  <1> QED
    BY <1>1, <1>6, <1>7

LEMMA PostGroupPushes ==
  ASSUME TypeOK, Shape, NEW h \in Alive, PostGroup(h)
  PROVE  /\ stack[h] # <<>> /\ Top(h).phase = "post" /\ ret[h] = None
         /\ posts' = [posts EXCEPT ![Top(h).task] = @ + 1]
         /\ UNCHANGED <<memo, record, disk, plan, source, runs, starts, fine, bad, good, kept>>
         /\ \E s \in Seq(Task) : LET g == GroupFrame(Top(h).order, s) IN
              /\ \E k \in 1..Len(Post[Top(h).task]) : s = Post[Top(h).task][k].tasks /\ IsGroup(Post[Top(h).task][k])
              /\ Pushes(h, Top(h), g) /\ g \in Frame /\ Shaped(g) /\ g.phase = "deps" /\ g.task = None
              /\ ToSet(g.names) \subseteq ToSet(s) /\ ToSet(g.todo) \subseteq PrereqsOf(g)
  <1> DEFINE steps == Post[Top(h).task]
             k == Top(h).at
  <1>1. /\ stack[h] # <<>> /\ Top(h).phase = "post" /\ ret[h] = None
        /\ k <= Len(steps) /\ IsGroup(steps[k])
        /\ posts' = [posts EXCEPT ![Top(h).task] = @ + 1]
        /\ UNCHANGED <<memo, record, disk, plan, source, runs, starts, fine, bad, good, kept>>
        /\ Call(h, Top(h), GroupFrame(Top(h).order, steps[k].tasks))
    BY DEF PostGroup, Ready, At
  <1>2. steps \in Seq(Step) /\ Len(steps) \in Nat /\ k \in Nat \ {0}
    BY <1>1, WorkFacts, TopFacts
  <1>3. k \in 1..Len(steps)
    BY <1>1, <1>2
  <1>4. PICK s \in Seq(Task) : s = steps[k].tasks
    BY <1>1, <1>2, StepFacts
  <1>5. Call(h, Top(h), GroupFrame(Top(h).order, s))
    BY <1>1, <1>4
  <1>6. LET g == GroupFrame(Top(h).order, s) IN
        /\ Pushes(h, Top(h), g) /\ g \in Frame /\ Shaped(g) /\ g.phase = "deps" /\ g.task = None
        /\ ToSet(g.names) \subseteq ToSet(s) /\ ToSet(g.todo) \subseteq PrereqsOf(g)
    BY <1>1, <1>5, GroupPushes
  <1>7. \E j \in 1..Len(steps) : s = steps[j].tasks /\ IsGroup(steps[j])
    BY <1>1, <1>3, <1>4
  <1> QED
    BY <1>1, <1>6, <1>7

\* A teardown step has its result, of a command or a group.
Tore(h, result) ==
  \/ result \in Err /\ \E r \in Err : Pops(h, r)
  \/ /\ result \in Code
     /\ LET g == [Top(h) EXCEPT !.at = @ + 1, !.post = FirstFailure(@, result)] IN
        /\ Goes(h, g) /\ g \in Frame /\ Shaped(g) /\ g.phase = "post" /\ g.task = Top(h).task
        /\ g.code = Top(h).code /\ g.post = FirstFailure(Top(h).post, result)
        /\ g.at = Top(h).at + 1 /\ g.at # 1
        /\ g.todo = Top(h).todo /\ g.names = Top(h).names

LEMMA PostCommandMoves ==
  ASSUME TypeOK, Shape, NEW h \in Alive, PostCommand(h)
  PROVE  /\ stack[h] # <<>> /\ Top(h).phase = "post" /\ ret[h] = None
         /\ posts' = [posts EXCEPT ![Top(h).task] = @ + 1]
         /\ UNCHANGED <<memo, record, disk, plan, source, runs, starts, fine, good, kept>>
         /\ \E code \in Result : Fails(Top(h).task, code) /\ Tore(h, code)
  <1>1. /\ stack[h] # <<>> /\ Top(h).phase = "post" /\ ret[h] = None
        /\ posts' = [posts EXCEPT ![Top(h).task] = @ + 1]
        /\ UNCHANGED <<memo, record, disk, plan, source, runs, starts, fine, good, kept>>
    BY DEF PostCommand, Ready, At
  <1>2. PICK exit \in Code \cup {"error"} :
          LET step == Post[Top(h).task][Top(h).at]
              code == IF exit = "failed" /\ step.ignore THEN "ok" ELSE exit IN
          AfterPost(h, Top(h), code) /\ Fails(Top(h).task, code)
    BY DEF PostCommand
  <1>3. PICK code \in Result : AfterPost(h, Top(h), code) /\ Fails(Top(h).task, code)
    BY <1>2, CommandCode
  <1>4. Tore(h, code)
    BY <1>1, <1>3, PostMoves DEF Tore
  <1> QED
    BY <1>1, <1>3, <1>4

LEMMA PostGroupReturnsMoves ==
  ASSUME TypeOK, Shape, NEW h \in Alive, PostGroupReturns(h)
  PROVE  /\ stack[h] # <<>> /\ Top(h).phase = "post" /\ ret[h] \in Result
         /\ UNCHANGED <<memo, record, disk, plan, source, runs, starts, posts, fine, good, kept>>
         /\ Fails(Top(h).task, ret[h]) /\ Tore(h, ret[h])
  <1>1. /\ stack[h] # <<>> /\ Top(h).phase = "post" /\ ret[h] # None
        /\ AfterPost(h, Top(h), ret[h]) /\ Fails(Top(h).task, ret[h])
        /\ UNCHANGED <<memo, record, disk, plan, source, runs, starts, posts, fine, good, kept>>
    BY DEF PostGroupReturns, Returned, At
  <1>2. ret[h] \in Result
    BY <1>1, TopFacts, StackFacts
  <1> QED
    BY <1>1, <1>2, PostMoves DEF Tore

LEMMA ToreMoves ==
  ASSUME NEW h \in Alive, NEW result, Tore(h, result)
  PROVE  Moves(h)
  BY DEF Tore, Moves, Result

LEMMA ResultKinds == Code \subseteq Result /\ Err \subseteq Result /\ "ok" \in Code /\ "failed" \in Code
  BY DEF Result, Code

\* What a Plain step does that returns without more.
Quits(h, r) == /\ stack[h] # <<>> /\ Top(h).phase # "join" /\ r \in Result /\ Pops(h, r)

LEMMA EndsQuit ==
  ASSUME TypeOK, Shape, NEW h \in Alive
  PROVE  /\ EndOfList(h) => Quits(h, "ok") /\ Quiet /\ Top(h).phase = "next" /\ Top(h).todo = <<>>
         /\ EndWithError(h) => /\ Quits(h, Top(h).code) /\ Quiet /\ Top(h).phase = "post" /\ Top(h).code \in Err
         /\ EndSerial(h) => Quits(h, Top(h).code) /\ Quiet /\ Top(h).phase = "serial" /\ Top(h).todo = <<>>
         /\ EndFork(h) => Quits(h, Top(h).code) /\ Quiet /\ Top(h).phase = "fork" /\ Top(h).at > Len(Top(h).names)
  <1>1. ASSUME NEW r \in Result, NEW p, At(h, p), p # "join", Return(h, r) PROVE Quits(h, r) /\ Top(h).phase = p
    <2>1. stack[h] # <<>> /\ Top(h).phase = p
      BY <1>1 DEF At
    <2> QED
      BY <1>1, <2>1, LeavePops DEF Quits
  <1>2. ASSUME NEW p, At(h, p) PROVE Top(h).code \in Result
    BY <1>2, TopFacts DEF At
  <1>3. ASSUME EndOfList(h) PROVE Quits(h, "ok") /\ Quiet /\ Top(h).phase = "next" /\ Top(h).todo = <<>>
    BY <1>1, <1>3, ResultKinds DEF EndOfList, Quiet, Ready
  <1>4. ASSUME EndWithError(h)
        PROVE  Quits(h, Top(h).code) /\ Quiet /\ Top(h).phase = "post" /\ Top(h).code \in Err
    BY <1>1, <1>2, <1>4 DEF EndWithError, TeardownDone, Quiet, Ready
  <1>5. ASSUME EndSerial(h)
        PROVE  Quits(h, Top(h).code) /\ Quiet /\ Top(h).phase = "serial" /\ Top(h).todo = <<>>
    BY <1>1, <1>2, <1>5 DEF EndSerial, Quiet, Ready
  <1>6. ASSUME EndFork(h)
        PROVE  Quits(h, Top(h).code) /\ Quiet /\ Top(h).phase = "fork" /\ Top(h).at > Len(Top(h).names)
    BY <1>1, <1>2, <1>6 DEF EndFork, Quiet, Ready
  <1> QED
    BY <1>3, <1>4, <1>5, <1>6

LEMMA EndWithFailureQuits ==
  ASSUME TypeOK, Shape, NEW h \in Alive, EndWithFailure(h)
  PROVE  /\ Quits(h, "failed") /\ Top(h).phase = "post" /\ Top(h).task \in Task
         /\ Top(h).at > Len(Post[Top(h).task])
         /\ Top(h).code \notin Err /\ FirstFailure(Top(h).code, Top(h).post) = "failed"
         /\ Complete(h, Top(h).task, "failed")
         /\ UNCHANGED <<record, disk, plan, source, runs, history>>
  <1>1. /\ stack[h] # <<>> /\ Top(h).phase = "post" /\ Top(h).at > Len(Post[Top(h).task])
        /\ Top(h).code \notin Err /\ FirstFailure(Top(h).code, Top(h).post) = "failed"
        /\ Complete(h, Top(h).task, "failed") /\ Return(h, "failed")
        /\ UNCHANGED <<record, disk, plan, source, runs, history>>
    BY DEF EndWithFailure, TeardownDone, Ready, At
  <1>2. Pops(h, "failed") /\ Top(h).task \in Task
    BY <1>1, LeavePops, WorkFacts, ResultKinds
  <1> QED
    BY <1>1, <1>2, ResultKinds DEF Quits

LEMMA RecordFailsQuits ==
  ASSUME TypeOK, Shape, NEW h \in Alive, RecordFails(h)
  PROVE  /\ Quits(h, "error") /\ Top(h).phase = "post" /\ Top(h).task \in Task
         /\ Top(h).at > Len(Post[Top(h).task]) /\ bad' = bad \cup {Top(h).task}
         /\ UNCHANGED <<memo, record, disk, plan, source, runs, starts, posts, fine, good, kept>>
  <1>1. /\ stack[h] # <<>> /\ Top(h).phase = "post" /\ Top(h).at > Len(Post[Top(h).task])
        /\ Return(h, "error") /\ bad' = bad \cup {Top(h).task}
        /\ UNCHANGED <<memo, record, disk, plan, source, runs, starts, posts, fine, good, kept>>
    BY DEF RecordFails, TeardownDone, Ready, At
  <1>2. "error" \in Result
    BY DEF Result, Err
  <1>3. Pops(h, "error") /\ Top(h).task \in Task
    BY <1>1, <1>2, LeavePops, WorkFacts
  <1> QED
    BY <1>1, <1>2, <1>3 DEF Quits

\* A step of h's innermost frame that is not "join".
Steps(h) == stack[h] # <<>> /\ Top(h).phase # "join" /\ Moves(h) /\ Changes(h)

LEMMA QuitsMoves ==
  ASSUME NEW h, NEW r, Quits(h, r)
  PROVE  stack[h] # <<>> /\ Top(h).phase # "join" /\ Moves(h)
  BY DEF Quits, Moves

LEMMA WorkerTask ==
  ASSUME TypeOK, Shape, NEW h \in Alive, stack[h] # <<>>, Top(h).phase \in {"body", "post"}
  PROVE  Top(h).task \in Task
  BY WorkFacts

LEMMA SkipCompletedGoes ==
  ASSUME TypeOK, Shape, NEW h \in Alive, SkipCompleted(h)
  PROVE  /\ stack[h] # <<>> /\ Top(h).phase = "next" /\ ret[h] = None /\ Top(h).todo # <<>>
         /\ Completed(h, Head(Top(h).todo)) = "ok" /\ Quiet
         /\ Goes(h, Passed(Top(h))) /\ Passed(Top(h)) \in Frame /\ Shaped(Passed(Top(h)))
  <1>1. /\ Ready(h, "next") /\ Top(h).todo # <<>> /\ Completed(h, Head(Top(h).todo)) = "ok"
        /\ Quiet /\ Continue(h, Passed(Top(h)))
    BY DEF SkipCompleted, Passed, Quiet
  <1> QED
    BY <1>1, SkipGoes DEF Ready, At

LEMMA TaskStepDoes ==
  ASSUME TypeOK, Shape, NEW h \in Alive, TaskStep(h)
  PROVE  Steps(h)
  <1>1. ASSUME EndOfList(h) \/ EndWithError(h) PROVE Steps(h)
    BY <1>1, EndsQuit, QuitsMoves, QuietChanges DEF Steps
  <1>2. ASSUME SkipCompleted(h) PROVE Steps(h)
    BY <1>2, SkipCompletedGoes, QuietChanges DEF Steps, Moves
  <1>3. ASSUME NEW t \in Task, TakeStep(h, t) PROVE Steps(h)
    BY <1>3, TakeDoes DEF Steps
  <1>4. ASSUME BodyCommand(h) PROVE Steps(h)
    <2>1. /\ stack[h] # <<>> /\ Top(h).phase = "body" /\ Moves(h)
          /\ UNCHANGED <<memo, record, disk, plan, source, runs, starts, posts, fine, good, kept>>
          /\ \E code : Fails(Top(h).task, code)
      BY <1>4, BodyCommandGoes DEF Moves
    <2> QED
      BY <2>1, WorkerTask, FailsChanges DEF Steps, Changes
  <1>5. ASSUME BodyGroup(h) PROVE Steps(h)
    <2>1. stack[h] # <<>> /\ Top(h).phase = "body" /\ Quiet
      BY <1>5, BodyGroupPushes
    <2>2. PICK g \in Frame : Pushes(h, Top(h), g) /\ Shaped(g)
      BY <1>5, BodyGroupPushes
    <2>3. Moves(h)
      BY <2>1, <2>2, TopFacts DEF Moves
    <2> QED
      BY <2>1, <2>3, QuietChanges DEF Steps
  <1>6. ASSUME BodyGroupReturns(h) PROVE Steps(h)
    <2>1. /\ stack[h] # <<>> /\ Top(h).phase = "body" /\ Moves(h)
          /\ UNCHANGED <<memo, record, disk, plan, source, runs, starts, posts, fine, good, kept>>
          /\ \E code : Fails(Top(h).task, code)
      BY <1>6, BodyGroupReturnsGoes DEF Moves
    <2> QED
      BY <2>1, WorkerTask, FailsChanges DEF Steps, Changes
  <1>7. ASSUME EndOfBody(h) PROVE Steps(h)
    <2>1. stack[h] # <<>> /\ Top(h).phase = "body" /\ Moves(h)
      BY <1>7, EndOfBodyGoes DEF Moves
    <2>2. Quiet
      BY <1>7 DEF EndOfBody, Quiet
    <2> QED
      BY <2>1, <2>2, QuietChanges DEF Steps
  <1>8. ASSUME PostCommand(h) PROVE Steps(h)
    <2>1. /\ stack[h] # <<>> /\ Top(h).phase = "post" /\ Moves(h)
          /\ posts' = [posts EXCEPT ![Top(h).task] = @ + 1]
          /\ UNCHANGED <<memo, record, disk, plan, source, runs, starts, fine, good, kept>>
          /\ \E code : Fails(Top(h).task, code)
      BY <1>8, PostCommandMoves, ToreMoves
    <2> QED
      BY <2>1, WorkerTask, FailsChanges DEF Steps, Changes
  <1>9. ASSUME PostGroup(h) PROVE Steps(h)
    <2>1. /\ stack[h] # <<>> /\ Top(h).phase = "post"
          /\ posts' = [posts EXCEPT ![Top(h).task] = @ + 1]
          /\ UNCHANGED <<memo, record, disk, plan, source, runs, starts, fine, bad, good, kept>>
      BY <1>9, PostGroupPushes
    <2>2. PICK g \in Frame : Pushes(h, Top(h), g) /\ Shaped(g)
      BY <1>9, PostGroupPushes
    <2>3. Moves(h)
      BY <2>1, <2>2, TopFacts DEF Moves
    <2> QED
      BY <2>1, <2>3, WorkerTask DEF Steps, Changes
  <1>10. ASSUME PostGroupReturns(h) PROVE Steps(h)
    <2>1. /\ stack[h] # <<>> /\ Top(h).phase = "post" /\ Moves(h)
          /\ UNCHANGED <<memo, record, disk, plan, source, runs, starts, posts, fine, good, kept>>
          /\ \E code : Fails(Top(h).task, code)
      BY <1>10, PostGroupReturnsMoves, ToreMoves
    <2> QED
      BY <2>1, WorkerTask, FailsChanges DEF Steps, Changes
  <1>11. ASSUME EndWithFailure(h) PROVE Steps(h)
    <2>1. /\ Quits(h, "failed") /\ Top(h).task \in Task /\ Complete(h, Top(h).task, "failed")
          /\ UNCHANGED <<record, disk, plan, source, runs, history>>
      BY <1>11, EndWithFailureQuits
    <2>2. Changes(h)
      BY <2>1, ResultKinds DEF Changes, history
    <2> QED
      BY <2>1, <2>2, QuitsMoves DEF Steps
  <1>12. ASSUME EndWithSuccess(h) PROVE Steps(h)
    <2>1. stack[h] # <<>> /\ Top(h).phase = "post" /\ Moves(h)
      BY <1>12, EndWithSuccessGoes DEF Moves
    <2>2. PICK t \in Task : t = Top(h).task
      BY <2>1, WorkerTask
    <2>3. /\ record' = IF t \in Sources THEN [record EXCEPT ![h][t] = source[t]] ELSE record
          /\ Complete(h, t, "ok") /\ fine' = fine \cup {t} /\ good' = [good EXCEPT ![t] = @ \cup {source[t]}]
          /\ kept' = [kept EXCEPT ![t] = source[t]] /\ UNCHANGED <<disk, plan, source, runs, starts, posts, bad>>
      BY <1>12, <2>2 DEF EndWithSuccess
    <2>4. Changes(h)
      BY <2>3, ResultKinds DEF Changes
    <2> QED
      BY <2>1, <2>4 DEF Steps
  <1>13. ASSUME RecordFails(h) PROVE Steps(h)
    <2>1. /\ Quits(h, "error") /\ Top(h).task \in Task /\ bad' = bad \cup {Top(h).task}
          /\ UNCHANGED <<memo, record, disk, plan, source, runs, starts, posts, fine, good, kept>>
      BY <1>13, RecordFailsQuits
    <2>2. Changes(h)
      BY <2>1 DEF Changes
    <2> QED
      BY <2>1, <2>2, QuitsMoves DEF Steps
  <1> QED
    BY <1>1, <1>2, <1>3, <1>4, <1>5, <1>6, <1>7, <1>8, <1>9, <1>10, <1>11, <1>12, <1>13 DEF TaskStep

LEMMA GroupPrerequisiteMoves ==
  ASSUME TypeOK, Shape, NEW h \in Alive, GroupPrerequisite(h)
  PROVE  LET t == Head(Top(h).todo)  g == TaskFrame(Top(h).order, t) IN
         /\ stack[h] # <<>> /\ Top(h).phase = "deps" /\ ret[h] = None /\ Quiet
         /\ Top(h).todo # <<>> /\ t \in Task
         /\ Passed(Top(h)) \in Frame /\ Shaped(Passed(Top(h)))
         /\ \/ Completed(h, t) # None /\ Goes(h, Passed(Top(h)))
            \/ /\ Completed(h, t) = None /\ Pushes(h, Passed(Top(h)), g)
               /\ g \in Frame /\ Shaped(g) /\ g.phase = "next" /\ g.task = None
               /\ g.todo = Append(Prereqs[t], t) /\ g.names = <<>>
  <1>1. /\ stack[h] # <<>> /\ Top(h).phase = "deps" /\ ret[h] = None /\ Quiet /\ Top(h).todo # <<>>
        /\ IF Completed(h, Head(Top(h).todo)) # None THEN Continue(h, Passed(Top(h)))
             ELSE Call(h, Passed(Top(h)), TaskFrame(Top(h).order, Head(Top(h).todo)))
    BY DEF GroupPrerequisite, Ready, At, Quiet, Passed
  <1>2. Top(h) \in Frame /\ Shaped(Top(h))
    BY <1>1, TopFacts
  <1>3. Passed(Top(h)) \in Frame /\ Shaped(Passed(Top(h))) /\ Head(Top(h).todo) \in Task
    BY <1>1, <1>2, PassedTypes
  <1>4. CASE Completed(h, Head(Top(h).todo)) # None
    BY <1>1, <1>3, <1>4, NextTaskGoes
  <1>5. CASE Completed(h, Head(Top(h).todo)) = None
    BY <1>1, <1>3, <1>5, NextTaskPushes
  <1> QED
    BY <1>4, <1>5

LEMMA SerialTaskMoves ==
  ASSUME TypeOK, Shape, NEW h \in Alive, SerialTask(h)
  PROVE  LET t == Head(Top(h).todo)  c == TaskFrame(Top(h).order, t)
             g == Noted(Passed(Top(h)), Completed(h, t)) IN
         /\ stack[h] # <<>> /\ Top(h).phase = "serial" /\ ret[h] = None /\ Quiet
         /\ Top(h).todo # <<>> /\ t \in Task
         /\ \/ /\ Completed(h, t) \in Code
               /\ Goes(h, g) /\ g \in Frame /\ Shaped(g) /\ g.todo = Tail(Top(h).todo) /\ g.names = Top(h).names
               /\ g.code = FirstFailure(Top(h).code, Completed(h, t)) /\ g.phase = "serial"
               /\ g.task = Top(h).task /\ g.post = Top(h).post
            \/ /\ Completed(h, t) = None /\ Pushes(h, Passed(Top(h)), c)
               /\ Passed(Top(h)) \in Frame /\ Shaped(Passed(Top(h)))
               /\ c \in Frame /\ Shaped(c) /\ c.phase = "next" /\ c.task = None
               /\ c.todo = Append(Prereqs[t], t) /\ c.names = <<>>
  <1> DEFINE t == Head(Top(h).todo)
  <1>1. /\ stack[h] # <<>> /\ Top(h).phase = "serial" /\ ret[h] = None /\ Quiet /\ Top(h).todo # <<>>
        /\ IF Completed(h, t) # None
             THEN Continue(h, [Passed(Top(h)) EXCEPT !.code = FirstFailure(@, Completed(h, t))])
             ELSE Call(h, Passed(Top(h)), TaskFrame(Top(h).order, t))
    BY DEF SerialTask, Ready, At, Quiet, Passed
  <1>2. Top(h) \in Frame /\ Shaped(Top(h))
    BY <1>1, TopFacts
  <1>3. Passed(Top(h)) \in Frame /\ Shaped(Passed(Top(h))) /\ t \in Task
    BY <1>1, <1>2, PassedTypes
  <1>4. CASE Completed(h, t) # None
    <2>1. Completed(h, t) \in Code /\ Completed(h, t) \in Result
      BY <1>3, <1>4, CompletedTypes, ResultKinds
    <2>2. PICK c \in Code : c = Completed(h, t)
      BY <2>1
    <2>3. Continue(h, [Passed(Top(h)) EXCEPT !.code = FirstFailure(@, c)]) /\ c \in Result
      BY <1>1, <1>4, <2>2, ResultKinds
    <2> QED
      BY <1>1, <1>3, <2>2, <2>3, SerialGoes
  <1>5. CASE Completed(h, t) = None
    BY <1>1, <1>3, <1>5, NextTaskPushes
  <1> QED
    BY <1>4, <1>5

LEMMA PlainDoes ==
  ASSUME TypeOK, Shape, NEW h \in Alive, Plain(h)
  PROVE  Steps(h)
  <1>1. ASSUME GroupPrerequisite(h) PROVE Steps(h)
    BY <1>1, GroupPrerequisiteMoves, QuietChanges DEF Steps, Moves
  <1>2. ASSUME GroupPrerequisiteReturns(h) PROVE Steps(h)
    <2>1. Quiet
      BY <1>2 DEF GroupPrerequisiteReturns, Quiet
    <2> QED
      BY <1>2, <2>1, GroupPrerequisiteReturnsMoves, QuietChanges DEF Steps, Moves
  <1>3. ASSUME StartGroup(h) PROVE Steps(h)
    <2>1. Quiet
      BY <1>3 DEF StartGroup, Quiet
    <2>2. stack[h] # <<>> /\ Top(h).phase = "deps" /\ \E g \in Frame : Goes(h, g) /\ Shaped(g)
      BY <1>3, StartGroupGoes
    <2> QED
      BY <2>1, <2>2, QuietChanges DEF Steps, Moves
  <1>4. ASSUME SerialTask(h) PROVE Steps(h)
    BY <1>4, SerialTaskMoves, QuietChanges DEF Steps, Moves
  <1>5. ASSUME SerialTaskReturns(h) PROVE Steps(h)
    <2>1. Quiet
      BY <1>5 DEF SerialTaskReturns, Quiet
    <2>2. /\ stack[h] # <<>> /\ Top(h).phase = "serial" /\ ret[h] \in Result
          /\ Pops(h, ret[h]) \/ \E g \in Frame : Goes(h, g) /\ Shaped(g)
      BY <1>5, SerialTaskReturnsMoves
    <2> QED
      BY <2>1, <2>2, QuietChanges DEF Steps, Moves
  <1>6. ASSUME EndSerial(h) \/ EndFork(h) PROVE Steps(h)
    BY <1>6, EndsQuit, QuitsMoves, QuietChanges DEF Steps
  <1> QED
    BY <1>1, <1>2, <1>3, <1>4, <1>5, <1>6, TaskStepDoes DEF Plain

-----------------------------------------------------------------------------
(* The invariant of the threads *)

Threads == TypeOK /\ Shape /\ Tree

LEMMA ChangesTypes ==
  ASSUME TypeOK, NEW h \in Alive, Alive' = Alive, Changes(h)
  PROVE  /\ memo' \in [Alive -> Memo] /\ record' \in [Alive -> Records]
         /\ \A g \in Alive \ {h} : memo'[g] = memo[g] /\ record'[g] = record[g]
         /\ starts' \in [Task -> Nat] /\ posts' \in [Task -> Nat] /\ fine' \subseteq Task /\ bad' \subseteq Task
         /\ good' \in [Task -> SUBSET Version] /\ kept' \in [Task -> Version]
         /\ UNCHANGED <<disk, plan, source, runs>>
  <1>1. memo \in [Alive -> Memo] /\ record \in [Alive -> Records] /\ source \in [Task -> Version]
    BY DEF TypeOK
  <1>2. memo' \in [Alive -> Memo] /\ \A g \in Alive \ {h} : memo'[g] = memo[g]
    <2>1. CASE memo' = memo
      BY <1>1, <2>1
    <2>2. ASSUME NEW t \in Task, MarkRunning(h, t)
          PROVE  memo' \in [Alive -> Memo] /\ \A g \in Alive \ {h} : memo'[g] = memo[g]
      <3>1. [memo[h] EXCEPT !.running = @ \cup {t}] \in Memo
        BY <1>1 DEF Memo
      <3>2. memo' = [memo EXCEPT ![h] = [memo[h] EXCEPT !.running = @ \cup {t}]]
        BY <1>1, <2>2 DEF MarkRunning
      <3> QED
        BY <1>1, <3>1, <3>2
    <2>3. ASSUME NEW t \in Task, NEW code \in Code, Complete(h, t, code)
          PROVE  memo' \in [Alive -> Memo] /\ \A g \in Alive \ {h} : memo'[g] = memo[g]
      <3>1. [completed |-> [memo[h].completed EXCEPT ![t] = code], running |-> memo[h].running \ {t}] \in Memo
        BY <1>1 DEF Memo
      <3>2. memo' = [memo EXCEPT ![h] = [completed |-> [memo[h].completed EXCEPT ![t] = code],
                                         running |-> memo[h].running \ {t}]]
        BY <2>3, Zenon DEF Complete
      <3> QED
        BY <1>1, <3>1, <3>2
    <2> QED
      BY <2>1, <2>2, <2>3 DEF Changes
  <1>3. record' \in [Alive -> Records] /\ \A g \in Alive \ {h} : record'[g] = record[g]
    <2>1. CASE record' = record
      BY <1>1, <2>1
    <2>2. ASSUME NEW t \in Sources, record' = [record EXCEPT ![h][t] = source[t]]
          PROVE  record' \in [Alive -> Records] /\ \A g \in Alive \ {h} : record'[g] = record[g]
      <3>1. t \in Task
        BY ConstantsAssumption
      <3>2. [record[h] EXCEPT ![t] = source[t]] \in Records
        BY <1>1, <3>1 DEF Records
      <3>3. record' = [record EXCEPT ![h] = [record[h] EXCEPT ![t] = source[t]]]
        BY <1>1, <2>2
      <3> QED
        BY <1>1, <3>2, <3>3
    <2> QED
      BY <2>1, <2>2 DEF Changes
  <1>4. starts' \in [Task -> Nat]
    <2>1. starts \in [Task -> Nat]
      BY DEF TypeOK
    <2>2. ASSUME NEW t \in Task, starts' = [starts EXCEPT ![t] = @ + 1] PROVE starts' \in [Task -> Nat]
      BY <2>1, <2>2
    <2> QED
      BY <2>1, <2>2 DEF Changes
  <1>5. posts' \in [Task -> Nat]
    <2>1. posts \in [Task -> Nat]
      BY DEF TypeOK
    <2>2. ASSUME NEW t \in Task, posts' = [posts EXCEPT ![t] = @ + 1] PROVE posts' \in [Task -> Nat]
      BY <2>1, <2>2
    <2> QED
      BY <2>1, <2>2 DEF Changes
  <1>6. fine' \subseteq Task /\ bad' \subseteq Task
    BY DEF TypeOK, Changes
  <1>7. good' \in [Task -> SUBSET Version]
    <2>1. good \in [Task -> SUBSET Version] /\ source \in [Task -> Version]
      BY DEF TypeOK
    <2>2. ASSUME NEW t \in Task, good' = [good EXCEPT ![t] = @ \cup {source[t]}]
          PROVE  good' \in [Task -> SUBSET Version]
      <3>1. good[t] \cup {source[t]} \in SUBSET Version
        BY <2>1
      <3> QED
        BY <2>1, <2>2, <3>1
    <2> QED
      BY <2>1, <2>2 DEF Changes
  <1>8. kept' \in [Task -> Version]
    <2>1. kept \in [Task -> Version]
      BY DEF TypeOK
    <2>2. ASSUME NEW t \in Task, kept' = [kept EXCEPT ![t] = source[t]]
          PROVE  kept' \in [Task -> Version]
      BY <1>1, <2>1, <2>2
    <2> QED
      BY <2>1, <2>2 DEF Changes
  <1> QED
    BY <1>2, <1>3, <1>4, <1>5, <1>6, <1>7, <1>8 DEF Changes

LEMMA MovesKeeps ==
  ASSUME NEW h \in Alive, Moves(h)
  PROVE  Keeps(h)
  BY DEF Moves, Goes, Pushes, Pops

\* Shaped is about a frame alone while the plan stays.
LEMMA ShapedKept ==
  ASSUME UNCHANGED plan, NEW f
  PROVE  Shaped(f)' <=> Shaped(f)
  BY DEF Shaped, PrereqsOf, Prereqs

LEMMA MovesShape ==
  ASSUME Shape, NEW h \in Alive, stack[h] # <<>>, Stacks, Moves(h), UNCHANGED plan
  PROVE  Shape'
  <1>1. Alive' = Alive /\ \A g \in Alive \ {h} : Frames(g)' = Frames(g)
    BY MovesKeeps DEF Keeps
  <1>2. Outer(h) \subseteq Frames(h)
    BY StackFacts
  <1>3. \A x \in Frames(h)' : Shaped(x)
    <2>1. ASSUME NEW f, Goes(h, f), Shaped(f) PROVE \A g \in Frames(h)' : Shaped(g)
      BY <1>2, <2>1 DEF Goes, Shape
    <2>2. ASSUME NEW f, NEW g, Pushes(h, f, g), Shaped(f), Shaped(g) PROVE \A x \in Frames(h)' : Shaped(x)
      BY <1>2, <2>2 DEF Pushes, Shape
    <2>3. ASSUME NEW r, Pops(h, r) PROVE \A x \in Frames(h)' : Shaped(x)
      BY <1>2, <2>3 DEF Pops, Shape
    <2> QED
      BY <2>1, <2>2, <2>3 DEF Moves
  <1>4. \A g \in Alive' : \A f \in Frames(g)' : Shaped(f)
    BY <1>1, <1>3 DEF Shape
  <1> QED
    BY <1>4, ShapedKept DEF Shape

LEMMA PlainTree ==
  ASSUME TypeOK, Tree, NEW h \in Alive, stack[h] # <<>>, Top(h).phase # "join", Keeps(h),
         \A g \in Alive \ {h} : memo'[g] = memo[g]
  PROVE  Tree'
  <1>1. Alive' = Alive /\ \A g \in Alive \ {h} : stack'[g] = stack[g] /\ ret'[g] = ret[g]
    BY DEF Keeps, Outside
  <1>2. (\A w \in Alive : ~Below(h, w)) /\ \A w \in Alive \ {Main} : Front(w) # h
    BY NotJoining DEF At
  <1>3. ASSUME NEW w \in Alive, NEW g \in Thread, Below(g, w)
        PROVE  g \in Alive /\ At(g, "join")' /\ ret'[g] = None
    <2>1. g \in Alive /\ At(g, "join") /\ ret[g] = None /\ g # h
      BY <1>2, <1>3 DEF Tree
    <2> QED
      BY <1>1, <2>1 DEF At, Top
  <1>4. ASSUME NEW w \in Alive \ {Main}
        PROVE  \E i \in InBatch(Top(Front(w))') :
                 Top(Front(w))'.names[i] = Last(w) /\ memo'[Front(w)].completed[Last(w)] = None
    <2>1. Front(w) \in Alive \ {h}
      BY <1>2, ParentFacts
    <2>2. Top(Front(w))' = Top(Front(w)) /\ memo'[Front(w)] = memo[Front(w)]
      BY <1>1, <2>1 DEF Top
    <2> QED
      BY <2>2 DEF Tree, Completed
  <1> QED
    BY <1>1, <1>3, <1>4 DEF Tree, Completed

LEMMA PlainThreads ==
  ASSUME Threads, NEW h \in Alive, Plain(h)
  PROVE  Threads'
  <1>1. TypeOK /\ Shape /\ Tree /\ Steps(h)
    BY PlainDoes DEF Threads
  <1>2. stack[h] # <<>> /\ Top(h).phase # "join" /\ Moves(h) /\ Changes(h) /\ Stacks
    BY <1>1, TopFacts DEF Steps
  <1>3. Keeps(h) /\ Alive' = Alive /\ Stacks'
    BY <1>2, MovesKeeps DEF Keeps
  <1>4. TypeOK'
    BY <1>1, <1>2, <1>3, ChangesTypes DEF TypeOK, Stacks
  <1>5. Shape'
    BY <1>1, <1>2, <1>3, ChangesTypes, MovesShape
  <1>6. Tree'
    BY <1>1, <1>2, <1>3, ChangesTypes, PlainTree
  <1> QED
    BY <1>4, <1>5, <1>6 DEF Threads

LEMMA ForkRest ==
  ASSUME TypeOK, NEW h \in Alive, Fork(h)
  PROVE  /\ memo' \in [Alive \cup Forked(h) -> Memo] /\ record' \in [Alive \cup Forked(h) -> Records]
         /\ UNCHANGED <<disk, plan, source, runs, history>>
  <1>1. /\ memo' = [w \in Alive \cup Forked(h) |-> memo[IF w \in Forked(h) THEN h ELSE w]]
        /\ record' = [w \in Alive \cup Forked(h) |-> record[IF w \in Forked(h) THEN h ELSE w]]
        /\ UNCHANGED <<disk, plan, source, runs, history>>
    BY Zenon DEF Fork, Forked
  <1>2. memo \in [Alive -> Memo] /\ record \in [Alive -> Records]
    BY DEF TypeOK
  <1> QED
    BY <1>1, <1>2

LEMMA ForkFrame ==
  ASSUME TypeOK, Shape, Tree, NEW h \in Alive, Fork(h)
  PROVE  LET g == Joining(h)  f == Top(h) IN
         /\ stack[h] # <<>> /\ f.phase = "fork" /\ ret[h] = None /\ Ready(h, "fork")
         /\ g \in Frame /\ Shaped(g) /\ g.phase = "join" /\ g.names = f.names /\ g.at = f.at
         /\ g.branches = f.branches /\ g.code = f.code /\ g.post = f.post /\ g.todo = f.todo
         /\ g.task = f.task
  <1>1. stack[h] # <<>> /\ Top(h).phase = "fork" /\ ret[h] = None /\ Ready(h, "fork")
    BY DEF Fork, Ready, At
  <1> QED
    BY <1>1, TopFacts, JoiningTypes DEF Joining

\* A forked thread starts with one frame, for the task that it is named by.
LEMMA ForkedFrame ==
  ASSUME TypeOK, Shape, Tree, NEW h \in Alive, Fork(h), NEW w \in Forked(h)
  PROVE  LET g == TaskFrame(Top(h).order, Last(w)) IN
         /\ g \in Frame /\ Shaped(g) /\ g.phase = "next" /\ g.task = None
         /\ g.todo = Append(Prereqs[Last(w)], Last(w)) /\ g.names = <<>>
  <1>1. Ready(h, "fork") /\ stack[h] # <<>>
    BY ForkFrame
  <1>2. Last(w) \in Task
    BY <1>1, ForkedFacts
  <1> QED
    BY <1>1, <1>2, TopFacts, TaskFrameTypes

LEMMA ForkThreads ==
  ASSUME Threads, NEW h \in Alive, Fork(h)
  PROVE  Threads'
  <1>1. TypeOK /\ Shape /\ Tree /\ ForkMoves(h)
    BY ForkDoes DEF Threads
  <1>2. /\ stack[h] # <<>> /\ Ready(h, "fork") /\ Top(h).phase = "fork" /\ ret[h] = None
        /\ Shaped(Joining(h)) /\ Joining(h).phase = "join"
        /\ Joining(h).names = Top(h).names /\ Joining(h).at = Top(h).at
    BY <1>1, ForkFrame
  <1>3. /\ Alive' = Alive \cup Forked(h) /\ Stacks'
        /\ \A g \in Alive \ {h} : stack'[g] = stack[g] /\ ret'[g] = ret[g] /\ Frames(g)' = Frames(g)
        /\ \A g \in Alive : memo'[g] = memo[g]
        /\ stack'[h] # <<>> /\ ret'[h] = None
        /\ Top(h)' = Joining(h) /\ Frames(h)' = Outer(h) \cup {Joining(h)}
        /\ \A w \in Forked(h) : Frames(w)' = {TaskFrame(Top(h).order, Last(w))}
    BY <1>1 DEF ForkMoves
  <1>4. /\ Forked(h) \subseteq Thread \ {Main} /\ Forked(h) \cap Alive = {}
        /\ \A w \in Forked(h) :
             /\ Front(w) = h /\ Last(w) \in Task /\ Completed(h, Last(w)) = None
             /\ \E i \in InBatch(Top(h)) : Top(h).names[i] = Last(w)
    BY <1>1, <1>2, ForkedFacts
  <1>5. (\A w \in Alive : ~Below(h, w)) /\ \A w \in Alive \ {Main} : Front(w) # h
    BY <1>1, <1>2, NotJoining DEF At
  <1>6. TypeOK'
    <2>1. Alive' \subseteq Thread /\ Main \in Alive'
      BY <1>1, <1>3, <1>4 DEF TypeOK
    <2> QED
      BY <1>1, <1>3, <2>1, ForkRest DEF TypeOK, Stacks, history
  <1>7. Shape'
    <2>1. UNCHANGED plan
      BY <1>1, ForkRest
    <2>2. Outer(h) \subseteq Frames(h)
      BY <1>1, <1>2, TopFacts, StackFacts
    <2>3. \A x \in Frames(h)' : Shaped(x)
      BY <1>1, <1>2, <1>3, <2>2 DEF Shape
    <2>4. \A g \in Alive \ {h} : \A x \in Frames(g)' : Shaped(x)
      BY <1>1, <1>3 DEF Shape
    <2>5. \A w \in Forked(h) : \A x \in Frames(w)' : Shaped(x)
      BY <1>1, <1>3, ForkedFrame
    <2>6. \A g \in Alive' : \A x \in Frames(g)' : Shaped(x)
      BY <1>3, <2>3, <2>4, <2>5
    <2> QED
      BY <2>1, <2>6, ShapedKept DEF Shape
  <1>8. ASSUME NEW w \in Alive', NEW g \in Thread, Below(g, w)
        PROVE  g \in Alive' /\ At(g, "join")' /\ ret'[g] = None
    <2>1. ASSUME g = h PROVE g \in Alive' /\ At(g, "join")' /\ ret'[g] = None
      BY <1>2, <1>3, <2>1 DEF At
    <2>2. ASSUME NEW v \in Alive, Below(g, v) PROVE g \in Alive' /\ At(g, "join")' /\ ret'[g] = None
      <3>1. g \in Alive /\ At(g, "join") /\ ret[g] = None /\ g # h
        BY <1>1, <1>5, <2>2 DEF Tree
      <3> QED
        BY <1>3, <3>1 DEF At, Top
    <2>3. CASE w \in Alive
      BY <1>8, <2>2, <2>3
    <2>4. CASE w \in Forked(h)
      <3>1. g = h \/ Below(g, h)
        BY <1>4, <1>8, <2>4, BelowFront
      <3> QED
        BY <2>1, <2>2, <3>1
    <2> QED
      BY <1>3, <2>3, <2>4
  <1>9. ASSUME NEW w \in Alive' \ {Main}
        PROVE  \E i \in InBatch(Top(Front(w))') :
                 Top(Front(w))'.names[i] = Last(w) /\ memo'[Front(w)].completed[Last(w)] = None
    <2>1. CASE w \in Alive
      <3>1. Front(w) \in Alive \ {h}
        BY <1>1, <1>5, <2>1, ParentFacts
      <3>2. Top(Front(w))' = Top(Front(w)) /\ memo'[Front(w)] = memo[Front(w)]
        BY <1>3, <3>1 DEF Top
      <3> QED
        BY <1>1, <2>1, <3>2 DEF Tree, Completed
    <2>2. CASE w \in Forked(h)
      <3>1. Front(w) = h /\ Completed(h, Last(w)) = None
        BY <1>4, <2>2
      <3>2. PICK i \in InBatch(Top(h)) : Top(h).names[i] = Last(w)
        BY <1>4, <2>2
      <3>3. InBatch(Joining(h)) = InBatch(Top(h))
        BY <1>2 DEF InBatch
      <3>4. memo'[h].completed[Last(w)] = None
        BY <1>3, <3>1 DEF Completed
      <3>5. i \in InBatch(Joining(h)) /\ Joining(h).names[i] = Last(w)
        BY <1>2, <3>2, <3>3
      <3> QED
        BY <1>3, <3>1, <3>4, <3>5
    <2> QED
      BY <1>3, <2>1, <2>2
  <1>10. Tree'
    BY <1>8, <1>9 DEF Tree, Completed
  <1> QED
    BY <1>6, <1>7, <1>10 DEF Threads

LEMMA JoinRest ==
  ASSUME TypeOK, NEW h \in Alive, h \notin Workers(h), Join(h)
  PROVE  /\ memo' \in [Alive \ Workers(h) -> Memo] /\ record' \in [Alive \ Workers(h) -> Records]
         /\ UNCHANGED <<disk, plan, source, runs, history>>
  <1> DEFINE left == Alive \ Workers(h)
  <1>1. memo \in [Alive -> Memo] /\ record \in [Alive -> Records] /\ h \in left
    BY DEF TypeOK
  <1>2. PICK c : c = [t \in Task |-> Completed(Owner(h, t), t)]
    OBVIOUS
  <1>3. c \in [Task -> Code \cup {None}]
    <2>1. \A t \in Task : Completed(Owner(h, t), t) \in Code \cup {None}
      BY OwnerFacts, CompletedTypes
    <2> QED
      BY <1>2, <2>1
  <1>4. PICK r : r = [t \in Task |-> record[Owner(h, t)][t]]
    OBVIOUS
  <1>5. r \in Records
    <2>1. \A t \in Task : record[Owner(h, t)][t] \in Version \cup {None}
      BY <1>1, OwnerFacts DEF Records
    <2> QED
      BY <1>4, <2>1 DEF Records
  <1>6. /\ memo' = [[w \in left |-> memo[w]] EXCEPT ![h].completed = c]
        /\ record' = [[w \in left |-> record[w]] EXCEPT ![h] = r]
        /\ UNCHANGED <<disk, plan, source, runs, history>>
    BY <1>2, <1>4, Zenon DEF Join
  <1> HIDE DEF left
  <1>7. left \subseteq Alive
    BY DEF left
  <1>8. memo' \in [left -> Memo]
    <2>1. [memo[h] EXCEPT !.completed = c] \in Memo
      BY <1>1, <1>3, <1>7 DEF Memo
    <2>2. memo' = [[w \in left |-> memo[w]] EXCEPT ![h] = [memo[h] EXCEPT !.completed = c]]
      BY <1>1, <1>6
    <2> QED
      BY <1>1, <1>7, <2>1, <2>2
  <1>9. record' \in [left -> Records]
    BY <1>1, <1>5, <1>6, <1>7
  <1> QED
    BY <1>6, <1>8, <1>9 DEF left

LEMMA JoinFrame ==
  ASSUME TypeOK, Shape, Tree, NEW h \in Alive, Join(h)
  PROVE  LET g == Joined(h)  f == Top(h) IN
         /\ stack[h] # <<>> /\ f.phase = "join" /\ ret[h] = None
         /\ \A w \in Workers(h) : stack[w] = <<>> /\ ret[w] \in Result
         /\ g \in Frame /\ Shaped(g) /\ g.phase = "fork" /\ g.names = f.names /\ g.at = f.at + Batch
         /\ g.branches = f.branches /\ g.code = Merge(f.code, Results(h)) /\ g.post = f.post
         /\ g.todo = f.todo /\ g.task = f.task
  <1>1. /\ stack[h] # <<>> /\ Top(h).phase = "join" /\ ret[h] = None
        /\ \A w \in Workers(h) : stack[w] = <<>> /\ ret[w] # None
    BY DEF Join, Ready, At
  <1>2. \A w \in Workers(h) : ret[w] \in Result
    BY <1>1 DEF Workers, TypeOK
  <1> QED
    BY <1>1, <1>2, JoinedTypes

\* The workers of a thread have no workers when it joins them.
LEMMA NoneAboveWorkers ==
  ASSUME TypeOK, Tree, NEW h \in Alive, \A w \in Workers(h) : stack[w] = <<>>
  PROVE  \A w \in Alive : Below(h, w) => w \in Workers(h)
  <1> SUFFICES ASSUME NEW w \in Alive, Below(h, w), w \notin Workers(h) PROVE FALSE
    OBVIOUS
  <1>1. h \in Thread /\ w \in Thread
    BY DEF TypeOK
  <1>2. w # Main
    BY <1>1, BelowFront DEF Main
  <1>3. Front(w) # h
    BY <1>2 DEF Workers
  <1>4. PICK v \in Thread : v # <<>> /\ Front(v) = h /\ Below(v, w)
    BY <1>1, <1>3, BelowByOne
  <1>5. v \in Alive /\ At(v, "join")
    BY <1>4 DEF Tree
  <1>6. v \in Workers(h)
    BY <1>4, <1>5 DEF Workers, Main
  <1> QED
    BY <1>5, <1>6 DEF At

LEMMA JoinThreads ==
  ASSUME Threads, NEW h \in Alive, Join(h)
  PROVE  Threads'
  <1>1. TypeOK /\ Shape /\ Tree /\ JoinMoves(h)
    BY JoinDoes DEF Threads
  <1>2. /\ stack[h] # <<>> /\ Top(h).phase = "join" /\ Shaped(Joined(h))
        /\ \A w \in Workers(h) : stack[w] = <<>>
    BY <1>1, JoinFrame
  <1>3. /\ Alive' = Alive \ Workers(h) /\ h \in Alive' /\ Stacks'
        /\ \A g \in Alive' \ {h} : /\ stack'[g] = stack[g] /\ ret'[g] = ret[g] /\ Frames(g)' = Frames(g)
                                  /\ memo'[g] = memo[g]
        /\ Frames(h)' = Outer(h) \cup {Joined(h)}
    BY <1>1 DEF JoinMoves
  <1>4. \A w \in Alive' : ~Below(h, w)
    BY <1>1, <1>2, <1>3, NoneAboveWorkers
  <1>5. h \notin Workers(h)
    BY <1>3
  <1>6. TypeOK'
    <2>1. Alive' \subseteq Thread /\ Main \in Alive'
      BY <1>1, <1>3 DEF TypeOK, Workers
    <2> QED
      BY <1>1, <1>3, <1>5, <2>1, JoinRest DEF TypeOK, Stacks, history
  <1>7. Shape'
    <2>1. UNCHANGED plan
      BY <1>1, <1>5, JoinRest
    <2>2. Outer(h) \subseteq Frames(h)
      BY <1>1, <1>2, TopFacts, StackFacts
    <2>3. \A x \in Frames(h)' : Shaped(x)
      BY <1>1, <1>2, <1>3, <2>2 DEF Shape
    <2>4. \A g \in Alive' \ {h} : \A x \in Frames(g)' : Shaped(x)
      BY <1>1, <1>3 DEF Shape
    <2> QED
      BY <2>1, <2>3, <2>4, ShapedKept DEF Shape
  <1>8. ASSUME NEW w \in Alive', NEW g \in Thread, Below(g, w)
        PROVE  g \in Alive' /\ At(g, "join")' /\ ret'[g] = None
    <2>1. g \in Alive /\ At(g, "join") /\ ret[g] = None /\ g # h
      BY <1>1, <1>3, <1>4, <1>8 DEF Tree
    <2>2. g \in Alive' \ {h}
      <3>1. g \notin Workers(h)
        BY <1>2, <2>1 DEF At
      <3> QED
        BY <1>3, <2>1, <3>1
    <2> QED
      BY <1>3, <2>1, <2>2 DEF At, Top
  <1>9. ASSUME NEW w \in Alive' \ {Main}
        PROVE  \E i \in InBatch(Top(Front(w))') :
                 Top(Front(w))'.names[i] = Last(w) /\ memo'[Front(w)].completed[Last(w)] = None
    <2>1. w \in Alive \ {Main} /\ Front(w) \in Thread /\ Below(Front(w), w)
      BY <1>1, <1>3, ParentFacts DEF TypeOK
    <2>2. Front(w) \in Alive' /\ Front(w) # h
      BY <1>4, <1>8, <2>1
    <2>3. Top(Front(w))' = Top(Front(w)) /\ memo'[Front(w)] = memo[Front(w)]
      BY <1>3, <2>2 DEF Top
    <2> QED
      BY <1>1, <2>1, <2>3 DEF Tree, Completed
  <1>10. Tree'
    BY <1>8, <1>9 DEF Tree, Completed
  <1> QED
    BY <1>6, <1>7, <1>10 DEF Threads

-----------------------------------------------------------------------------
(* The invocations *)

LEMMA MainAlone ==
  ASSUME TypeOK, Tree, stack[Main] = <<>>
  PROVE  Alive = {Main}
  <1>1. ASSUME NEW w \in Alive, w # Main PROVE FALSE
    <2>1. Below(Main, w) /\ Main \in Thread
      BY <1>1, MainIsBelow DEF TypeOK
    <2>2. At(Main, "join")
      BY <2>1 DEF Tree
    <2> QED
      BY <2>2 DEF At
  <1> QED
    BY <1>1 DEF TypeOK

FirstFrame == RunFrame(Order, Among(Order, ToSet(Append(Prereqs[plan.root], plan.root))))

LEMMA InvokeMoves ==
  ASSUME TypeOK, Tree, Invoke
  PROVE  /\ Alive = {Main} /\ Alive' = {Main} /\ Stacks' /\ stack'[Main] # <<>>
         /\ FirstFrame \in Frame /\ Shaped(FirstFrame) /\ FirstFrame.phase = "next"
         /\ FirstFrame.task = None /\ FirstFrame.names = <<>>
         /\ FirstFrame.todo = Among(Order, ToSet(Append(Prereqs[plan.root], plan.root)))
         /\ stack'[Main] = <<FirstFrame>>
         /\ Frames(Main)' = {FirstFrame} /\ Top(Main)' = FirstFrame /\ ret'[Main] = None
         /\ memo' = [h \in {Main} |-> NoMemo] /\ record' = [h \in {Main} |-> disk]
         /\ starts' = [t \in Task |-> 0] /\ posts' = [t \in Task |-> 0] /\ fine' = {} /\ bad' = {}
         /\ runs < MaxRuns /\ runs' = runs + 1 /\ UNCHANGED <<plan, disk, source, good, kept>>
  <1>1. Alive = {Main} /\ stack[Main] = <<>> /\ ret[Main] = None
    BY MainAlone DEF Invoke, Idle
  <1>2. Order \in Seq(Task) /\ Prereqs[plan.root] \in Seq(Task)
    BY PlanTypes DEF TypeOK
  <1>3. Among(Order, ToSet(Append(Prereqs[plan.root], plan.root))) \in Seq(Task)
    BY <1>2, AmongMembers
  <1>4. /\ FirstFrame \in Frame /\ Shaped(FirstFrame) /\ FirstFrame.phase = "next"
        /\ FirstFrame.task = None /\ FirstFrame.names = <<>>
        /\ FirstFrame.todo = Among(Order, ToSet(Append(Prereqs[plan.root], plan.root)))
    BY <1>2, <1>3, RunFrameTypes, Zenon DEF FirstFrame
  <1>5. PICK f \in Frame : f = FirstFrame
    BY <1>4
  <1>6. stack' = [stack EXCEPT ![Main] = <<f>>] /\ ret' = ret
    BY <1>5 DEF Invoke, FirstFrame
  <1>7. <<f>> \in Seq(Frame) /\ <<f>> # <<>> /\ Len(<<f>>) = 1 /\ <<f>>[1] = f /\ 1..1 = {1}
    OBVIOUS
  <1>8. Alive' = {Main} /\ Stacks' /\ stack'[Main] = <<f>> /\ ret'[Main] = None
    BY <1>1, <1>6, <1>7 DEF Alive, Stacks, TypeOK
  <1>9. Frames(Main)' = {f}
    BY <1>7, <1>8 DEF Frames
  <1>10. Top(Main)' = f
    BY <1>7, <1>8 DEF Top, Last
  <1>11. memo' = [h \in {Main} |-> NoMemo] /\ record' = [h \in {Main} |-> disk]
    BY <1>1 DEF Invoke, TypeOK
  <1>12. /\ starts' = [t \in Task |-> 0] /\ posts' = [t \in Task |-> 0] /\ fine' = {} /\ bad' = {}
         /\ runs < MaxRuns /\ runs' = runs + 1 /\ UNCHANGED <<plan, disk, source, good, kept>>
    BY DEF Invoke
  <1> QED
    BY <1>1, <1>4, <1>5, <1>7, <1>8, <1>9, <1>10, <1>11, <1>12

LEMMA InvokeThreads ==
  ASSUME Threads, Invoke
  PROVE  Threads'
  <1>1. TypeOK /\ Shape /\ Tree
    BY DEF Threads
  <1>2. TypeOK'
    <2>1. NoMemo \in Memo
      BY DEF NoMemo, Memo
    <2>2. memo' \in [{Main} -> Memo] /\ record' \in [{Main} -> Records]
      BY <1>1, <2>1, InvokeMoves DEF TypeOK
    <2>3. runs' \in 0..MaxRuns
      BY <1>1, InvokeMoves, ConstantsAssumption DEF TypeOK
    <2> QED
      BY <1>1, <2>2, <2>3, InvokeMoves DEF TypeOK, Stacks
  <1>3. Shape'
    BY <1>1, InvokeMoves, ShapedKept DEF Shape
  <1>4. Tree'
    <2>1. ASSUME NEW w \in Alive', NEW g \in Thread PROVE ~Below(g, w)
      <3>1. w = <<>> /\ w \in Thread
        BY <1>1, InvokeMoves DEF TypeOK, Main
      <3> QED
        BY <3>1, BelowFront
    <2>2. Alive' \ {Main} = {}
      BY <1>1, InvokeMoves
    <2> QED
      BY <2>1, <2>2 DEF Tree
  <1> QED
    BY <1>2, <1>3, <1>4 DEF Threads

LEMMA FinishThreads ==
  ASSUME Threads, Finish
  PROVE  Threads'
  <1>1. TypeOK /\ Shape /\ Tree /\ Alive = {Main} /\ Alive' = {Main}
    BY MainAlone DEF Threads, Finish, Ended, Alive
  <1>2. UNCHANGED <<stack, memo, record, plan, source, runs, history>>
        /\ disk' = (IF ret[Main] \in Err THEN disk ELSE record[Main]) /\ ret' = [ret EXCEPT ![Main] = None]
    BY DEF Finish
  <1>3. TypeOK'
    BY <1>1, <1>2 DEF TypeOK, history, Alive
  <1>4. Shape'
    BY <1>1, <1>2, ShapedKept DEF Shape, Frames, Alive
  <1>5. Tree'
    BY <1>1, <1>2 DEF Tree, At, Top, Completed, Alive
  <1> QED
    BY <1>3, <1>4, <1>5 DEF Threads

\* A step that leaves the plan, the threads and the memos alone.
LEMMA TreeKept ==
  ASSUME UNCHANGED <<plan, stack, ret, memo>>
  PROVE  (Shape <=> Shape') /\ (Tree <=> Tree') /\ Alive' = Alive
  BY ShapedKept DEF Shape, Tree, Frames, Alive, At, Top, Completed, InBatch

LEMMA EditThreads ==
  ASSUME Threads, NEW t \in Task, Edit(t)
  PROVE  Threads'
  <1>1. UNCHANGED <<plan, stack, ret, memo, record, disk, runs, history>>
    BY DEF Edit, threads
  <1>2. TypeOK'
    <2>1. source' \in [Task -> Version]
      BY ConstantsAssumption DEF Threads, TypeOK, Edit, Version
    <2> QED
      BY <1>1, <2>1 DEF Threads, TypeOK, history, Alive
  <1> QED
    BY <1>1, <1>2, TreeKept DEF Threads

LEMMA ThreadsInit ==
  ASSUME Init
  PROVE  Threads
  <1>1. Alive = {Main} /\ stack = [h \in {Main} |-> <<>>] /\ ret = [h \in {Main} |-> None]
    BY DEF Init, JustMain, Alive
  <1>2. TypeOK
    <2>1. Main \in Thread /\ <<>> \in Seq(Frame)
      BY EmptySeq DEF Main, Thread
    <2>2. NoMemo \in Memo
      BY DEF NoMemo, Memo
    <2>3. NoRecord \in Records
      BY DEF NoRecord, Records
    <2>4. 0 \in Version /\ 0 \in 0..MaxRuns
      BY ConstantsAssumption DEF Version
    <2>5. /\ stack \in [{Main} -> Seq(Frame)] /\ ret \in [{Main} -> Result \cup {None}]
          /\ memo \in [{Main} -> Memo] /\ record \in [{Main} -> Records]
      BY <1>1, <2>1, <2>2, <2>3 DEF Init, JustMain
    <2> QED
      BY <1>1, <2>1, <2>3, <2>4, <2>5 DEF Init, TypeOK
  <1>3. Shape
    <2>1. Frames(Main) = {}
      <3>1. stack[Main] = <<>> /\ 1..Len(<<>>) = {}
        BY <1>1
      <3> QED
        BY <3>1 DEF Frames
    <2> QED
      BY <1>1, <2>1 DEF Shape
  <1>4. Tree
    <2>1. ASSUME NEW w \in Alive, NEW g \in Thread PROVE ~Below(g, w)
      <3>1. w = <<>> /\ w \in Thread
        BY <1>1, <1>2 DEF TypeOK, Main
      <3> QED
        BY <3>1, BelowFront
    <2> QED
      BY <1>1, <2>1 DEF Tree
  <1> QED
    BY <1>2, <1>3, <1>4 DEF Threads

LEMMA ThreadsKept ==
  ASSUME Threads, UNCHANGED vars
  PROVE  Threads'
  <1>1. TypeOK'
    BY DEF Threads, TypeOK, vars, threads, history, Alive
  <1>2. UNCHANGED <<plan, stack, ret, memo>>
    BY DEF vars, threads
  <1> QED
    BY <1>1, <1>2, TreeKept DEF Threads

LEMMA ThreadsStep ==
  ASSUME Threads, [Next]_vars
  PROVE  Threads'
  <1>1. ASSUME NEW h \in Alive, ThreadStep(h) PROVE Threads'
    BY <1>1, StepKinds, PlainThreads, ForkThreads, JoinThreads
  <1> QED
    BY <1>1, InvokeThreads, FinishThreads, EditThreads, ThreadsKept DEF Next

\* Threads are named by a tree, frames have what their phase needs, and every variable
\* has its type, in every reachable state.
THEOREM ThreadsInvariant == Spec => []Threads
  BY ThreadsInit, ThreadsStep, PTL DEF Spec

-----------------------------------------------------------------------------
(* Kinds of steps *)

LEMMA PopsOuter ==
  ASSUME Stacks, NEW h \in Alive, stack[h] # <<>>, NEW r, Pops(h, r)
  PROVE  Outer(h)' \subseteq Outer(h) /\ (stack'[h] # <<>> => Top(h)' \in Outer(h))
  <1> DEFINE n == Len(stack[h])
  <1>1. n \in Nat \ {0} /\ stack[h] \in Seq(Frame)
    BY StackFacts
  <1>2. Len(stack'[h]) = n - 1 /\ \A i \in 1..(n - 1) : stack'[h][i] = stack[h][i]
    BY DEF Pops, Keeps, Outside
  <1>3. stack'[h] \in Seq(Frame)
    BY DEF Pops, Keeps, Stacks
  <1> HIDE DEF n
  <1>4. Outer(h)' = {stack'[h][i] : i \in 1..(n - 1 - 1)} /\ Outer(h) = {stack[h][i] : i \in 1..(n - 1)}
    BY <1>2 DEF Outer, n
  <1>5. \A i \in 1..(n - 1 - 1) : i \in 1..(n - 1)
    BY <1>1
  <1>6. Outer(h)' \subseteq Outer(h)
    BY <1>2, <1>4, <1>5
  <1>7. ASSUME stack'[h] # <<>> PROVE Top(h)' \in Outer(h)
    <2>1. Len(stack'[h]) \in Nat \ {0}
      BY <1>3, <1>7, FrontFacts
    <2>2. n - 1 \in 1..(n - 1)
      BY <1>1, <1>2, <2>1
    <2>3. Top(h)' = stack'[h][n - 1]
      BY <1>2 DEF Top, Last
    <2> QED
      BY <1>2, <1>4, <2>2, <2>3
  <1> QED
    BY <1>6, <1>7

Working == {"body", "post"}

\* A step of a frame without a task that starts none.
Elsewhere(h) ==
  /\ stack[h] # <<>> /\ Top(h).phase \notin Working /\ Top(h).phase # "join"
  /\ \/ \E f \in Frame : Goes(h, f) /\ f.phase \notin Working /\ f.task = None
     \/ \E f \in Frame, g \in Frame : /\ Pushes(h, f, g) /\ f.phase \notin Working /\ g.phase \notin Working
                                      /\ f.task = None /\ g.task = None
     \/ \E r \in Result : Pops(h, r)
  /\ UNCHANGED <<record, starts, posts, good, disk, plan, source, runs>>
  /\ UNCHANGED kept \/ \E t \in Task : SkipFresh(h, t)

\* The steps of a frame with a task.
Work(h) ==
  \/ \E t \in Task : StartBody(h, t)
  \/ BodyCommand(h) \/ BodyGroup(h) \/ BodyGroupReturns(h) \/ EndOfBody(h)
  \/ PostCommand(h) \/ PostGroup(h) \/ PostGroupReturns(h)
  \/ EndWithError(h) \/ EndWithFailure(h) \/ EndWithSuccess(h) \/ RecordFails(h)

LEMMA NoTaskNow ==
  ASSUME NEW f, Shaped(f), f.phase \notin Working
  PROVE  f.task = None
  BY DEF Shaped, Working

LEMMA PlainKinds ==
  ASSUME Threads, NEW h \in Alive, Plain(h)
  PROVE  Elsewhere(h) \/ Work(h)
  <1>0. TypeOK /\ Shape
    BY DEF Threads
  <1>1. ASSUME NEW r, Quits(h, r), Top(h).phase \notin Working,
               UNCHANGED <<record, starts, posts, good, kept, disk, plan, source, runs>>
        PROVE  Elsewhere(h)
    BY <1>1 DEF Elsewhere, Quits
  <1>2. ASSUME NEW f \in Frame, Goes(h, f), Shaped(f), f.phase \notin Working,
               stack[h] # <<>>, Top(h).phase \notin Working, Top(h).phase # "join",
               UNCHANGED <<record, starts, posts, good, kept, disk, plan, source, runs>>
        PROVE  Elsewhere(h)
    BY <1>2, NoTaskNow DEF Elsewhere
  <1>3. ASSUME NEW f \in Frame, NEW g \in Frame, Pushes(h, f, g), Shaped(f), Shaped(g),
               f.phase \notin Working, g.phase \notin Working,
               stack[h] # <<>>, Top(h).phase \notin Working, Top(h).phase # "join",
               UNCHANGED <<record, starts, posts, good, kept, disk, plan, source, runs>>
        PROVE  Elsewhere(h)
    BY <1>3, NoTaskNow DEF Elsewhere
  <1>4. ASSUME Quiet PROVE UNCHANGED <<record, starts, posts, good, kept, disk, plan, source, runs>>
    BY <1>4 DEF Quiet, history
  <1>5. "next" \notin Working /\ "deps" \notin Working /\ "serial" \notin Working /\ "fork" \notin Working
    BY DEF Working
  <1>6. ASSUME EndOfList(h) \/ EndSerial(h) \/ EndFork(h) PROVE Elsewhere(h)
    BY <1>0, <1>1, <1>4, <1>5, <1>6, EndsQuit
  <1>7. ASSUME SkipCompleted(h) PROVE Elsewhere(h)
    <2>1. Top(h) \in Frame /\ stack[h] # <<>> /\ Top(h).todo # <<>> /\ Top(h).phase = "next"
      BY <1>0, <1>7, SkipCompletedGoes, TopFacts
    <2>2. Passed(Top(h)).phase = "next"
      BY <2>1, PassedTypes
    <2> QED
      BY <1>0, <1>2, <1>4, <1>5, <1>7, <2>1, <2>2, SkipCompletedGoes
  <1>8. ASSUME NEW t \in Task, ReferenceCycle(h, t) \/ ReturnCompleted(h, t) \/ DecideFails(h, t)
        PROVE  Elsewhere(h)
    <2>1. Takes(h, t) /\ \E r \in Result : Return(h, r)
      BY <1>8 DEF ReferenceCycle, ReturnCompleted, DecideFails, Decides, Result, Code, Err
    <2>2. UNCHANGED <<record, starts, posts, good, kept, disk, plan, source, runs>>
      BY <1>8 DEF ReferenceCycle, ReturnCompleted, DecideFails, history
    <2>3. stack[h] # <<>> /\ Top(h).phase = "next"
      BY <1>0, <2>1, TakesFacts
    <2>4. PICK r \in Result : Pops(h, r)
      BY <1>0, <2>1, <2>3, LeavePops
    <2>5. Quits(h, r)
      BY <2>3, <2>4 DEF Quits
    <2> QED
      BY <1>1, <1>5, <2>2, <2>3, <2>5
  <1>9. ASSUME NEW t \in Task, SkipFresh(h, t) PROVE Elsewhere(h)
    <2>1. /\ Takes(h, t) /\ Continue(h, Passed(Top(h)))
          /\ UNCHANGED <<record, starts, posts, good, disk, plan, source, runs>>
      BY <1>9 DEF SkipFresh, Decides, Passed
    <2>2. stack[h] # <<>> /\ Top(h).phase = "next" /\ Top(h).todo # <<>> /\ Ready(h, "next")
      BY <1>0, <2>1, TakesFacts DEF Takes
    <2>3. Goes(h, Passed(Top(h))) /\ Passed(Top(h)) \in Frame /\ Shaped(Passed(Top(h)))
      BY <1>0, <2>1, <2>2, SkipGoes
    <2>4. Passed(Top(h)).phase = "next"
      BY <1>0, <2>2, TopFacts, PassedTypes
    <2> QED
      BY <1>5, <1>9, <2>1, <2>2, <2>3, <2>4, NoTaskNow DEF Elsewhere
  <1>10. ASSUME stack[h] # <<>>, Top(h).todo # <<>>
         PROVE  Passed(Top(h)).phase = Top(h).phase
    BY <1>0, <1>10, TopFacts, PassedTypes
  <1>11. ASSUME GroupPrerequisite(h) PROVE Elsewhere(h)
    BY <1>0, <1>2, <1>3, <1>4, <1>5, <1>10, <1>11, GroupPrerequisiteMoves
  <1>12. ASSUME SerialTask(h) PROVE Elsewhere(h)
    BY <1>0, <1>2, <1>3, <1>4, <1>5, <1>10, <1>12, SerialTaskMoves
  <1>13. ASSUME GroupPrerequisiteReturns(h) PROVE Elsewhere(h)
    <2>1. Quiet
      BY <1>13 DEF GroupPrerequisiteReturns, Quiet
    <2> QED
      BY <1>0, <1>1, <1>2, <1>4, <1>5, <1>13, <2>1, GroupPrerequisiteReturnsMoves DEF Quits
  <1>14. ASSUME SerialTaskReturns(h) PROVE Elsewhere(h)
    <2>1. Quiet
      BY <1>14 DEF SerialTaskReturns, Quiet
    <2> QED
      BY <1>0, <1>1, <1>2, <1>4, <1>5, <1>14, <2>1, SerialTaskReturnsMoves DEF Quits
  <1>15. ASSUME StartGroup(h) PROVE Elsewhere(h)
    <2>1. Quiet
      BY <1>15 DEF StartGroup, Quiet
    <2>2. /\ stack[h] # <<>> /\ Top(h).phase = "deps"
          /\ \E g \in Frame : Goes(h, g) /\ Shaped(g) /\ g.phase \in {"fork", "serial"}
      BY <1>0, <1>15, StartGroupGoes
    <2> QED
      BY <1>2, <1>4, <1>5, <2>1, <2>2
  <1> QED
    BY <1>6, <1>7, <1>8, <1>9, <1>11, <1>12, <1>13, <1>14, <1>15
    DEF Plain, TaskStep, TakeStep, Work

-----------------------------------------------------------------------------
(* A task whose body was started is owed its teardown *)

\* The teardown of t has still to begin in f.
Owes(f, t) == f.task = t /\ (f.phase = "body" \/ (f.phase = "post" /\ f.at = 1))

StartsCounted ==
  /\ \A t \in Task : posts[t] > 0 => starts[t] > 0
  /\ \A h \in Alive : \A f \in Frames(h) : f.task \in Task => starts[f.task] > 0

PostsCounted(h) ==
  /\ \A f \in Outer(h) : f.phase = "post" => posts[f.task] > 0
  /\ At(h, "post") /\ ret[h] # None => posts[Top(h).task] > 0

TeardownOwed ==
  \A t \in Task : starts[t] > 0 /\ posts[t] = 0 /\ Post[t] # <<>> =>
    \E h \in Alive : \E f \in Frames(h) : Owes(f, t)

Owed == StartsCounted /\ (\A h \in Alive : PostsCounted(h)) /\ TeardownOwed

\* What a step of h has to do to keep that up.
KeepsOwed(h) ==
  /\ \A t \in Task : (starts[t] > 0 => starts'[t] > 0) /\ (posts[t] > 0 => posts'[t] > 0)
  /\ \A t \in Task : posts'[t] > 0 => posts[t] > 0 \/ starts[t] > 0
  /\ \A f \in Frames(h)' : f.task \in Task => f \in Outer(h) \/ starts'[f.task] > 0
  /\ \A f \in Outer(h)' : f.phase = "post" => f \in Outer(h) \/ posts'[f.task] > 0
  /\ At(h, "post")' /\ ret'[h] # None => posts'[Top(h)'.task] > 0
  /\ \A t \in Task : starts'[t] > 0 /\ posts'[t] = 0 /\ Post[t] # <<>> =>
       \/ \E f \in Frames(h)' : Owes(f, t)
       \/ starts[t] > 0 /\ posts[t] = 0 /\ ~(stack[h] # <<>> /\ Owes(Top(h), t)) /\ Outer(h) \subseteq Frames(h)'

LEMMA OwedByThread ==
  ASSUME TypeOK, Shape, Owed, NEW h \in Alive, stack[h] # <<>>, Keeps(h), UNCHANGED plan, KeepsOwed(h)
  PROVE  Owed'
  <1>1. /\ Alive' = Alive /\ Stacks
        /\ \A g \in Alive \ {h} : stack'[g] = stack[g] /\ ret'[g] = ret[g] /\ Frames(g)' = Frames(g)
    BY TopFacts DEF Keeps, Outside
  <1>2. \A g \in Alive \ {h} : Outer(g)' = Outer(g) /\ Top(g)' = Top(g)
    BY <1>1 DEF Outer, Top
  <1>3. Frames(h) = Outer(h) \cup {Top(h)}
    BY <1>1, StackFacts
  <1>4. \A g \in Alive : \A f \in Frames(g) : f.task \in Task \cup {None} /\ (f.phase = "post" => f.task \in Task)
    <2>1. \A g \in Alive : \A f \in Frames(g) : f \in Frame /\ Shaped(f)
      BY <1>1, StackFacts DEF Frames, Shape
    <2> QED
      BY <2>1 DEF Frame, Shaped
  <1>5. StartsCounted'
    <2>1. \A t \in Task : posts'[t] > 0 => starts'[t] > 0
      BY DEF KeepsOwed, Owed, StartsCounted
    <2>2. \A f \in Frames(h)' : f.task \in Task => starts'[f.task] > 0
      BY <1>3 DEF KeepsOwed, Owed, StartsCounted
    <2>3. \A g \in Alive \ {h} : \A f \in Frames(g)' : f.task \in Task => starts'[f.task] > 0
      BY <1>1 DEF KeepsOwed, Owed, StartsCounted
    <2> QED
      BY <1>1, <2>1, <2>2, <2>3 DEF StartsCounted
  <1>6. \A g \in Alive' : PostsCounted(g)'
    <2>1. PostsCounted(h)'
      BY <1>3, <1>4 DEF KeepsOwed, Owed, PostsCounted
    <2>2. ASSUME NEW g \in Alive \ {h} PROVE PostsCounted(g)'
      <3>1. \A f \in Outer(g) : f.phase = "post" => posts'[f.task] > 0
        <4>1. Outer(g) \subseteq Frames(g)
          BY <1>1, StackFacts DEF Outer, Frames
        <4> QED
          BY <1>4, <4>1 DEF KeepsOwed, Owed, PostsCounted
      <3>2. ASSUME At(g, "post"), ret[g] # None PROVE posts'[Top(g).task] > 0
        <4>1. Top(g).task \in Task
          BY <3>2, WorkFacts DEF At
        <4> QED
          BY <3>2, <4>1 DEF KeepsOwed, Owed, PostsCounted
      <3> QED
        BY <1>1, <1>2, <3>1, <3>2 DEF PostsCounted, At
    <2> QED
      BY <1>1, <2>1, <2>2
  <1>7. TeardownOwed'
    <2> SUFFICES ASSUME NEW t \in Task, starts'[t] > 0, posts'[t] = 0, Post[t] # <<>>
                 PROVE  \E g \in Alive' : \E f \in Frames(g)' : Owes(f, t)
      BY DEF TeardownOwed, Post, Owes
    <2>1. CASE \E f \in Frames(h)' : Owes(f, t)
      BY <1>1, <2>1
    <2>2. CASE /\ starts[t] > 0 /\ posts[t] = 0 /\ ~(stack[h] # <<>> /\ Owes(Top(h), t))
               /\ Outer(h) \subseteq Frames(h)'
      <3>1. PICK g \in Alive : \E f \in Frames(g) : Owes(f, t)
        BY <2>2 DEF Owed, TeardownOwed
      <3>2. CASE g = h
        BY <1>1, <1>3, <2>2, <3>1, <3>2
      <3>3. CASE g # h
        BY <1>1, <3>1, <3>3
      <3> QED
        BY <3>2, <3>3
    <2> QED
      BY <2>1, <2>2 DEF KeepsOwed
  <1> QED
    BY <1>5, <1>6, <1>7 DEF Owed

\* The frames of h after a step are some of the outer ones and f and g.
LEMMA FramesAfter ==
  ASSUME Stacks, NEW h \in Alive, stack[h] # <<>>
  PROVE  /\ \A f : Goes(h, f) => /\ Keeps(h) /\ Frames(h)' = Outer(h) \cup {f} /\ Outer(h)' = Outer(h)
                                 /\ Top(h)' = f /\ ret'[h] = None
         /\ \A f, g : Pushes(h, f, g) => /\ Keeps(h) /\ Frames(h)' = Outer(h) \cup {f, g}
                                         /\ Outer(h)' = Outer(h) \cup {f} /\ Top(h)' = g /\ ret'[h] = ret[h]
         /\ \A r : Pops(h, r) => /\ Keeps(h) /\ Frames(h)' = Outer(h) /\ Outer(h)' \subseteq Outer(h)
                                 /\ (stack'[h] # <<>> => Top(h)' \in Outer(h)) /\ ret'[h] = r
  BY PopsOuter DEF Goes, Pushes, Pops

LEMMA ElsewhereOwed ==
  ASSUME TypeOK, Shape, Owed, NEW h \in Alive, Elsewhere(h)
  PROVE  KeepsOwed(h) /\ Keeps(h)
  <1>1. stack[h] # <<>> /\ Stacks /\ Top(h).phase \notin Working /\ starts' = starts /\ posts' = posts
    BY TopFacts DEF Elsewhere
  <1>2. \A t : ~Owes(Top(h), t)
    BY <1>1 DEF Owes, Working
  <1>3. /\ \A f \in Outer(h) : f.phase = "post" => posts[f.task] > 0
        /\ \A f \in Outer(h) : f.task \in Task => starts[f.task] > 0
    BY <1>1, StackFacts DEF Owed, PostsCounted, StartsCounted
  <1>4. None \notin Task
    BY ConstantsAssumption
  <1>5. /\ Keeps(h) /\ Outer(h) \subseteq Frames(h)'
        /\ \A f \in Frames(h)' : f \in Outer(h) \/ f.task = None
        /\ \A f \in Outer(h)' : f \in Outer(h) \/ f.phase \notin Working
        /\ stack'[h] # <<>> => Top(h)' \in Outer(h) \/ Top(h)'.phase \notin Working
    <2>1. ASSUME NEW f \in Frame, Goes(h, f), f.phase \notin Working, f.task = None
          PROVE  <1>5!:
      BY <1>1, <2>1, FramesAfter
    <2>2. ASSUME NEW f \in Frame, NEW g \in Frame, Pushes(h, f, g), f.phase \notin Working,
                 g.phase \notin Working, f.task = None, g.task = None
          PROVE  <1>5!:
      BY <1>1, <2>2, FramesAfter
    <2>3. ASSUME NEW r, Pops(h, r)
          PROVE  <1>5!:
      BY <1>1, <2>3, FramesAfter
    <2> QED
      BY <2>1, <2>2, <2>3 DEF Elsewhere
  <1>6. At(h, "post")' /\ ret'[h] # None => posts'[Top(h)'.task] > 0
    BY <1>1, <1>3, <1>5 DEF At, Working
  <1> QED
    BY <1>1, <1>2, <1>3, <1>4, <1>5, <1>6 DEF KeepsOwed, Working

\* The counts after a step of h, which may have tried a teardown step.
Counts(h) ==
  starts' = starts /\ (posts' = posts \/ posts' = [posts EXCEPT ![Top(h).task] = @ + 1])

LEMMA WorkOwed ==
  ASSUME TypeOK, Shape, Owed, NEW h \in Alive, stack[h] # <<>>, Top(h).phase \in Working
  PROVE  /\ Stacks /\ Top(h).task \in Task /\ Frames(h) = Outer(h) \cup {Top(h)}
         /\ \A f \in Outer(h) : (f.phase = "post" => f.task \in Task /\ posts[f.task] > 0)
                                /\ (f.task \in Task => starts[f.task] > 0)
         /\ starts[Top(h).task] > 0 /\ None \notin Task
         /\ Counts(h) => /\ \A t \in Task : posts[t] > 0 => posts'[t] > 0
                         /\ \A t \in Task : posts'[t] > 0 => posts[t] > 0 \/ starts[t] > 0
                         /\ \A t \in Task : posts'[t] = 0 => posts[t] = 0
  <1>1. Stacks /\ Top(h).task \in Task /\ Frames(h) = Outer(h) \cup {Top(h)}
    BY TopFacts, WorkFacts, StackFacts DEF Working
  <1>2. \A f \in Outer(h) : (f.phase = "post" => f.task \in Task /\ posts[f.task] > 0)
                            /\ (f.task \in Task => starts[f.task] > 0)
    BY <1>1 DEF Owed, PostsCounted, StartsCounted, Shape, Shaped
  <1>3. starts[Top(h).task] > 0
    BY <1>1 DEF Owed, StartsCounted
  <1>4. posts \in [Task -> Nat]
    BY DEF TypeOK
  <1>5. ASSUME Counts(h)
        PROVE  /\ \A t \in Task : posts[t] > 0 => posts'[t] > 0
               /\ \A t \in Task : posts'[t] > 0 => posts[t] > 0 \/ starts[t] > 0
               /\ \A t \in Task : posts'[t] = 0 => posts[t] = 0
    <2>1. CASE posts' = posts
      BY <2>1
    <2>2. CASE posts' = [posts EXCEPT ![Top(h).task] = @ + 1]
      <3>1. posts'[Top(h).task] = posts[Top(h).task] + 1 /\ posts[Top(h).task] \in Nat
        BY <1>1, <1>4, <2>2
      <3>2. \A t \in Task : t # Top(h).task => posts'[t] = posts[t]
        BY <1>4, <2>2
      <3> QED
        BY <1>3, <3>1, <3>2
    <2> QED
      BY <1>5, <2>1, <2>2 DEF Counts
  <1> QED
    BY <1>1, <1>2, <1>3, <1>5, ConstantsAssumption

\* The body of the task goes on, or its teardown begins.
LEMMA BodyOwed ==
  ASSUME TypeOK, Shape, Owed, NEW h \in Alive, stack[h] # <<>>, Top(h).phase \in Working,
         starts' = starts, posts' = posts, NEW g, Goes(h, g), g.task = Top(h).task,
         g.phase = "body" \/ (g.phase = "post" /\ g.at = 1)
  PROVE  KeepsOwed(h) /\ Keeps(h)
  <1>1. Stacks
    BY WorkOwed
  <1>2. Frames(h)' = Outer(h) \cup {g} /\ Outer(h)' = Outer(h) /\ ret'[h] = None /\ Keeps(h)
    BY <1>1, FramesAfter
  <1>3. \A t : Owes(Top(h), t) => Owes(g, t)
    BY DEF Owes
  <1>4. Counts(h)
    BY DEF Counts
  <1> QED
    BY <1>1, <1>2, <1>3, <1>4, WorkOwed DEF KeepsOwed

\* Nothing is owed in the innermost frame any more.
PaidOff(h) == Counts(h) /\ \A t \in Task : Owes(Top(h), t) /\ Post[t] # <<>> => posts'[t] > 0

LEMMA PopOwed ==
  ASSUME TypeOK, Shape, Owed, NEW h \in Alive, stack[h] # <<>>, Top(h).phase \in Working,
         PaidOff(h), NEW r, Pops(h, r)
  PROVE  KeepsOwed(h) /\ Keeps(h)
  <1>1. Stacks /\ Counts(h)
    BY WorkOwed DEF PaidOff
  <1>2. Keeps(h) /\ Frames(h)' = Outer(h) /\ Outer(h)' \subseteq Outer(h) /\ (stack'[h] # <<>> => Top(h)' \in Outer(h))
    BY <1>1, FramesAfter
  <1>3. At(h, "post")' => posts'[Top(h)'.task] > 0
    BY <1>1, <1>2, WorkOwed DEF At
  <1> QED
    BY <1>1, <1>2, <1>3, WorkOwed DEF KeepsOwed, PaidOff, Counts

LEMMA GoOwed ==
  ASSUME TypeOK, Shape, Owed, NEW h \in Alive, stack[h] # <<>>, Top(h).phase \in Working,
         PaidOff(h), NEW g, Goes(h, g), g.task \in {None, Top(h).task}
  PROVE  KeepsOwed(h) /\ Keeps(h)
  <1>1. Stacks /\ Counts(h)
    BY WorkOwed DEF PaidOff
  <1>2. Keeps(h) /\ Frames(h)' = Outer(h) \cup {g} /\ Outer(h)' = Outer(h) /\ ret'[h] = None
    BY <1>1, FramesAfter
  <1> QED
    BY <1>1, <1>2, WorkOwed DEF KeepsOwed, PaidOff, Counts

LEMMA CallOwed ==
  ASSUME TypeOK, Shape, Owed, NEW h \in Alive, stack[h] # <<>>, Top(h).phase \in Working,
         Counts(h), Top(h).phase = "post" => posts'[Top(h).task] > 0,
         NEW g, Pushes(h, Top(h), g), g.task = None, g.phase = "deps"
  PROVE  KeepsOwed(h) /\ Keeps(h)
  <1>1. Stacks
    BY WorkOwed
  <1>2. /\ Keeps(h) /\ Frames(h)' = Outer(h) \cup {Top(h), g} /\ Outer(h)' = Outer(h) \cup {Top(h)}
        /\ Top(h)' = g
    BY <1>1, FramesAfter
  <1>3. ~At(h, "post")'
    BY <1>2 DEF At
  <1> QED
    BY <1>1, <1>2, <1>3, WorkOwed DEF KeepsOwed, Counts

\* A task that has tried all its teardown steps is owed none.
LEMMA DoneOwesNothing ==
  ASSUME TypeOK, Shape, NEW h \in Alive, stack[h] # <<>>, Top(h).phase = "post",
         Top(h).at > Len(Post[Top(h).task]), starts' = starts, posts' = posts
  PROVE  PaidOff(h)
  <1>1. Post[Top(h).task] \in Seq(Step) /\ Len(Post[Top(h).task]) \in Nat
    BY WorkFacts
  <1>2. \A t \in Task : ~(Owes(Top(h), t) /\ Post[t] # <<>>)
    <2> SUFFICES ASSUME Top(h).at = 1, Post[Top(h).task] # <<>> PROVE FALSE
      BY DEF Owes
    <2>1. Len(Post[Top(h).task]) # 0
      BY <1>1, EmptySeq
    <2> QED
      BY <1>1, <2>1
  <1> QED
    BY <1>2 DEF PaidOff, Counts

LEMMA ToreOwed ==
  ASSUME TypeOK, Shape, Owed, NEW h \in Alive, stack[h] # <<>>, Top(h).phase = "post",
         Counts(h), posts'[Top(h).task] > 0, NEW result, Tore(h, result)
  PROVE  KeepsOwed(h) /\ Keeps(h)
  <1>1. PaidOff(h) /\ Top(h).phase \in Working
    BY DEF PaidOff, Owes, Working
  <1>2. ASSUME NEW r, Pops(h, r) PROVE KeepsOwed(h) /\ Keeps(h)
    BY <1>1, <1>2, PopOwed
  <1>3. ASSUME NEW g, Goes(h, g), g.task = Top(h).task PROVE KeepsOwed(h) /\ Keeps(h)
    BY <1>1, <1>3, GoOwed
  <1> QED
    BY <1>2, <1>3 DEF Tore

LEMMA StartOwed ==
  ASSUME TypeOK, Shape, Owed, NEW h \in Alive, NEW t \in Task, StartBody(h, t)
  PROVE  stack[h] # <<>> /\ KeepsOwed(h) /\ Keeps(h)
  <1> DEFINE g == Started(Top(h), t)
  <1>1. Goes(h, g) /\ g.task = t /\ g.phase = "body"
    BY StartBodyGoes
  <1>2. stack[h] # <<>> /\ Top(h).phase = "next" /\ starts' = [starts EXCEPT ![t] = @ + 1] /\ posts' = posts
    BY TakesFacts DEF StartBody, Decides
  <1> HIDE DEF g
  <1>3. Stacks
    BY <1>2, TopFacts
  <1>4. Keeps(h) /\ Frames(h)' = Outer(h) \cup {g} /\ Outer(h)' = Outer(h) /\ ret'[h] = None
    BY <1>1, <1>2, <1>3, FramesAfter
  <1>5. starts \in [Task -> Nat]
    BY DEF TypeOK
  <1>6. starts'[t] > 0 /\ \A u \in Task : (starts[u] > 0 => starts'[u] > 0) /\ (u # t => starts'[u] = starts[u])
    BY <1>2, <1>5
  <1>7. Owes(g, t) /\ \A u : ~Owes(Top(h), u)
    BY <1>1, <1>2 DEF Owes
  <1>8. \A u \in Task : starts'[u] > 0 /\ posts'[u] = 0 /\ Post[u] # <<>> =>
       \/ \E f \in Frames(h)' : Owes(f, u)
       \/ starts[u] > 0 /\ posts[u] = 0 /\ ~(stack[h] # <<>> /\ Owes(Top(h), u)) /\ Outer(h) \subseteq Frames(h)'
    BY <1>2, <1>4, <1>6, <1>7
  <1> QED
    BY <1>1, <1>2, <1>4, <1>6, <1>8 DEF KeepsOwed

LEMMA WorkKeepsOwed ==
  ASSUME TypeOK, Shape, Owed, NEW h \in Alive, Work(h)
  PROVE  stack[h] # <<>> /\ KeepsOwed(h) /\ Keeps(h)
  <1>0. "body" \in Working /\ "post" \in Working
    BY DEF Working
  <1>1. ASSUME NEW t \in Task, StartBody(h, t) PROVE stack[h] # <<>> /\ KeepsOwed(h) /\ Keeps(h)
    BY <1>1, StartOwed
  <1>2. ASSUME BodyCommand(h) PROVE stack[h] # <<>> /\ KeepsOwed(h) /\ Keeps(h)
    BY <1>0, <1>2, BodyCommandGoes, BodyOwed
  <1>3. ASSUME BodyGroupReturns(h) PROVE stack[h] # <<>> /\ KeepsOwed(h) /\ Keeps(h)
    BY <1>0, <1>3, BodyGroupReturnsGoes, BodyOwed
  <1>4. ASSUME EndOfBody(h) PROVE stack[h] # <<>> /\ KeepsOwed(h) /\ Keeps(h)
    <2>1. starts' = starts /\ posts' = posts
      BY <1>4 DEF EndOfBody, history
    <2> QED
      BY <1>0, <1>4, <2>1, EndOfBodyGoes, BodyOwed
  <1>5. ASSUME BodyGroup(h) PROVE stack[h] # <<>> /\ KeepsOwed(h) /\ Keeps(h)
    <2>1. stack[h] # <<>> /\ Top(h).phase = "body" /\ Counts(h)
      BY <1>5, BodyGroupPushes DEF Quiet, history, Counts
    <2>2. PICK g : Pushes(h, Top(h), g) /\ g.task = None /\ g.phase = "deps"
      BY <1>5, BodyGroupPushes
    <2> QED
      BY <1>0, <2>1, <2>2, CallOwed
  <1>6. ASSUME stack[h] # <<>>, Top(h).phase = "post", posts' = [posts EXCEPT ![Top(h).task] = @ + 1]
        PROVE  posts'[Top(h).task] > 0
    <2>1. Top(h).task \in Task /\ posts \in [Task -> Nat]
      BY <1>6, WorkFacts DEF TypeOK
    <2> QED
      BY <1>6, <2>1
  <1>7. ASSUME PostCommand(h) PROVE stack[h] # <<>> /\ KeepsOwed(h) /\ Keeps(h)
    <2>1. /\ stack[h] # <<>> /\ Top(h).phase = "post" /\ Counts(h) /\ posts'[Top(h).task] > 0
          /\ \E code : Tore(h, code)
      BY <1>6, <1>7, PostCommandMoves DEF Counts
    <2> QED
      BY <2>1, ToreOwed
  <1>8. ASSUME PostGroup(h) PROVE stack[h] # <<>> /\ KeepsOwed(h) /\ Keeps(h)
    <2>1. /\ stack[h] # <<>> /\ Top(h).phase = "post" /\ Counts(h) /\ posts'[Top(h).task] > 0
      BY <1>6, <1>8, PostGroupPushes DEF Counts
    <2>2. PICK g : Pushes(h, Top(h), g) /\ g.task = None /\ g.phase = "deps"
      BY <1>8, PostGroupPushes
    <2> QED
      BY <1>0, <2>1, <2>2, CallOwed
  <1>9. ASSUME PostGroupReturns(h) PROVE stack[h] # <<>> /\ KeepsOwed(h) /\ Keeps(h)
    <2>1. stack[h] # <<>> /\ Top(h).phase = "post" /\ Counts(h) /\ posts' = posts /\ Tore(h, ret[h])
      BY <1>9, PostGroupReturnsMoves DEF Counts
    <2>2. posts[Top(h).task] > 0
      BY <1>9 DEF PostGroupReturns, Returned, Owed, PostsCounted
    <2> QED
      BY <2>1, <2>2, ToreOwed
  <1>10. ASSUME EndWithError(h) PROVE stack[h] # <<>> /\ KeepsOwed(h) /\ Keeps(h)
    <2>1. /\ stack[h] # <<>> /\ Top(h).phase = "post" /\ Pops(h, Top(h).code)
          /\ starts' = starts /\ posts' = posts
      BY <1>10, EndsQuit DEF Quits, Quiet, history
    <2>2. Top(h).at > Len(Post[Top(h).task])
      BY <1>10 DEF EndWithError, TeardownDone
    <2> QED
      BY <1>0, <2>1, <2>2, DoneOwesNothing, PopOwed
  <1>11. ASSUME EndWithFailure(h) PROVE stack[h] # <<>> /\ KeepsOwed(h) /\ Keeps(h)
    <2>1. /\ stack[h] # <<>> /\ Top(h).phase = "post" /\ Pops(h, "failed")
          /\ starts' = starts /\ posts' = posts /\ Top(h).at > Len(Post[Top(h).task])
      BY <1>11, EndWithFailureQuits DEF Quits, history
    <2> QED
      BY <1>0, <2>1, DoneOwesNothing, PopOwed
  <1>12. ASSUME EndWithSuccess(h) PROVE stack[h] # <<>> /\ KeepsOwed(h) /\ Keeps(h)
    <2>1. stack[h] # <<>> /\ Top(h).phase = "post" /\ starts' = starts /\ posts' = posts
          /\ Top(h).at > Len(Post[Top(h).task])
      BY <1>12 DEF EndWithSuccess, TeardownDone, Ready, At
    <2>2. \E g : Goes(h, g) /\ g.task = None
      BY <1>12, EndWithSuccessGoes
    <2> QED
      BY <1>0, <2>1, <2>2, DoneOwesNothing, GoOwed
  <1>13. ASSUME RecordFails(h) PROVE stack[h] # <<>> /\ KeepsOwed(h) /\ Keeps(h)
    <2>1. /\ stack[h] # <<>> /\ Top(h).phase = "post" /\ Pops(h, "error")
          /\ starts' = starts /\ posts' = posts /\ Top(h).at > Len(Post[Top(h).task])
      BY <1>13, RecordFailsQuits DEF Quits
    <2> QED
      BY <1>0, <2>1, DoneOwesNothing, PopOwed
  <1> QED
    BY <1>1, <1>2, <1>3, <1>4, <1>5, <1>7, <1>8, <1>9, <1>10, <1>11, <1>12, <1>13 DEF Work

-----------------------------------------------------------------------------

LEMMA PlainOwed ==
  ASSUME Threads, Owed, NEW h \in Alive, Plain(h)
  PROVE  Owed'
  <1>1. TypeOK /\ Shape
    BY DEF Threads
  <1>2. UNCHANGED plan
    BY <1>1, PlainDoes DEF Steps, Changes
  <1>3. stack[h] # <<>> /\ Keeps(h) /\ KeepsOwed(h)
    BY <1>1, PlainKinds, ElsewhereOwed, WorkKeepsOwed DEF Elsewhere
  <1> QED
    BY <1>1, <1>2, <1>3, OwedByThread

LEMMA ForkOwed ==
  ASSUME Threads, Owed, NEW h \in Alive, Fork(h)
  PROVE  Owed'
  <1>1. TypeOK /\ Shape /\ Tree /\ ForkMoves(h) /\ UNCHANGED <<plan, starts, posts>>
    BY ForkDoes, ForkRest DEF Threads, history
  <1>2. /\ stack[h] # <<>> /\ Top(h).phase = "fork" /\ ret[h] = None /\ Joining(h).phase = "join"
        /\ Joining(h).task = Top(h).task /\ Shaped(Top(h)) /\ Stacks
    BY <1>1, ForkFrame, TopFacts
  <1>3. /\ Alive' = Alive \cup Forked(h)
        /\ \A g \in Alive \ {h} : stack'[g] = stack[g] /\ ret'[g] = ret[g] /\ Frames(g)' = Frames(g)
        /\ ret'[h] = None /\ Outer(h)' = Outer(h) /\ Frames(h)' = Outer(h) \cup {Joining(h)}
        /\ \A w \in Forked(h) : /\ stack'[w] = <<TaskFrame(Top(h).order, Last(w))>> /\ ret'[w] = None
                                /\ Frames(w)' = {TaskFrame(Top(h).order, Last(w))}
    BY <1>1 DEF ForkMoves
  <1>4. Frames(h) = Outer(h) \cup {Top(h)} /\ None \notin Task
    BY <1>2, StackFacts, ConstantsAssumption
  <1>5. \A w \in Forked(h) : \A f \in Frames(w)' : f.task = None /\ f.phase = "next"
    BY <1>1, <1>3, ForkedFrame
  <1>6. Top(h).task = None
    BY <1>2 DEF Shaped
  <1>7. StartsCounted'
    <2>1. \A f \in Frames(h)' : f.task \in Task => starts[f.task] > 0
      BY <1>2, <1>3, <1>4, <1>6 DEF Owed, StartsCounted
    <2> QED
      BY <1>1, <1>3, <1>4, <1>5, <2>1 DEF Owed, StartsCounted
  <1>8. ASSUME NEW g \in Alive' PROVE PostsCounted(g)'
    <2>1. CASE g = h
      BY <1>1, <1>2, <1>3, <2>1 DEF Owed, PostsCounted
    <2>2. CASE g \in Alive \ {h}
      BY <1>1, <1>3, <2>2 DEF Owed, PostsCounted, Outer, Top, At
    <2>3. CASE g \in Forked(h)
      <3>1. ret'[g] = None /\ \E f : stack'[g] = <<f>>
        BY <1>3, <2>3
      <3>2. Outer(g)' = {}
        <4>1. PICK f : stack'[g] = <<f>>
          BY <3>1
        <4>2. Len(<<f>>) - 1 = 0 /\ 1..0 = {}
          OBVIOUS
        <4> QED
          BY <4>1, <4>2 DEF Outer
      <3> QED
        BY <3>1, <3>2 DEF PostsCounted
    <2> QED
      BY <1>3, <2>1, <2>2, <2>3
  <1>9. TeardownOwed'
    <2> SUFFICES ASSUME NEW t \in Task, starts[t] > 0, posts[t] = 0, Post[t] # <<>>
                 PROVE  \E g \in Alive' : \E f \in Frames(g)' : Owes(f, t)
      BY <1>1 DEF TeardownOwed, Post, Owes
    <2>1. PICK g \in Alive : \E f \in Frames(g) : Owes(f, t)
      BY DEF Owed, TeardownOwed
    <2>2. ~Owes(Top(h), t)
      BY <1>2 DEF Owes
    <2> QED
      BY <1>3, <1>4, <2>1, <2>2
  <1> QED
    BY <1>7, <1>8, <1>9 DEF Owed

LEMMA JoinOwed ==
  ASSUME Threads, Owed, NEW h \in Alive, Join(h)
  PROVE  Owed'
  <1>1. TypeOK /\ Shape /\ Tree /\ JoinMoves(h)
    BY JoinDoes DEF Threads
  <1>2. /\ stack[h] # <<>> /\ Top(h).phase = "join" /\ ret[h] = None /\ Joined(h).phase = "fork"
        /\ Joined(h).task = Top(h).task /\ Shaped(Top(h)) /\ Stacks
        /\ \A w \in Workers(h) : stack[w] = <<>>
    BY <1>1, JoinFrame, TopFacts
  <1>3. /\ Alive' = Alive \ Workers(h) /\ h \in Alive'
        /\ \A g \in Alive' \ {h} : stack'[g] = stack[g] /\ ret'[g] = ret[g] /\ Frames(g)' = Frames(g)
        /\ ret'[h] = None /\ Outer(h)' = Outer(h) /\ Frames(h)' = Outer(h) \cup {Joined(h)}
    BY <1>1 DEF JoinMoves
  <1>4. UNCHANGED <<plan, starts, posts>>
    BY <1>1, <1>3, JoinRest DEF history
  <1>5. Frames(h) = Outer(h) \cup {Top(h)} /\ None \notin Task
    BY <1>2, StackFacts, ConstantsAssumption
  <1>6. Top(h).task = None
    BY <1>2 DEF Shaped
  <1>7. \A w \in Workers(h) : Frames(w) = {}
    BY <1>2, StackFacts DEF Workers
  <1>8. StartsCounted'
    <2>1. \A f \in Frames(h)' : f.task \in Task => starts[f.task] > 0
      BY <1>2, <1>3, <1>5, <1>6 DEF Owed, StartsCounted
    <2> QED
      BY <1>3, <1>4, <2>1 DEF Owed, StartsCounted
  <1>9. ASSUME NEW g \in Alive' PROVE PostsCounted(g)'
    <2>1. CASE g = h
      BY <1>2, <1>3, <1>4, <2>1 DEF Owed, PostsCounted
    <2>2. CASE g # h
      BY <1>3, <1>4, <2>2 DEF Owed, PostsCounted, Outer, Top, At
    <2> QED
      BY <2>1, <2>2
  <1>10. TeardownOwed'
    <2> SUFFICES ASSUME NEW t \in Task, starts[t] > 0, posts[t] = 0, Post[t] # <<>>
                 PROVE  \E g \in Alive' : \E f \in Frames(g)' : Owes(f, t)
      BY <1>4 DEF TeardownOwed, Post, Owes
    <2>1. PICK g \in Alive : \E f \in Frames(g) : Owes(f, t)
      BY DEF Owed, TeardownOwed
    <2>2. ~Owes(Top(h), t) /\ g \notin Workers(h)
      BY <1>2, <1>7, <2>1 DEF Owes
    <2> QED
      BY <1>3, <1>5, <2>1, <2>2
  <1> QED
    BY <1>8, <1>9, <1>10 DEF Owed

\* A step that leaves the stacks and the counts alone.
LEMMA OwedKept ==
  ASSUME Owed, UNCHANGED <<plan, stack, starts, posts>>, ret' = ret \/ \A h \in Alive : stack[h] = <<>>
  PROVE  Owed'
  <1>1. Alive' = Alive /\ \A h \in Alive : Frames(h)' = Frames(h) /\ Outer(h)' = Outer(h) /\ Top(h)' = Top(h)
    BY DEF Alive, Frames, Outer, Top
  <1>2. StartsCounted'
    BY <1>1 DEF Owed, StartsCounted
  <1>3. \A h \in Alive' : PostsCounted(h)'
    BY <1>1 DEF Owed, PostsCounted, At
  <1>4. TeardownOwed'
    BY <1>1 DEF Owed, TeardownOwed, Post, Owes
  <1> QED
    BY <1>2, <1>3, <1>4 DEF Owed

LEMMA OwedStep ==
  ASSUME Threads, Owed, [Next]_vars
  PROVE  Owed'
  <1>1. ASSUME NEW h \in Alive, ThreadStep(h) PROVE Owed'
    BY <1>1, StepKinds, PlainOwed, ForkOwed, JoinOwed
  <1>2. CASE Invoke
    <2>1. /\ Alive' = {Main} /\ Frames(Main)' = {FirstFrame} /\ ret'[Main] = None
          /\ stack'[Main] = <<FirstFrame>> /\ FirstFrame.task = None
          /\ starts' = [t \in Task |-> 0] /\ posts' = [t \in Task |-> 0]
      BY <1>2, InvokeMoves DEF Threads
    <2>2. Outer(Main)' = {}
      <3>1. PICK f : f = FirstFrame
        OBVIOUS
      <3>2. Len(<<f>>) - 1 = 0 /\ 1..0 = {} /\ stack'[Main] = <<f>>
        BY <2>1, <3>1
      <3> QED
        BY <3>2 DEF Outer
    <2>3. None \notin Task
      BY ConstantsAssumption
    <2>4. StartsCounted'
      BY <2>1, <2>3 DEF StartsCounted
    <2>5. \A h \in Alive' : PostsCounted(h)'
      BY <2>1, <2>2 DEF PostsCounted
    <2>6. TeardownOwed'
      BY <2>1 DEF TeardownOwed
    <2> QED
      BY <2>4, <2>5, <2>6 DEF Owed
  <1>3. CASE Finish
    <2>1. \A h \in Alive : stack[h] = <<>>
      BY <1>3, MainAlone DEF Threads, Finish, Ended
    <2> QED
      BY <1>3, <2>1, OwedKept DEF Finish, history
  <1>4. ASSUME NEW t \in Task, Edit(t) PROVE Owed'
    BY <1>4, OwedKept DEF Edit, threads, history
  <1>5. CASE UNCHANGED vars
    BY <1>5, OwedKept DEF vars, threads, history
  <1> QED
    BY <1>1, <1>2, <1>3, <1>4, <1>5 DEF Next

LEMMA OwedInit ==
  ASSUME Init
  PROVE  Owed
  <1>1. Alive = {Main} /\ stack[Main] = <<>> /\ ret[Main] = None
    BY DEF Init, JustMain, Alive
  <1>2. Frames(Main) = {} /\ Outer(Main) = {}
    <2>1. 1..Len(<<>>) = {} /\ 1..(Len(<<>>) - 1) = {}
      OBVIOUS
    <2> QED
      BY <1>1, <2>1 DEF Frames, Outer
  <1> QED
    BY <1>1, <1>2 DEF Owed, StartsCounted, PostsCounted, TeardownOwed, Init

\* TeardownFollowsBody holds in every reachable state.
THEOREM TeardownsFollow == Spec => []TeardownFollowsBody
  <1>1. ASSUME Threads, Owed PROVE TeardownFollowsBody
    <2> SUFFICES ASSUME Ended, NEW t \in Task, Post[t] # <<>> PROVE posts[t] > 0 <=> starts[t] > 0
      BY DEF TeardownFollowsBody
    <2>1. Alive = {Main} /\ Frames(Main) = {}
      <3>1. stack[Main] = <<>> /\ Main \in Alive /\ Stacks
        BY <1>1 DEF Ended, Threads, TypeOK, Stacks
      <3> QED
        BY <1>1, <3>1, MainAlone, StackFacts DEF Threads
    <2>2. posts[t] > 0 => starts[t] > 0
      BY <1>1 DEF Owed, StartsCounted
    <2>3. starts[t] > 0 => posts[t] # 0
      BY <1>1, <2>1 DEF Owed, TeardownOwed
    <2>4. posts[t] \in Nat
      BY <1>1 DEF Threads, TypeOK
    <2> QED
      BY <2>2, <2>3, <2>4
  <1> QED
    BY <1>1, ThreadsInit, ThreadsStep, OwedInit, OwedStep, PTL DEF Spec

-----------------------------------------------------------------------------
(* The tasks whose bodies or teardowns are being run *)

\* No frame of h takes up a task in this step.
SameTasks(h) ==
  \/ \E f : Goes(h, f) /\ f.task \in {None, Top(h).task}
  \/ \E f, g : Pushes(h, f, g) /\ f.task \in {None, Top(h).task} /\ g.task = None
  \/ \E r : Pops(h, r)

LEMMA WorkTasks ==
  ASSUME TypeOK, Shape, NEW h \in Alive, Work(h)
  PROVE  stack[h] # <<>> /\ Top(h).phase # "join" /\ (SameTasks(h) \/ \E t \in Task : StartBody(h, t))
  <1>1. ASSUME NEW g, Goes(h, g), g.task \in {None, Top(h).task} PROVE SameTasks(h)
    BY <1>1 DEF SameTasks
  <1>2. ASSUME NEW g, Pushes(h, Top(h), g), g.task = None PROVE SameTasks(h)
    BY <1>2 DEF SameTasks
  <1>3. ASSUME NEW r, Pops(h, r) PROVE SameTasks(h)
    BY <1>3 DEF SameTasks
  <1>4. ASSUME NEW result, Tore(h, result) PROVE SameTasks(h)
    BY <1>1, <1>3, <1>4 DEF Tore
  <1>5. ASSUME NEW t \in Task, StartBody(h, t) PROVE stack[h] # <<>> /\ Top(h).phase # "join"
    BY <1>5, TakesFacts DEF StartBody, Decides
  <1>6. CASE BodyCommand(h)
    BY <1>1, <1>6, BodyCommandGoes
  <1>7. CASE BodyGroup(h)
    BY <1>2, <1>7, BodyGroupPushes
  <1>8. CASE BodyGroupReturns(h)
    BY <1>1, <1>8, BodyGroupReturnsGoes
  <1>9. CASE EndOfBody(h)
    BY <1>1, <1>9, EndOfBodyGoes
  <1>10. CASE PostCommand(h)
    BY <1>4, <1>10, PostCommandMoves
  <1>11. CASE PostGroup(h)
    BY <1>2, <1>11, PostGroupPushes
  <1>12. CASE PostGroupReturns(h)
    BY <1>4, <1>12, PostGroupReturnsMoves
  <1>13. CASE EndWithError(h)
    BY <1>3, <1>13, EndsQuit DEF Quits
  <1>14. CASE EndWithFailure(h)
    BY <1>3, <1>14, EndWithFailureQuits DEF Quits
  <1>15. CASE EndWithSuccess(h)
    BY <1>1, <1>15, EndWithSuccessGoes
  <1>16. CASE RecordFails(h)
    BY <1>3, <1>16, RecordFailsQuits DEF Quits
  <1> QED
    BY <1>5, <1>6, <1>7, <1>8, <1>9, <1>10, <1>11, <1>12, <1>13, <1>14, <1>15, <1>16 DEF Work

LEMMA PlainTasks ==
  ASSUME Threads, NEW h \in Alive, Plain(h)
  PROVE  stack[h] # <<>> /\ Top(h).phase # "join" /\ (SameTasks(h) \/ \E t \in Task : StartBody(h, t))
  <1>1. CASE Elsewhere(h)
    BY <1>1 DEF Elsewhere, SameTasks
  <1> QED
    BY <1>1, PlainKinds, WorkTasks DEF Threads

LEMMA SameTasksFrames ==
  ASSUME Threads, NEW h \in Alive, stack[h] # <<>>, SameTasks(h)
  PROVE  Keeps(h) /\ \A f \in Frames(h)' : f.task \in Task => \E g \in Frames(h) : g.task = f.task
  <1>1. Stacks /\ Frames(h) = Outer(h) \cup {Top(h)} /\ None \notin Task
    BY StackFacts, TopFacts, ConstantsAssumption DEF Threads
  <1>2. CASE \E f : Goes(h, f) /\ f.task \in {None, Top(h).task}
    BY <1>1, <1>2 DEF Goes
  <1>3. CASE \E f, g : Pushes(h, f, g) /\ f.task \in {None, Top(h).task} /\ g.task = None
    BY <1>1, <1>3 DEF Pushes
  <1>4. CASE \E r : Pops(h, r)
    BY <1>1, <1>4 DEF Pops
  <1> QED
    BY <1>2, <1>3, <1>4 DEF SameTasks

-----------------------------------------------------------------------------
(* The freshness records *)

\* A version that is recorded, in a thread or in the file, is one with which a run ended well.
Recorded ==
  /\ \A h \in Alive, t \in Task : record[h][t] # None => record[h][t] \in good[t]
  /\ \A t \in Task : disk[t] # None => disk[t] \in good[t]

LEMMA PlainRecords ==
  ASSUME Threads, NEW h \in Alive, Plain(h)
  PROVE  /\ UNCHANGED <<disk, plan, source, runs>>
         /\ \/ UNCHANGED <<record, good, kept>>
            \/ (\E t \in Task : SkipFresh(h, t)) /\ UNCHANGED <<record, good>>
            \/ EndWithSuccess(h)
  <1>1. TypeOK /\ Shape
    BY DEF Threads
  <1>2. UNCHANGED <<disk, plan, source, runs>>
    BY <1>1, PlainDoes DEF Steps, Changes
  <1>3. CASE Elsewhere(h)
    BY <1>2, <1>3 DEF Elsewhere
  <1>4. CASE \E t \in Task : StartBody(h, t)
    BY <1>2, <1>4 DEF StartBody
  <1>5. CASE EndWithSuccess(h)
    BY <1>2, <1>5
  <1>6. CASE BodyCommand(h) \/ BodyGroup(h) \/ BodyGroupReturns(h) \/ EndOfBody(h)
    BY <1>2, <1>6 DEF BodyCommand, BodyGroup, BodyGroupReturns, EndOfBody, history
  <1>7. CASE PostCommand(h) \/ PostGroup(h) \/ PostGroupReturns(h)
    BY <1>2, <1>7 DEF PostCommand, PostGroup, PostGroupReturns
  <1>8. CASE EndWithError(h) \/ EndWithFailure(h) \/ RecordFails(h)
    BY <1>2, <1>8 DEF EndWithError, EndWithFailure, RecordFails, history
  <1> QED
    BY <1>1, <1>2, <1>3, <1>4, <1>5, <1>6, <1>7, <1>8, PlainKinds DEF Work

LEMMA PlainRecorded ==
  ASSUME Threads, Recorded, NEW h \in Alive, Plain(h)
  PROVE  Recorded'
  <1>1. /\ stack[h] # <<>> /\ Alive' = Alive /\ UNCHANGED <<disk, source>>
        /\ record \in [Alive -> Records] /\ good \in [Task -> SUBSET Version]
    <2>1. Keeps(h) /\ stack[h] # <<>>
      BY PlainDoes, MovesKeeps DEF Threads, Steps
    <2> QED
      BY <2>1, PlainRecords DEF Threads, TypeOK, Keeps
  <1>2. CASE UNCHANGED <<record, good>>
    BY <1>1, <1>2 DEF Recorded
  <1>3. CASE EndWithSuccess(h)
    <2>1. stack[h] # <<>> /\ Top(h).phase = "post" /\ Top(h).task \in Task /\ Top(h) \in Frames(h)
      BY <1>3, EndWithSuccessGoes, WorkFacts, TopFacts DEF Threads
    <2>2. PICK t \in Task : t = Top(h).task
      BY <2>1
    <2>3. /\ record' = IF t \in Sources THEN [record EXCEPT ![h][t] = source[t]] ELSE record
          /\ good' = [good EXCEPT ![t] = @ \cup {source[t]}]
      BY <1>3, <2>2 DEF EndWithSuccess
    <2>5. good'[t] = good[t] \cup {source[t]} /\ \A u \in Task : u # t => good'[u] = good[u]
      BY <1>1, <2>3
    <2>6. \A u \in Task : good[u] \subseteq good'[u]
      BY <2>5
    <2>7. ASSUME NEW g \in Alive, NEW u \in Task, record'[g][u] # None PROVE record'[g][u] \in good'[u]
      <3>1. CASE record'[g][u] = record[g][u]
        BY <2>6, <2>7, <3>1 DEF Recorded
      <3>2. CASE record'[g][u] # record[g][u]
        <4>1. record' = [record EXCEPT ![h] = [record[h] EXCEPT ![t] = source[t]]]
          BY <2>3, <3>2
        <4>2. g = h /\ record'[h] = [record[h] EXCEPT ![t] = source[t]]
          BY <1>1, <3>2, <4>1
        <4>3. u = t /\ record'[h][t] = source[t]
          BY <1>1, <3>2, <4>2 DEF Records
        <4> QED
          BY <2>5, <4>2, <4>3
      <3> QED
        BY <3>1, <3>2
    <2> QED
      BY <1>1, <2>6, <2>7 DEF Recorded
  <1> QED
    BY <1>2, <1>3, PlainRecords

LEMMA RecordedStep ==
  ASSUME Threads, Recorded, [Next]_vars
  PROVE  Recorded'
  <1>1. ASSUME NEW h \in Alive, Fork(h) PROVE Recorded'
    <2>1. ForkMoves(h) /\ UNCHANGED <<disk, plan, source, runs, history>>
      BY <1>1, ForkDoes, ForkRest DEF Threads
    <2>2. \A g \in Alive' : \E k \in Alive : record'[g] = record[k]
      BY <2>1 DEF ForkMoves
    <2> QED
      BY <2>1, <2>2 DEF Recorded, history
  <1>2. ASSUME NEW h \in Alive, Join(h) PROVE Recorded'
    <2>1. TypeOK /\ Shape /\ Tree /\ JoinMoves(h)
      BY <1>2, JoinDoes DEF Threads
    <2>2. UNCHANGED <<disk, plan, source, runs, history>>
      BY <1>2, <2>1, JoinRest DEF JoinMoves
    <2>3. \A g \in Alive', t \in Task : \E k \in Alive : record'[g][t] = record[k][t]
      BY <2>1, OwnerFacts DEF JoinMoves
    <2> QED
      BY <2>2, <2>3 DEF Recorded, history
  <1>3. CASE Invoke
    <2>1. /\ Alive' = {Main} /\ record' = [h \in {Main} |-> disk] /\ UNCHANGED <<disk, good>>
      BY <1>3, InvokeMoves DEF Threads
    <2> QED
      BY <2>1 DEF Recorded
  <1>4. CASE Finish
    <2>1. Alive' = Alive /\ disk' \in {disk, record[Main]} /\ UNCHANGED <<record, history>> /\ Main \in Alive
      BY <1>4 DEF Finish, Alive, Threads, TypeOK
    <2> QED
      BY <2>1 DEF Recorded, history
  <1>5. ASSUME NEW t \in Task, Edit(t) PROVE Recorded'
    BY <1>5 DEF Edit, threads, Recorded, history, Alive
  <1>6. CASE UNCHANGED vars
    BY <1>6 DEF Recorded, vars, threads, history, Alive
  <1> QED
    BY <1>1, <1>2, <1>3, <1>4, <1>5, <1>6, StepKinds, PlainRecorded DEF Next

LEMMA RecordedInit ==
  ASSUME Init
  PROVE  Recorded
  <1>1. Alive = {Main} /\ stack[Main] = <<>> /\ record[Main] = NoRecord /\ disk = NoRecord
    BY DEF Init, JustMain, Alive
  <1> QED
    BY <1>1 DEF Recorded, NoRecord

\* SkippedIsCurrent holds in every behaviour, whenever sources are edited.
THEOREM SkipsAreCurrent == Spec => SkippedIsCurrent
  <1>1. ASSUME Threads, Recorded, NEW h \in Alive, NEW t \in Task, SkipFresh(h, t)
        PROVE  source[t] \in good[t]
    <2>1. record[h][t] = source[t] /\ source[t] \in Nat
      BY <1>1 DEF SkipFresh, Fresh, Threads, TypeOK, Version
    <2> QED
      BY <1>1, <2>1, ConstantsAssumption DEF Recorded
  <1>2. ASSUME Threads, Recorded, [Next]_vars
        PROVE  [\A h \in Alive, t \in Task : SkipFresh(h, t) => source[t] \in good[t]]_vars
    BY <1>1, <1>2
  <1>3. ASSUME Threads, Recorded, [Next]_vars PROVE Recorded'
    BY <1>3, RecordedStep
  <1> QED
    BY <1>2, <1>3, ThreadsInit, ThreadsStep, RecordedInit, PTL DEF Spec, SkippedIsCurrent

=============================================================================
