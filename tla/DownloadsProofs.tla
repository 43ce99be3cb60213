-------------------------- MODULE DownloadsProofs --------------------------
(***************************************************************************)
(* Proofs about Download and DownloadCache.                                *)
(*                                                                         *)
(* A download: whatever attempts fail, stall or are killed, and however    *)
(* often servers change their objects, a delivered file is one whole       *)
(* object, unless it continues bytes that a run left under the metadata of *)
(* another response.                                                       *)
(*                                                                         *)
(* The cache, for any number of artifacts, sessions, collectors and kills: *)
(* the lease keeps collections and sessions apart, so that nothing in use  *)
(* is deleted and nothing is left unregistered; a collection takes what it *)
(* must and no more, and leaves a failed transfer that is recent.          *)
(***************************************************************************)
EXTENDS Download, DownloadCache, FiniteSetTheorems, WellFoundedInduction, TLAPS

-----------------------------------------------------------------------------
(* One download *)

USE ConstantsAssumption

\* What a failed attempt leaves in memory, whether or not it is tried again.
LEMMA AfterFailure ==
  ASSUME TypeOK, RetryOrReturn \/ Return
  PROVE  /\ pc' \in {"idle", "inspect"} /\ attempt' \in 0..MaxAttempts
         /\ offset' = 0 /\ body' = None /\ stalled' \in BOOLEAN
  <1>1. /\ pc' \in {"idle", "inspect"} /\ attempt' \in 0..MaxAttempts
        /\ offset' = 0 /\ body' = None /\ stalled' = FALSE
    <2>1. CASE Return
      BY <2>1 DEF Return
    <2>2. CASE RetryOrReturn /\ attempt < MaxAttempts
      BY <2>2 DEF RetryOrReturn, TypeOK
    <2>3. CASE RetryOrReturn /\ ~(attempt < MaxAttempts)
      BY <2>1, <2>3 DEF RetryOrReturn
    <2> QED
      BY <2>1, <2>2, <2>3
  <1>2. stalled' \in BOOLEAN
    BY <1>1, Zenon
  <1> QED
    BY <1>1, <1>2

LEMMA TypeStep == TypeOK /\ ResponseFits /\ [Next]_vars => TypeOK'
  <1> SUFFICES ASSUME TypeOK, ResponseFits, [Next]_vars PROVE TypeOK'
    OBVIOUS
  <1>0. Replaced => spoilt' \in SUBSET {"partial", "dest"}
    BY DEF Replaced, TypeOK
  <1> USE DEF TypeOK, Steps, disk, Goto
  <1>1. CASE UNCHANGED vars
    BY <1>1 DEF vars
  <1>2. ASSUME NEW u \in Url, Call(u) PROVE TypeOK'
    BY <1>2 DEF Call
  <1>3. CASE Inspect
    <2>1. spoilt' \in SUBSET {"partial", "dest"}
      BY <1>0, <1>3 DEF Inspect
    <2>2. partial' \in File \cup {None}
      BY <1>3 DEF Inspect, Length, File
    <2> QED
      BY <1>3, <2>1, <2>2 DEF Inspect, Length, File
  <1>4. CASE AnswerWhole
    BY <1>4 DEF AnswerWhole, Answer, Response, Object
  <1>5. CASE AnswerRange
    BY <1>5 DEF AnswerRange, Answer, Response, Object
  <1>6. CASE AnswerUnusable
    BY <1>0, <1>6 DEF AnswerUnusable
  <1>7. CASE RequestFails \/ Interrupt \/ Refuse
    <2>1. /\ pc' \in {"idle", "inspect"} /\ attempt' \in 0..MaxAttempts
          /\ offset' = 0 /\ body' = None /\ stalled' \in BOOLEAN
      BY <1>7, AfterFailure DEF RequestFails, Interrupt, Refuse
    <2>2. UNCHANGED <<dest, partial, meta, served, url, calls, kills, spoilt>>
      BY <1>7 DEF RequestFails, Interrupt, Refuse
    <2> QED
      BY <2>1, <2>2
  <1>8. CASE Describe
    <2>1. meta' \in Metadata
      <3>1. body \in Response
        BY <1>8 DEF Describe, ResponseFits
      <3>2. body.object[2] \in 0..MaxGen
        BY <3>1 DEF Response, Object
      <3> QED
        BY <1>8, <3>2 DEF Describe, Metadata
    <2> QED
      BY <1>8, <2>1 DEF Describe
  <1>9. CASE Open
    <2>1. spoilt' \in SUBSET {"partial", "dest"}
      BY <1>0, <1>9 DEF Open
    <2>2. partial' \in File \cup {None}
      BY <1>9 DEF Open, File
    <2> QED
      BY <1>9, <2>1, <2>2 DEF Open, File
  <1>10. CASE Chunk
    <2>1. partial \in File /\ body \in Response
      BY <1>10 DEF Chunk, ResponseFits
    <2>2. partial' \in File
      BY <1>10, <2>1 DEF Chunk, File, Response
    <2> QED
      BY <1>10, <2>2 DEF Chunk
  <1>11. CASE EndOfBody \/ Rename
    BY <1>11 DEF EndOfBody, Rename
  <1>12. CASE RemoveMetadata \/ Kill
    <2>1. /\ pc' \in {"idle", "inspect"} /\ attempt' \in 0..MaxAttempts
          /\ offset' = 0 /\ body' = None /\ stalled' \in BOOLEAN
      BY <1>12, AfterFailure DEF RemoveMetadata, Kill
    <2>2. UNCHANGED <<dest, partial, served, url, calls>> /\ meta' \in {meta, None}
      BY <1>12 DEF RemoveMetadata, Kill
    <2>3. kills' \in 0..MaxKills
      BY <1>12 DEF RemoveMetadata, Kill
    <2>4. spoilt' = spoilt \/ spoilt' = spoilt \cup {"partial"}
      BY <1>12 DEF RemoveMetadata, Kill
    <2>5. spoilt' \in SUBSET {"partial", "dest"}
      BY <2>4
    <2> QED
      BY <2>1, <2>2, <2>3, <2>5
  <1>13. CASE Discard \/ Stall
    <2>1. spoilt' \in SUBSET {"partial", "dest"}
      BY <1>13 DEF Discard, Stall
    <2> QED
      BY <1>13, <2>1 DEF Discard, Stall
  <1>14. ASSUME NEW u \in Url, Publish(u) PROVE TypeOK'
    BY <1>14 DEF Publish
  <1> QED
    BY <1>1, <1>2, <1>3, <1>4, <1>5, <1>6, <1>7, <1>8, <1>9, <1>10, <1>11, <1>12, <1>13, <1>14
      DEF Next, Step

\* A run that stops, with the disk as it was but for metadata perhaps gone, keeps
\* every part of the invariant that is about a request under way.
LEMMA StopKeeps ==
  ASSUME IInv, pc # "open", pc' \in {"idle", "inspect"}, UNCHANGED <<dest, partial, spoilt>>,
         meta' \in {meta, None}
  PROVE  PartialDescribed' /\ ResponseFits' /\ SomeSource' /\ RequestFits' /\ DeliveredWhole'
  BY DEF IInv, PartialDescribed, ResponseFits, SomeSource, RequestFits, DeliveredWhole, IsWhole, Length

\* The one step at which a run that stops leaves bytes under metadata that is not
\* theirs: it is then that the partial is spoilt.
LEMMA StopAtOpenKeeps ==
  ASSUME IInv, pc = "open", Kill
  PROVE  PartialDescribed' /\ ResponseFits' /\ SomeSource' /\ RequestFits' /\ DeliveredWhole'
  <1> USE DEF Kill, Return
  <1>1. PartialDescribed'
    <2> SUFFICES ASSUME meta # None, Length(partial) > 0, "partial" \notin spoilt', meta.validator # None
                 PROVE  partial.from = {<<meta.url, meta.validator>>}
      BY DEF PartialDescribed, Length
    <2>1. partial.from = {body.object}
      BY DEF Mislabelled
    <2>2. meta.url = body.object[1] /\ meta.validator = body.object[2] /\ body \in Response
      BY DEF IInv, ResponseFits, TypeOK
    <2>3. body.object = <<body.object[1], body.object[2]>>
      BY <2>2 DEF Response, Object
    <2> QED
      BY <2>1, <2>2, <2>3
  <1>2. ResponseFits' /\ RequestFits'
    BY DEF ResponseFits, RequestFits
  <1>3. SomeSource'
    BY DEF IInv, SomeSource
  <1>4. DeliveredWhole'
    <2>1. dest' = dest /\ ("dest" \notin spoilt' => "dest" \notin spoilt)
      OBVIOUS
    <2> QED
      BY <2>1 DEF IInv, DeliveredWhole, IsWhole
  <1> QED
    BY <1>1, <1>2, <1>3, <1>4

LEMMA IInvStep == ASSUME IInv, [Next]_vars PROVE IInv'
  <1>1. TypeOK /\ TypeOK'
    BY TypeStep DEF IInv
  <1> DEFINE Goal == PartialDescribed' /\ ResponseFits' /\ SomeSource' /\ RequestFits' /\ DeliveredWhole'
  <1>0. NothingYet'
    <2>1. CASE RequestFails \/ Interrupt
      BY <1>1, <2>1, AfterFailure DEF RequestFails, Interrupt, NothingYet, IInv, disk
    <2>2. CASE RemoveMetadata \/ Kill \/ Refuse
      BY <2>2 DEF RemoveMetadata, Kill, Refuse, Return, NothingYet
    <2> QED
      BY <2>1, <2>2 DEF NothingYet, IInv, Next, Step, Call, Publish, Inspect, AnswerWhole, AnswerRange,
        AnswerUnusable, Describe, Open, Chunk, EndOfBody, Rename, Discard, Stall, disk, vars, Goto
  <1> SUFFICES Goal
    BY <1>0, <1>1 DEF IInv
  <1> USE DEF disk, Goto, Replaced
  <1>2. CASE UNCHANGED vars
    BY <1>2 DEF vars, IInv, PartialDescribed, ResponseFits, SomeSource, RequestFits, DeliveredWhole, IsWhole, Length, Validator
  <1>3. ASSUME NEW u \in Url, Call(u) PROVE Goal
    BY <1>3, StopKeeps DEF Call, IInv, TypeOK
  <1>4. CASE Inspect
    BY <1>1, <1>4 DEF Inspect, IInv, PartialDescribed, ResponseFits, SomeSource, RequestFits, DeliveredWhole, IsWhole, Length, Validator, TypeOK, File
  <1>5. CASE AnswerWhole
    <2>1. PartialDescribed'
      BY <1>1, <1>5 DEF AnswerWhole, Answer, IInv, PartialDescribed, ResponseFits, SomeSource, Length, TypeOK, File, Response, Object
    <2>2. ResponseFits'
      <3>1. body' \in Response /\ body'.object = <<url, served[url]>> /\ (body'.append <=> FALSE)
        BY <1>1, <1>5 DEF AnswerWhole, Answer, TypeOK, Response, Object
      <3>2. /\ pc' = "describe" /\ body' # None /\ body'.object[1] = url
            /\ UNCHANGED <<partial, meta, url>>
        BY <3>1, <1>5 DEF AnswerWhole
      <3> QED
        BY <3>1, <3>2 DEF ResponseFits
    <2>3. SomeSource'
      BY <1>1, <1>5 DEF AnswerWhole, Answer, IInv, ResponseFits, SomeSource, TypeOK, File
    <2>4. RequestFits' /\ DeliveredWhole'
      BY <1>5 DEF AnswerWhole, Answer, IInv, RequestFits, DeliveredWhole
    <2> QED
      BY <2>1, <2>2, <2>3, <2>4
  <1>6. CASE AnswerRange
    <2>1. PartialDescribed'
      BY <1>1, <1>6 DEF AnswerRange, Answer, Validator, IInv, PartialDescribed, ResponseFits, SomeSource, Length, TypeOK, File, Response, Object
    <2>2. ResponseFits'
      <3>1. body' \in Response /\ body'.object = <<url, served[url]>> /\ (body'.append <=> TRUE)
        BY <1>1, <1>6 DEF AnswerRange, Answer, TypeOK, Response, Object
      <3>2. /\ pc' = "describe" /\ body' # None /\ body'.object[1] = url
            /\ UNCHANGED <<partial, meta, url, spoilt>>
        BY <3>1, <1>6 DEF AnswerRange
      <3>3. partial # None /\ ("partial" \notin spoilt => partial.from = {<<url, served[url]>>})
        BY <1>1, <1>6 DEF AnswerRange, IInv, RequestFits, PartialDescribed, Length, Validator, TypeOK
      <3> QED
        BY <3>1, <3>2, <3>3 DEF ResponseFits
    <2>3. SomeSource'
      BY <1>1, <1>6 DEF AnswerRange, Answer, Validator, IInv, ResponseFits, SomeSource, TypeOK, File
    <2>4. RequestFits' /\ DeliveredWhole'
      BY <1>6 DEF AnswerRange, Answer, Validator, IInv, RequestFits, DeliveredWhole
    <2> QED
      BY <2>1, <2>2, <2>3, <2>4
  <1>7. CASE AnswerUnusable
    BY <1>7 DEF AnswerUnusable, IInv, PartialDescribed, ResponseFits, SomeSource, RequestFits, DeliveredWhole, IsWhole, Length
  <1>8. CASE RequestFails \/ Interrupt \/ Refuse
    BY <1>1, <1>8, AfterFailure, StopKeeps DEF RequestFails, Interrupt, Refuse
  <1>9. CASE Describe
    <2>1. PartialDescribed'
      BY <1>1, <1>9 DEF Describe, IInv, PartialDescribed, ResponseFits, SomeSource, Length, TypeOK, File, Response, Object
    <2>2. ResponseFits'
      <3>1. /\ pc = "describe" /\ pc' = "open" /\ UNCHANGED <<partial, url, body, spoilt>>
            /\ meta' \in Metadata /\ meta'.url = url /\ meta'.validator \in {None, body.object[2]}
        <4>1. body.object[2] \in 0..MaxGen
          BY <1>1, <1>9 DEF Describe, IInv, ResponseFits, TypeOK, Response, Object
        <4> QED
          BY <1>1, <1>9, <4>1 DEF Describe, TypeOK, Metadata
      <3> QED
        BY <3>1 DEF IInv, ResponseFits
    <2>3. SomeSource'
      BY <1>1, <1>9 DEF Describe, IInv, ResponseFits, SomeSource, TypeOK, File
    <2>4. RequestFits' /\ DeliveredWhole'
      BY <1>9 DEF Describe, IInv, RequestFits, DeliveredWhole
    <2> QED
      BY <2>1, <2>2, <2>3, <2>4
  <1>10. CASE Open
    <2>1. PartialDescribed'
      BY <1>1, <1>10 DEF Open, IInv, PartialDescribed, ResponseFits, SomeSource, Length, TypeOK, File, Response, Object
    <2>2. ResponseFits'
      BY <1>1, <1>10 DEF Open, IInv, PartialDescribed, ResponseFits, RequestFits, Length, TypeOK, File, Response, Object
    <2>3. SomeSource'
      BY <1>1, <1>10 DEF Open, IInv, ResponseFits, SomeSource, TypeOK, File
    <2>4. RequestFits' /\ DeliveredWhole'
      BY <1>10 DEF Open, IInv, RequestFits, DeliveredWhole
    <2> QED
      BY <2>1, <2>2, <2>3, <2>4
  <1>11. CASE Chunk
    <2>1. PartialDescribed'
      BY <1>1, <1>11 DEF Chunk, IInv, PartialDescribed, ResponseFits, SomeSource, Length, TypeOK, File, Response, Object
    <2>2. ResponseFits'
      BY <1>1, <1>11 DEF Chunk, IInv, PartialDescribed, ResponseFits, RequestFits, Length, TypeOK, File, Response, Object
    <2>3. SomeSource'
      BY <1>1, <1>11 DEF Chunk, IInv, ResponseFits, SomeSource, TypeOK, File
    <2>4. RequestFits' /\ DeliveredWhole'
      BY <1>11 DEF Chunk, IInv, RequestFits, DeliveredWhole
    <2> QED
      BY <2>1, <2>2, <2>3, <2>4
  <1>12. CASE EndOfBody
    BY <1>12 DEF EndOfBody, IInv, PartialDescribed, ResponseFits, SomeSource, RequestFits, DeliveredWhole, IsWhole, Length
  <1>13. CASE Rename
    BY <1>1, <1>13 DEF Rename, IInv, PartialDescribed, ResponseFits, SomeSource, RequestFits, DeliveredWhole, IsWhole, Length, TypeOK, File, Response
  <1>14. CASE RemoveMetadata
    BY <1>1, <1>14, AfterFailure, StopKeeps DEF RemoveMetadata
  <1>17. CASE Kill
    <2>1. CASE pc = "open"
      BY <1>17, <2>1, StopAtOpenKeeps
    <2>2. CASE pc # "open"
      BY <1>1, <1>17, <2>2, AfterFailure, StopKeeps DEF Kill, Mislabelled
    <2> QED
      BY <2>1, <2>2
  <1>15. CASE Discard \/ Stall
    BY <1>15 DEF Discard, Stall, IInv, PartialDescribed, ResponseFits, SomeSource, RequestFits, DeliveredWhole, IsWhole, Length, Validator
  <1>16. ASSUME NEW u \in Url, Publish(u) PROVE Goal
    BY <1>16 DEF Publish, IInv, PartialDescribed, ResponseFits, SomeSource, RequestFits, DeliveredWhole, IsWhole, Length, Validator
  <1> QED
    BY <1>2, <1>3, <1>4, <1>5, <1>6, <1>7, <1>8, <1>9, <1>10, <1>11, <1>12, <1>13, <1>14, <1>15, <1>16,
       <1>17 DEF Next, Step

LEMMA InitIInv == Init => IInv
  <1>1. Init => TypeOK
    <2>1. Init => stalled \in BOOLEAN
      BY Zenon DEF Init
    <2> QED
      BY <2>1 DEF Init, TypeOK, Steps
  <1> QED
    BY <1>1 DEF Init, IInv, NothingYet, PartialDescribed, ResponseFits, SomeSource, RequestFits, DeliveredWhole

\* A delivered file is one whole object, or was continued from bytes that a run
\* left mislabelled, for any URLs, lengths, numbers of attempts, calls and kills.
THEOREM DeliveredIsWhole == Spec => []DeliveredWhole
  <1>1. IInv /\ [Next]_vars => IInv'
    BY IInvStep
  <1>2. IInv => DeliveredWhole
    BY DEF IInv
  <1> QED
    BY InitIInv, <1>1, <1>2, PTL DEF Spec

\* What the abstract file is when the destination is there, and when it is not.
LEMMA DeliveredValue ==
  /\ dest = None \/ "dest" \in spoilt => Delivered = None
  /\ ~(dest = None \/ "dest" \in spoilt) /\ DeliveredWhole => Delivered \in Object
  BY DEF Delivered, DeliveredWhole, IsWhole, OneOf

\* Every step is the delivery of a whole object, its disposal, or no step of the file.
LEMMA StepRefines ==
  ASSUME IInv, IInv', [Next]_vars
  PROVE  [Whole!Deliver \/ Whole!Discard]_Delivered
  <1>1. CASE UNCHANGED dest /\ ("dest" \in spoilt' <=> "dest" \in spoilt)
    BY <1>1 DEF Delivered, OneOf
  <1>2. CASE Rename
    <2>1. Delivered = None
      BY <1>2, DeliveredValue DEF Rename, Goto, IInv, NothingYet
    <2>2. CASE "dest" \in spoilt'
      BY <2>1, <2>2 DEF Delivered
    <2>3. CASE "dest" \notin spoilt'
      <3>1. dest' # None
        BY <1>2 DEF Rename, Goto, IInv, ResponseFits
      <3>2. Delivered' \in Object
        BY <2>3, <3>1 DEF IInv, Delivered, DeliveredWhole, IsWhole, OneOf
      <3> QED
        BY <2>1, <3>2 DEF Whole!Deliver
    <2> QED
      BY <2>2, <2>3
  <1>3. CASE Discard
    <2>1. Delivered' = None
      BY <1>3 DEF Discard, Delivered
    <2>2. CASE "dest" \in spoilt
      BY <2>1, <2>2, DeliveredValue
    <2>3. CASE "dest" \notin spoilt
      <3>1. Delivered \in Object
        BY <1>3, <2>3, DeliveredValue DEF Discard, IInv
      <3>2. Delivered # None
        BY <3>1
      <3> QED
        BY <2>1, <3>2 DEF Whole!Discard
    <2> QED
      BY <2>2, <2>3
  <1> QED
    BY <1>1, <1>2, <1>3 DEF Next, Step, Call, Publish, Inspect, AnswerWhole, AnswerRange, AnswerUnusable,
       RequestFails, Refuse, Describe, Open, Chunk, Interrupt, EndOfBody, RemoveMetadata, Stall, Kill,
       Replaced, disk, vars

\* The download implements the abstract file: its callers see it appear whole, in
\* one step, for every value of the constants.
THEOREM ImplementsFile == Spec => ImplementsWholeFile
  <1>1. Init => Whole!Init
    BY DEF Init, Whole!Init, Delivered
  <1>2. IInv /\ [Next]_vars => IInv'
    BY IInvStep
  <1>3. IInv /\ IInv' /\ [Next]_vars => [Whole!Deliver \/ Whole!Discard]_Delivered
    BY StepRefines
  <1> QED
    BY InitIInv, <1>1, <1>2, <1>3, PTL DEF Spec, ImplementsWholeFile, Whole!Spec

HIDE ConstantsAssumption

-----------------------------------------------------------------------------
(* Finite sets, and recursion over their subsets *)

LEMMA LeastExists ==
  ASSUME NEW S, S \subseteq Nat, S # {}
  PROVE  \E m \in S : \A n \in S : m <= n
  <1> DEFINE R == OpToRel(<, Nat)
  <1>1. \E m \in S : \A n \in S : ~(<<n, m>> \in R)
    <2>1. IsWellFoundedOn(R, Nat)
      BY NatLessThanWellFounded
    <2> HIDE DEF R
    <2> QED
      BY <2>1, WFMin
  <1>2. PICK m \in S : \A n \in S : ~(<<n, m>> \in R)
    BY <1>1
  <1>3. ASSUME NEW n \in S, n < m PROVE <<n, m>> \in R
    BY <1>3, Zenon DEF OpToRel
  <1> HIDE DEF R
  <1>4. ASSUME NEW n \in S PROVE m <= n
    <2>1. m \in Nat /\ n \in Nat
      OBVIOUS
    <2>2. ~(n < m)
      BY <1>2, <1>3
    <2> QED
      BY <2>1, <2>2
  <1> QED
    BY <1>4

\* The subsets of a finite set, from the empty one up.
LEMMA SubsetInduction ==
  ASSUME NEW M, IsFiniteSet(M), NEW G, {} \in G,
         \A S \in SUBSET M : S # {} /\ (\A x \in S : S \ {x} \in G) => S \in G
  PROVE  \A S \in SUBSET M : S \in G
  <1> SUFFICES ASSUME NEW T \in SUBSET M, T \notin G PROVE FALSE
    OBVIOUS
  <1> DEFINE bad == {S \in SUBSET M : S \notin G}
             sizes == {Cardinality(S) : S \in bad}
  <1>1. \A S \in SUBSET M : IsFiniteSet(S) /\ Cardinality(S) \in Nat
    BY FS_Subset, FS_CardinalityType
  <1>2. sizes \subseteq Nat /\ sizes # {}
    BY <1>1
  <1>3. PICK S \in bad : \A U \in bad : Cardinality(S) <= Cardinality(U)
    <2>1. PICK n \in sizes : \A m \in sizes : n <= m
      <3> HIDE DEF sizes
      <3> QED
        BY <1>2, LeastExists
    <2>2. PICK S \in bad : n = Cardinality(S)
      BY <2>1
    <2>3. \A U \in bad : Cardinality(U) \in sizes
      OBVIOUS
    <2> QED
      BY <2>1, <2>2, <2>3
  <1>4. ASSUME NEW x \in S PROVE S \ {x} \in G
    <2>1. Cardinality(S \ {x}) = Cardinality(S) - 1 /\ S \ {x} \in SUBSET M
      BY <1>1, FS_RemoveElement
    <2>2. ~(Cardinality(S) <= Cardinality(S \ {x}))
      BY <1>1, <2>1
    <2> QED
      BY <1>3, <2>1, <2>2
  <1> QED
    BY <1>3, <1>4

\* g takes the subsets of M apart one element at a time.
Folded(g, M, base, next, pick) ==
  \A S \in SUBSET M : g[S] = IF S = {} THEN base ELSE next[<<g[S \ {pick[S]}], pick[S]>>]

LEMMA FoldExists ==
  ASSUME NEW M, IsFiniteSet(M), NEW T, NEW base \in T, NEW next \in [T \X M -> T],
         NEW pick, \A S \in SUBSET M : S # {} => pick[S] \in S
  PROVE  \E g \in [SUBSET M -> T] : Folded(g, M, base, next, pick)
  <1> DEFINE Value(g, S) == IF S = {} THEN base ELSE next[<<g[S \ {pick[S]}], pick[S]>>]
             Solves(g, n) == \A S \in SUBSET M : Cardinality(S) <= n => g[S] = Value(g, S)
             Solvable == {n \in Nat : \E g \in [SUBSET M -> T] : Solves(g, n)}
  <1>1. \A S \in SUBSET M : IsFiniteSet(S) /\ Cardinality(S) \in Nat /\ Cardinality(S) <= Cardinality(M)
    BY FS_Subset, FS_CardinalityType
  <1>2. ASSUME NEW g \in [SUBSET M -> T], NEW S \in SUBSET M PROVE Value(g, S) \in T
    OBVIOUS
  <1>3. 0 \in Solvable
    <2> DEFINE g == [S \in SUBSET M |-> base]
    <2>1. \A S \in SUBSET M : Cardinality(S) <= 0 => S = {}
      BY <1>1, FS_EmptySet
    <2>2. g \in [SUBSET M -> T] /\ Solves(g, 0)
      BY <2>1
    <2> QED
      BY <2>2
  <1>4. ASSUME NEW n \in Nat, n \in Solvable PROVE n + 1 \in Solvable
    <2>1. PICK f \in [SUBSET M -> T] : Solves(f, n)
      BY <1>4
    <2> DEFINE g == [S \in SUBSET M |-> IF Cardinality(S) <= n THEN f[S] ELSE Value(f, S)]
    <2>2. g \in [SUBSET M -> T]
      BY <1>2
    <2>3. ASSUME NEW S \in SUBSET M, Cardinality(S) <= n + 1 PROVE g[S] = Value(g, S)
      <3>1. g[S] = Value(f, S)
        BY <2>1
      <3>2. CASE S = {}
        BY <3>1, <3>2
      <3>3. CASE S # {}
        <4>1. pick[S] \in S /\ S \ {pick[S]} \in SUBSET M
          BY <3>3
        <4>2. Cardinality(S \ {pick[S]}) = Cardinality(S) - 1
          BY <1>1, <4>1, FS_RemoveElement
        <4>3. Cardinality(S \ {pick[S]}) <= n
          BY <1>1, <2>3, <4>2
        <4>4. g[S \ {pick[S]}] = f[S \ {pick[S]}]
          BY <4>1, <4>3
        <4> QED
          BY <3>1, <3>3, <4>4
      <3> QED
        BY <3>2, <3>3
    <2>4. Solves(g, n + 1)
      BY <2>3
    <2>5. n + 1 \in Nat
      OBVIOUS
    <2> HIDE DEF g, Solves
    <2> QED
      BY <2>2, <2>4, <2>5
  <1>5. Cardinality(M) \in Solvable
    <2> HIDE DEF Solvable
    <2> SUFFICES ASSUME Cardinality(M) \notin Solvable PROVE FALSE
      OBVIOUS
    <2> DEFINE worse == {n \in Nat : n \notin Solvable}
    <2>1. Cardinality(M) \in Nat
      BY FS_CardinalityType
    <2>2. PICK n \in worse : \A m \in worse : n <= m
      BY <2>1, LeastExists
    <2>3. n # 0
      BY <1>3, <2>2
    <2>4. n - 1 \in Nat /\ (n - 1) + 1 = n /\ ~(n <= n - 1)
      BY <2>2, <2>3
    <2> QED
      BY <1>4, <2>2, <2>4
  <1>6. PICK g \in [SUBSET M -> T] : Solves(g, Cardinality(M))
    BY <1>5
  <1> QED
    BY <1>1, <1>6 DEF Folded

-----------------------------------------------------------------------------
(* Sums *)

SumOf(b, S) == FoldFunctionOnSet(LAMBDA x, y : x + y, 0, b, S)

OneIn(S) == CHOOSE x \in S : TRUE

\* h[U] is the sum of b over U, for the subsets U of S.
SumsUp(h, b, S) == \A U \in SUBSET S : h[U] = IF U = {} THEN 0 ELSE b[OneIn(U)] + h[U \ {OneIn(U)}]

LEMMA SumDefined ==
  ASSUME NEW S, IsFiniteSet(S), NEW b, \A x \in S : b[x] \in Nat
  PROVE  \E h : SumsUp(h, b, S) /\ SumOf(b, S) = h[S]
  <1> DEFINE pick == [U \in SUBSET S |-> OneIn(U)]
             next == [p \in Nat \X S |-> b[p[2]] + p[1]]
             Value(h, U) == IF U = {} THEN 0 ELSE b[OneIn(U)] + h[U \ {OneIn(U)}]
             sums == CHOOSE h : h = [U \in SUBSET S |-> Value(h, U)]
  <1>1. \A U \in SUBSET S : U # {} => OneIn(U) \in U
    BY DEF OneIn
  <1>2. \E h : h = [U \in SUBSET S |-> Value(h, U)]
    <2>1. next \in [Nat \X S -> Nat]
      OBVIOUS
    <2>2. \A U \in SUBSET S : U # {} => pick[U] \in U
      BY <1>1
    <2>3. PICK g \in [SUBSET S -> Nat] : Folded(g, S, 0, next, pick)
      <3> HIDE DEF next, pick
      <3> QED
        BY <2>1, <2>2, FoldExists
    <2>4. ASSUME NEW U \in SUBSET S PROVE g[U] = Value(g, U)
      <3>1. g[U] = IF U = {} THEN 0 ELSE next[<<g[U \ {pick[U]}], pick[U]>>]
        BY <2>3 DEF Folded
      <3>2. pick[U] = OneIn(U)
        OBVIOUS
      <3>3. CASE U # {}
        <4>1. OneIn(U) \in S /\ U \ {OneIn(U)} \in SUBSET S
          BY <1>1, <3>3
        <4>2. <<g[U \ {OneIn(U)}], OneIn(U)>> \in Nat \X S
          BY <4>1
        <4>3. next[<<g[U \ {OneIn(U)}], OneIn(U)>>] = b[OneIn(U)] + g[U \ {OneIn(U)}]
          BY <4>2
        <4> QED
          BY <3>1, <3>2, <3>3, <4>3
      <3> QED
        BY <3>1, <3>3
    <2> HIDE DEF Value
    <2>5. g = [U \in SUBSET S |-> Value(g, U)]
      BY <2>4
    <2> QED
      BY <2>5
  <1>3. sums = [U \in SUBSET S |-> Value(sums, U)]
    <2> HIDE DEF Value
    <2> QED
      BY <1>2, Zenon
  <1>4. SumOf(b, S) = sums[S]
    BY Zenon DEF SumOf, FoldFunctionOnSet, MapThenFoldSet, OneIn
  <1> HIDE DEF sums
  <1>5. \A U \in SUBSET S : sums[U] = Value(sums, U)
    <2> HIDE DEF Value
    <2> QED
      BY <1>3
  <1>6. SumsUp(sums, b, S)
    BY <1>5, Zenon DEF SumsUp
  <1> QED
    BY <1>4, <1>6

\* A sum does not depend on the set it is a part of.
LEMMA SumSame ==
  ASSUME NEW M, IsFiniteSet(M), NEW b, \A x \in M : b[x] \in Nat, NEW S \in SUBSET M,
         NEW h, SumsUp(h, b, S), NEW k, SumsUp(k, b, M)
  PROVE  \A U \in SUBSET S : h[U] = k[U] /\ k[U] \in Nat
  <1> DEFINE Same == {U \in SUBSET S : h[U] = k[U] /\ k[U] \in Nat}
  <1>1. IsFiniteSet(S)
    BY FS_Subset
  <1>2. {} \in Same
    <2>1. {} \in SUBSET S /\ {} \in SUBSET M
      OBVIOUS
    <2>2. h[{}] = 0 /\ k[{}] = 0
      BY <2>1, Zenon DEF SumsUp
    <2> QED
      BY <2>1, <2>2
  <1>3. ASSUME NEW U \in SUBSET S, U # {}, \A x \in U : U \ {x} \in Same PROVE U \in Same
    <2>1. OneIn(U) \in U
      BY <1>3 DEF OneIn
    <2>2. U \ {OneIn(U)} \in Same /\ OneIn(U) \in M /\ U \in SUBSET M
      BY <1>3, <2>1
    <2>3. h[U] = b[OneIn(U)] + h[U \ {OneIn(U)}] /\ k[U] = b[OneIn(U)] + k[U \ {OneIn(U)}]
      BY <1>3, <2>2, Zenon DEF SumsUp
    <2> QED
      BY <2>2, <2>3
  <1> HIDE DEF Same
  <1>4. \A U \in SUBSET S : U \in Same
    BY <1>1, <1>2, <1>3, SubsetInduction
  <1> QED
    BY <1>4 DEF Same

\* Nor on the order of the elements; and it grows with the set.
LEMMA SumFacts ==
  ASSUME NEW M, IsFiniteSet(M), NEW b, \A x \in M : b[x] \in Nat
  PROVE  /\ SumOf(b, {}) = 0
         /\ \A S \in SUBSET M : SumOf(b, S) \in Nat
         /\ \A S \in SUBSET M : \A x \in S : SumOf(b, S) = b[x] + SumOf(b, S \ {x})
         /\ \A S, U \in SUBSET M : S \subseteq U => SumOf(b, S) <= SumOf(b, U)
  <1>1. PICK k : SumsUp(k, b, M)
    BY SumDefined
  <1>2. ASSUME NEW S \in SUBSET M PROVE SumOf(b, S) = k[S] /\ k[S] \in Nat
    <2>1. IsFiniteSet(S) /\ \A x \in S : b[x] \in Nat
      BY FS_Subset
    <2>2. PICK h : SumsUp(h, b, S) /\ SumOf(b, S) = h[S]
      BY <2>1, SumDefined
    <2> QED
      BY <1>1, <2>2, SumSame
  <1>3. k[{}] = 0 /\ {} \in SUBSET M
    BY <1>1 DEF SumsUp
  <1>4. ASSUME NEW S \in SUBSET M PROVE \A x \in S : k[S] = b[x] + k[S \ {x}]
    <2> DEFINE Additive == {U \in SUBSET M : \A x \in U : k[U] = b[x] + k[U \ {x}]}
    <2>1. {} \in Additive
      OBVIOUS
    <2>2. ASSUME NEW U \in SUBSET M, U # {}, \A x \in U : U \ {x} \in Additive PROVE U \in Additive
      <3> SUFFICES ASSUME NEW x \in U PROVE k[U] = b[x] + k[U \ {x}]
        OBVIOUS
      <3> DEFINE y == OneIn(U)
      <3>1. y \in U
        BY <2>2 DEF OneIn
      <3>2. k[U] = b[y] + k[U \ {y}]
        BY <1>1, <2>2, Zenon DEF SumsUp
      <3> HIDE DEF y
      <3>3. CASE x = y
        BY <3>2, <3>3
      <3>4. CASE x # y
        <4>1. k[U \ {y}] = b[x] + k[(U \ {y}) \ {x}]
          BY <2>2, <3>1, <3>4
        <4>2. k[U \ {x}] = b[y] + k[(U \ {x}) \ {y}]
          BY <2>2, <3>1, <3>4
        <4>3. (U \ {y}) \ {x} = (U \ {x}) \ {y} /\ (U \ {y}) \ {x} \in SUBSET M
          OBVIOUS
        <4>4. b[x] \in Nat /\ b[y] \in Nat /\ k[(U \ {y}) \ {x}] \in Nat
          BY <1>2, <3>1, <4>3
        <4>5. k[U \ {x}] = b[y] + k[(U \ {y}) \ {x}]
          BY <4>2, <4>3
        <4> QED
          BY <3>2, <4>1, <4>4, <4>5
      <3> QED
        BY <3>3, <3>4
    <2> HIDE DEF Additive
    <2>3. \A U \in SUBSET M : U \in Additive
      BY <2>1, <2>2, SubsetInduction
    <2> QED
      BY <2>3 DEF Additive
  <1>5. ASSUME NEW S \in SUBSET M, NEW U \in SUBSET M, S \subseteq U PROVE k[S] <= k[U]
    <2> DEFINE Above == {V \in SUBSET M : S \subseteq V => k[S] <= k[V]}
    <2>1. {} \in Above
      <3>1. S \subseteq {} => S = {}
        OBVIOUS
      <3> QED
        BY <1>3, <3>1
    <2>2. ASSUME NEW V \in SUBSET M, V # {}, \A x \in V : V \ {x} \in Above PROVE V \in Above
      <3> SUFFICES ASSUME S \subseteq V PROVE k[S] <= k[V]
        OBVIOUS
      <3>1. CASE S = V
        BY <1>2, <3>1
      <3>2. CASE S # V
        <4>1. PICK x \in V : x \notin S
          BY <3>2
        <4>2. k[S] <= k[V \ {x}]
          BY <2>2, <4>1
        <4>3. k[V] = b[x] + k[V \ {x}]
          BY <1>4
        <4>4. b[x] \in Nat /\ k[S] \in Nat /\ k[V \ {x}] \in Nat
          BY <1>2
        <4> QED
          BY <4>2, <4>3, <4>4
      <3> QED
        BY <3>1, <3>2
    <2> HIDE DEF Above
    <2>3. \A V \in SUBSET M : V \in Above
      BY <2>1, <2>2, SubsetInduction
    <2> QED
      BY <1>5, <2>3 DEF Above
  <1>6. \A S \in SUBSET M : \A x \in S : S \ {x} \in SUBSET M
    OBVIOUS
  <1> QED
    BY <1>2, <1>3, <1>4, <1>5, <1>6

-----------------------------------------------------------------------------
(* The policy *)

LEMMA PolicyTypes ==
  ASSUME CacheTypeOK
  PROVE  /\ \A a \in Artifact : Bytes(a) \in Nat
         /\ \A a \in Managed : LastUsed(a) \in Nat /\ Age(a) \in Int /\ entry[a].committed \in BOOLEAN
         /\ \A a \in Managed : Oversized(a) => ~Protected(a)
         /\ IsFiniteSet(Managed) /\ Managed \in SUBSET Artifact /\ now \in Nat
  <1>1. IsFiniteSet(Managed) /\ Managed \in SUBSET Artifact /\ now \in Nat
    BY CacheAssumption, FS_Subset DEF Managed, CacheTypeOK
  <1>2. \A a \in Artifact : Bytes(a) \in Nat
    BY CacheAssumption DEF Bytes, CacheTypeOK
  <1>3. ASSUME NEW a \in Managed PROVE LastUsed(a) \in Nat /\ entry[a].committed \in BOOLEAN
    <2>1. a \in Artifact /\ entry[a] \in [used : 0..MaxTime, committed : BOOLEAN]
      BY DEF Managed, CacheTypeOK
    <2>2. entry[a].used \in Nat /\ written[a] \in Nat /\ entry[a].committed \in BOOLEAN
      BY <2>1, CacheAssumption DEF CacheTypeOK
    <2> QED
      BY <2>2 DEF LastUsed
  <1> QED
    BY <1>1, <1>2, <1>3 DEF Age, Oversized, Protected

\* The candidates are ordered.
LEMMA BeforeOrders ==
  ASSUME CacheTypeOK, NEW a \in Managed, NEW b \in Managed
  PROVE  /\ a # b => Before(a, b) \/ Before(b, a)
         /\ ~(Before(a, b) /\ Before(b, a))
         /\ \A c \in Managed : Before(a, b) /\ Before(b, c) => Before(a, c)
  <1> DEFINE Precedes(x, y) ==
        \/ Oversized(x) /\ ~Oversized(y)
        \/ (Oversized(x) <=> Oversized(y)) /\ LastUsed(x) < LastUsed(y)
        \/ (Oversized(x) <=> Oversized(y)) /\ LastUsed(x) = LastUsed(y) /\ Rank[x] < Rank[y]
  <1>1. ASSUME NEW x \in Managed, NEW y \in Managed PROVE Before(x, y) <=> Precedes(x, y)
    <2>1. Oversized(x) \in BOOLEAN /\ Oversized(y) \in BOOLEAN
      BY PolicyTypes DEF Oversized
    <2>2. (Oversized(x) = Oversized(y)) <=> (Oversized(x) <=> Oversized(y))
      BY <2>1, Zenon
    <2> QED
      BY <2>2, Zenon DEF Before
  <1>2. \A x \in Managed : LastUsed(x) \in Nat /\ Rank[x] \in Nat
    BY PolicyTypes, CacheAssumption
  <1>3. Rank[a] = Rank[b] => a = b
    BY PolicyTypes, CacheAssumption
  <1>4. /\ a # b => Precedes(a, b) \/ Precedes(b, a)
        /\ ~(Precedes(a, b) /\ Precedes(b, a))
    BY <1>2, <1>3
  <1>5. ASSUME NEW c \in Managed, Precedes(a, b), Precedes(b, c) PROVE Precedes(a, c)
    BY <1>2, <1>5
  <1> HIDE DEF Precedes
  <1> QED
    BY <1>1, <1>4, <1>5

LastOf(S) == CHOOSE a \in S : \A b \in S \ {a} : Before(b, a)

LEMMA LastExists ==
  ASSUME CacheTypeOK, NEW S \in SUBSET Managed, S # {}
  PROVE  LastOf(S) \in S /\ \A b \in S \ {LastOf(S)} : Before(b, LastOf(S))
  <1> DEFINE Ends(T) == \E a \in T : \A b \in T \ {a} : Before(b, a)
             Ending == {T \in SUBSET Managed : T # {} => Ends(T)}
  <1>1. {} \in Ending
    OBVIOUS
  <1>2. ASSUME NEW T \in SUBSET Managed, T # {}, \A x \in T : T \ {x} \in Ending PROVE T \in Ending
    <2>1. PICK x \in T : TRUE
      BY <1>2
    <2>2. CASE T \ {x} = {}
      BY <2>1, <2>2
    <2>3. CASE T \ {x} # {}
      <3>1. PICK l \in T \ {x} : \A b \in (T \ {x}) \ {l} : Before(b, l)
        BY <1>2, <2>1, <2>3
      <3>2. l \in Managed /\ x \in Managed /\ l # x
        OBVIOUS
      <3>3. CASE Before(x, l)
        BY <3>1, <3>3
      <3>4. CASE Before(l, x)
        <4>1. \A b \in T \ {x} : Before(b, x)
          BY <3>1, <3>2, <3>4, BeforeOrders
        <4> QED
          BY <4>1
      <3> QED
        BY <3>2, <3>3, <3>4, BeforeOrders
    <2> QED
      BY <2>2, <2>3
  <1> HIDE DEF Ending
  <1>3. \A T \in SUBSET Managed : T \in Ending
    BY <1>1, <1>2, PolicyTypes, SubsetInduction
  <1>4. Ends(S)
    BY <1>3 DEF Ending
  <1> QED
    BY <1>4, Zenon DEF LastOf

LEMMA TotalFacts ==
  ASSUME CacheTypeOK
  PROVE  /\ Total({}) = 0
         /\ \A S \in SUBSET Artifact : Total(S) \in Nat
         /\ \A S \in SUBSET Artifact : \A x \in S : Total(S) = Bytes(x) + Total(S \ {x})
         /\ \A S, U \in SUBSET Artifact : S \subseteq U => Total(S) <= Total(U)
  <1> DEFINE b == [a \in Artifact |-> Bytes(a)]
  <1>1. \A S : Total(S) = SumOf(b, S)
    BY Zenon DEF Total, SumOf
  <1>2. \A x \in Artifact : b[x] = Bytes(x) /\ b[x] \in Nat
    BY PolicyTypes
  <1>3. IsFiniteSet(Artifact)
    BY CacheAssumption
  <1> HIDE DEF b
  <1>4. /\ SumOf(b, {}) = 0
        /\ \A S \in SUBSET Artifact : SumOf(b, S) \in Nat
        /\ \A S \in SUBSET Artifact : \A x \in S : SumOf(b, S) = b[x] + SumOf(b, S \ {x})
        /\ \A S, U \in SUBSET Artifact : S \subseteq U => SumOf(b, S) <= SumOf(b, U)
    BY <1>2, <1>3, SumFacts
  <1>5. ASSUME NEW S \in SUBSET Artifact, NEW x \in S PROVE Total(S) = Bytes(x) + Total(S \ {x})
    BY <1>1, <1>2, <1>4
  <1> QED
    BY <1>1, <1>4, <1>5

Unprotected == {a \in Managed : ~Protected(a)}
Account == [victims : SUBSET Artifact, bytes : Nat]
Untouched == [victims |-> {}, bytes |-> Total(Unprotected)]

\* w takes the candidates in order.
Walked(w, maxAge) ==
  \A S \in SUBSET Managed : w[S] = IF S = {} THEN Untouched
                                   ELSE Select(w[S \ {LastOf(S)}], LastOf(S), maxAge)

LEMMA SelectType ==
  ASSUME CacheTypeOK, NEW acc \in Account, NEW a \in Artifact, NEW maxAge
  PROVE  Select(acc, a, maxAge) \in Account
  BY PolicyTypes DEF Select, Account

LEMMA SelectedDefined ==
  ASSUME CacheTypeOK, NEW maxAge
  PROVE  \E w : Walked(w, maxAge) /\ Selected(maxAge) = w[Managed].victims
  <1> DEFINE pick == [S \in SUBSET Managed |-> LastOf(S)]
             next == [p \in Account \X Managed |-> Select(p[1], p[2], maxAge)]
             Value(w, S) == IF S = {} THEN Untouched ELSE Select(w[S \ {LastOf(S)}], LastOf(S), maxAge)
             after == CHOOSE w : w = [S \in SUBSET Managed |-> Value(w, S)]
  <1>1. IsFiniteSet(Managed) /\ Managed \in SUBSET Artifact /\ Untouched \in Account
    BY PolicyTypes, TotalFacts DEF Untouched, Account, Unprotected
  <1>2. next \in [Account \X Managed -> Account]
    BY <1>1, SelectType
  <1>3. \A S \in SUBSET Managed : S # {} => pick[S] \in S
    BY LastExists
  <1>4. \E w : w = [S \in SUBSET Managed |-> Value(w, S)]
    <2>1. PICK w \in [SUBSET Managed -> Account] : Folded(w, Managed, Untouched, next, pick)
      <3> HIDE DEF next, pick
      <3> QED
        BY <1>1, <1>2, <1>3, FoldExists
    <2>2. ASSUME NEW S \in SUBSET Managed PROVE w[S] = Value(w, S)
      <3>1. w[S] = IF S = {} THEN Untouched ELSE next[<<w[S \ {pick[S]}], pick[S]>>]
        BY <2>1 DEF Folded
      <3>2. pick[S] = LastOf(S)
        OBVIOUS
      <3>3. CASE S # {}
        <4>1. LastOf(S) \in Managed /\ w[S \ {LastOf(S)}] \in Account
          BY <1>3, <2>1, <3>2, <3>3
        <4>2. next[<<w[S \ {LastOf(S)}], LastOf(S)>>] = Select(w[S \ {LastOf(S)}], LastOf(S), maxAge)
          BY <4>1
        <4> QED
          BY <3>1, <3>2, <3>3, <4>2
      <3> QED
        BY <3>1, <3>3
    <2> HIDE DEF Value
    <2>3. w = [S \in SUBSET Managed |-> Value(w, S)]
      BY <2>1, <2>2
    <2> QED
      BY <2>3
  <1>5. after = [S \in SUBSET Managed |-> Value(after, S)]
    <2> HIDE DEF Value
    <2> QED
      BY <1>4, Zenon
  <1>6. Selected(maxAge) = after[Managed].victims
    BY Zenon DEF Selected, LastOf, Untouched, Unprotected
  <1> HIDE DEF after
  <1>7. \A S \in SUBSET Managed : after[S] = Value(after, S)
    <2> HIDE DEF Value
    <2> QED
      BY <1>5
  <1>8. Walked(after, maxAge)
    BY <1>7, Zenon DEF Walked
  <1> QED
    BY <1>6, <1>8

\* What a candidate is selected for, when V are the candidates selected.
Goes(a, V, maxAge) ==
  \/ Oversized(a)
  \/ ~Protected(a) /\ (Expired(a, maxAge) \/ Total(Unprotected \ {v \in V : Before(v, a)}) > Limit)

\* What the walk has come to after the candidates in S.
Accounted(acc, S, maxAge) ==
  /\ acc.victims \in SUBSET (S \cap Unprotected)
  /\ acc.bytes = Total(Unprotected \ acc.victims)
  /\ \A a \in S : a \in acc.victims <=> Goes(a, acc.victims, maxAge)

LEMMA AccountedStep ==
  ASSUME CacheTypeOK, NEW maxAge, NEW S \in SUBSET Managed, NEW l \in S,
         \A b \in S \ {l} : Before(b, l), NEW acc, Accounted(acc, S \ {l}, maxAge)
  PROVE  Accounted(Select(acc, l, maxAge), S, maxAge)
  <1> DEFINE old == acc.victims
             new == Select(acc, l, maxAge).victims
  <1>1. /\ Managed \in SUBSET Artifact /\ Unprotected \in SUBSET Managed /\ l \in Managed /\ l \in Artifact
        /\ old \in SUBSET ((S \ {l}) \cap Unprotected) /\ Unprotected \ old \in SUBSET Artifact
    BY PolicyTypes DEF Unprotected, Accounted
  <1>2. {v \in old : Before(v, l)} = old
    BY <1>1
  <1>3. acc.bytes = Total(Unprotected \ old)
    BY DEF Accounted
  <1>4. ~Before(l, l)
    BY <1>1, BeforeOrders
  <1>5. \A a \in S \ {l} : ~Before(l, a)
    BY <1>1, BeforeOrders
  <1>6. Goes(l, old, maxAge) <=> Oversized(l) \/ (~Protected(l) /\ (Expired(l, maxAge) \/ acc.bytes > Limit))
    BY <1>2, <1>3 DEF Goes
  <1>7. CASE Goes(l, old, maxAge)
    <2>1. Select(acc, l, maxAge) = [victims |-> old \cup {l},
             bytes |-> IF Bytes(l) > acc.bytes THEN 0 ELSE acc.bytes - Bytes(l)]
      BY <1>6, <1>7 DEF Select
    <2>2. l \in Unprotected
      BY <1>1, <1>7, PolicyTypes DEF Goes, Unprotected
    <2>3. new = old \cup {l} /\ new \in SUBSET (S \cap Unprotected)
      BY <1>1, <2>1, <2>2
    <2>4. acc.bytes = Bytes(l) + Total(Unprotected \ new) /\ Total(Unprotected \ new) \in Nat /\ Bytes(l) \in Nat
      <3>1. l \in Unprotected \ old /\ (Unprotected \ old) \ {l} = Unprotected \ new /\ Unprotected \ new \in SUBSET Artifact
        BY <1>1, <2>2, <2>3
      <3> QED
        BY <1>1, <1>3, <3>1, TotalFacts, PolicyTypes
    <2>5. Select(acc, l, maxAge).bytes = Total(Unprotected \ new)
      BY <2>1, <2>4
    <2>6. \A a \in S : {v \in new : Before(v, a)} = {v \in old : Before(v, a)}
      BY <1>4, <1>5, <2>3
    <2>7. \A a \in S : Goes(a, new, maxAge) <=> Goes(a, old, maxAge)
      BY <2>6 DEF Goes
    <2>8. \A a \in S : a \in new <=> Goes(a, new, maxAge)
      <3>1. \A a \in S \ {l} : a \in old <=> Goes(a, old, maxAge)
        BY DEF Accounted
      <3> HIDE DEF new
      <3> QED
        BY <1>7, <2>3, <2>7, <3>1
    <2> QED
      BY <2>3, <2>5, <2>8 DEF Accounted
  <1>8. CASE ~Goes(l, old, maxAge)
    <2>1. Select(acc, l, maxAge) = acc
      BY <1>6, <1>8 DEF Select
    <2>2. \A a \in S : a \in old <=> Goes(a, old, maxAge)
      <3>1. \A a \in S \ {l} : a \in old <=> Goes(a, old, maxAge)
        BY DEF Accounted
      <3> QED
        BY <1>1, <1>8, <3>1
    <2> QED
      BY <1>1, <1>3, <2>1, <2>2 DEF Accounted
  <1> QED
    BY <1>7, <1>8

\* What a collection selects.
LEMMA SelectedFacts ==
  ASSUME CacheTypeOK, NEW maxAge
  PROVE  /\ Selected(maxAge) \in SUBSET Unprotected /\ Selected(maxAge) \in SUBSET Artifact
         /\ \A a \in Managed : a \in Selected(maxAge) <=> Goes(a, Selected(maxAge), maxAge)
  <1>1. PICK w : Walked(w, maxAge) /\ Selected(maxAge) = w[Managed].victims
    BY SelectedDefined
  <1> DEFINE Walks == {S \in SUBSET Managed : Accounted(w[S], S, maxAge)}
  <1>2. {} \in Walks
    <2>1. w[{}] = Untouched /\ {} \in SUBSET Managed
      BY <1>1 DEF Walked
    <2>2. Accounted(Untouched, {}, maxAge)
      BY DEF Accounted, Untouched
    <2> QED
      BY <2>1, <2>2
  <1>3. ASSUME NEW S \in SUBSET Managed, S # {}, \A x \in S : S \ {x} \in Walks PROVE S \in Walks
    <2> DEFINE l == LastOf(S)
    <2>1. l \in S /\ \A b \in S \ {l} : Before(b, l)
      BY <1>3, LastExists
    <2>2. w[S] = Select(w[S \ {l}], l, maxAge)
      BY <1>1, <1>3, Zenon DEF Walked
    <2> HIDE DEF l
    <2>3. Accounted(w[S \ {l}], S \ {l}, maxAge)
      BY <1>3, <2>1
    <2>4. Accounted(w[S], S, maxAge)
      BY <2>1, <2>2, <2>3, AccountedStep
    <2> QED
      BY <2>4
  <1> HIDE DEF Walks
  <1>4. \A S \in SUBSET Managed : S \in Walks
    BY <1>2, <1>3, PolicyTypes, SubsetInduction
  <1>5. Accounted(w[Managed], Managed, maxAge)
    BY <1>4 DEF Walks
  <1> QED
    BY <1>1, <1>5, PolicyTypes DEF Accounted, Unprotected

\* What is left keeps to the limit.
LEMMA SelectedMeetsBudget ==
  ASSUME CacheTypeOK, NEW maxAge
  PROVE  MeetsBudget(Selected(maxAge))
  <1> DEFINE gone == Selected(maxAge)
             kept == {a \in Managed \ gone : ~Protected(a)}
  <1>1. kept = Unprotected \ gone /\ Unprotected \in SUBSET Artifact /\ Unprotected \in SUBSET Managed
    BY PolicyTypes DEF Unprotected
  <1>2. CASE kept = {}
    BY <1>2, TotalFacts, CacheAssumption DEF MeetsBudget
  <1>3. CASE kept # {}
    <2>1. PICK a \in kept : TRUE
      BY <1>3
    <2>2. ~Goes(a, gone, maxAge) /\ ~Protected(a)
      BY <2>1, SelectedFacts
    <2> HIDE DEF gone, kept
    <2> DEFINE more == Unprotected \ {v \in gone : Before(v, a)}
    <2>3. ~(Total(more) > Limit)
      BY <2>2 DEF Goes
    <2>4. kept \in SUBSET Artifact /\ more \in SUBSET Artifact /\ kept \subseteq more
      BY <1>1
    <2>5. Total(kept) <= Total(more) /\ Total(kept) \in Nat /\ Total(more) \in Nat
      BY <2>4, TotalFacts
    <2>6. Total(kept) <= Limit
      BY <2>3, <2>5, CacheAssumption
    <2> QED
      BY <2>6 DEF MeetsBudget, kept, gone
  <1> QED
    BY <1>2, <1>3

\* What goes had to.
LEMMA SelectedMustGo ==
  ASSUME CacheTypeOK, NEW maxAge
  PROVE  OnlyWhatMustGo(Selected(maxAge), maxAge)
  <1> DEFINE gone == Selected(maxAge)
  <1>1. gone \in SUBSET Unprotected /\ \A a \in Managed : a \in gone <=> Goes(a, gone, maxAge)
    BY SelectedFacts
  <1> HIDE DEF gone
  <1>2. Unprotected \in SUBSET Artifact /\ Unprotected \in SUBSET Managed
    BY PolicyTypes DEF Unprotected
  <1>3. ASSUME NEW a \in gone, ~Oversized(a), ~Expired(a, maxAge)
        PROVE  /\ \A b \in Unprotected \ gone : LastUsed(a) <= LastUsed(b)
               /\ Total(Unprotected \ {b \in gone : Before(b, a)}) > Limit
    <2>1. a \in Managed /\ Total(Unprotected \ {b \in gone : Before(b, a)}) > Limit
      BY <1>1, <1>2, <1>3 DEF Goes
    <2>2. ASSUME NEW b \in Unprotected \ gone, ~(LastUsed(a) <= LastUsed(b)) PROVE FALSE
      <3>1. b \in Managed /\ ~Protected(b) /\ ~Goes(b, gone, maxAge)
        BY <1>1, <1>2 DEF Unprotected
      <3>2. ~Oversized(b) /\ ~(Total(Unprotected \ {v \in gone : Before(v, b)}) > Limit)
        BY <3>1 DEF Goes
      <3>3. LastUsed(b) < LastUsed(a)
        BY <2>1, <2>2, <3>1, PolicyTypes
      <3>4. Before(b, a)
        <4>1. Oversized(a) = Oversized(b)
          <5>1. Oversized(a) \in BOOLEAN /\ Oversized(b) \in BOOLEAN
            BY <2>1, <3>1, PolicyTypes DEF Oversized
          <5> QED
            BY <1>3, <3>2, <5>1
        <4> QED
          BY <3>3, <4>1, Zenon DEF Before
      <3> DEFINE fewer == Unprotected \ {v \in gone : Before(v, a)}
                 more == Unprotected \ {v \in gone : Before(v, b)}
      <3>5. fewer \subseteq more /\ fewer \in SUBSET Artifact /\ more \in SUBSET Artifact
        BY <1>1, <1>2, <2>1, <3>1, <3>4, BeforeOrders
      <3> HIDE DEF fewer, more
      <3>6. Total(fewer) <= Total(more) /\ Total(fewer) \in Nat /\ Total(more) \in Nat
        BY <3>5, TotalFacts
      <3>7. Total(fewer) > Limit /\ ~(Total(more) > Limit)
        BY <2>1, <3>2 DEF fewer, more
      <3> QED
        BY <3>6, <3>7, CacheAssumption
    <2> QED
      BY <2>1, <2>2
  <1> QED
    BY <1>3, Zenon DEF OnlyWhatMustGo, gone, Unprotected

-----------------------------------------------------------------------------
(* The download cache *)

\* A session holds the lease shared for as long as it works with an artifact.
Holding == {"record", "work", "finish", "release"}
\* A collection holds it exclusively for as long as it deletes.
Deleting == {"sweep", "unindex"}

LeaseInv ==
  /\ \A p \in Process : place[p] \in Holding <=> p \in shared
  /\ \A p \in Process : place[p] \in Deleting <=> exclusive = p
  /\ exclusive # Nil => shared = {}

\* A process that will work with an artifact has one.
ArtifactInv ==
  \A p \in Process :
    /\ place[p] \in Holding \cup {"lease"} => op[p].art # Nil
    /\ place[p] \in Holding \cup {"lease"} => p \in Session
    /\ op[p].then = "lease" => op[p].art # Nil /\ p \in Session

\* What a session works with is registered; what a collection is about to
\* unregister is gone.
EntryInv ==
  /\ \A p \in Process : place[p] \in {"work", "finish", "release"} => entry[op[p].art] # Nil
  /\ \A p \in Process : place[p] = "unindex" => op[p].hand # Nil /\ file[op[p].hand] = "none"

CacheInv == CacheTypeOK /\ LeaseInv /\ ArtifactInv /\ EntryInv /\ FilesAreManaged

-----------------------------------------------------------------------------

LEMMA Constants ==
  /\ Nil \notin Process /\ Nil \notin Artifact /\ Nil \notin [used : Nat, committed : BOOLEAN]
  /\ MaxTime \in Nat /\ MaxOps \in Nat /\ MaxKilled \in Nat
  /\ Session \subseteq Process /\ Collector \subseteq Process
  /\ Uses \in [Session -> SUBSET Artifact]
  BY CacheAssumption DEF Process

Op == [art : Artifact \cup {Nil}, offline : BOOLEAN, victims : SUBSET Artifact,
       hand : Artifact \cup {Nil}, then : {"idle", "lease"}]
Place == {"idle", "collect", "lease", "record", "work", "finish", "release", "sweep", "unindex",
          "clean"}

\* What a step that goes on with the install, or ends, leaves of a process.
LEMMA ResumeStep ==
  ASSUME CacheTypeOK, NEW p \in Process, Resume(p)
  PROVE  /\ place' \in [Process -> Place] /\ op' \in [Process -> Op]
         /\ place'[p] = op[p].then /\ op'[p].then = "idle"
         /\ op[p].then = "lease" => op'[p].art = op[p].art
         /\ \A q \in Process \ {p} : place'[q] = place[q] /\ op'[q] = op[q]
  BY DEF Resume, CacheTypeOK, Idle, Op, Place

\* What a process that gives up the lease leaves.
LEMMA DropStep ==
  ASSUME CacheTypeOK, LeaseInv, NEW p \in Process, Drop(p), place' \in [Process -> Place],
         place'[p] \notin Holding \cup Deleting, \A q \in Process \ {p} : place'[q] = place[q]
  PROVE  LeaseInv' /\ shared' \in SUBSET Session /\ exclusive' \in Process \cup {Nil}
  <1>1. shared' = shared \ {p} /\ exclusive' = IF exclusive = p THEN Nil ELSE exclusive
    BY DEF Drop
  <1>2. p # Nil
    BY Constants
  <1> QED
    BY <1>1, <1>2, Constants DEF LeaseInv, CacheTypeOK, Holding, Deleting

\* A step of the lease's other side does not happen: whoever deletes is alone.
LEMMA DeletesAlone ==
  ASSUME CacheTypeOK, LeaseInv, NEW p \in Process, place[p] \in Deleting
  PROVE  \A q \in Process : place[q] \notin Holding /\ (place[q] \in Deleting => q = p)
  BY Constants DEF LeaseInv

LEMMA InvInit == CacheInit => CacheInv
  BY Constants DEF CacheInit, CacheInv, CacheTypeOK, LeaseInv, ArtifactInv, EntryInv, FilesAreManaged, Holding,
     Deleting, Idle

-----------------------------------------------------------------------------
(* The steps of a session *)

LEMMA BeginKeeps ==
  ASSUME CacheInv, NEW s \in Session, NEW a \in Uses[s], Begin(s, a) PROVE CacheInv'
  <1>1. a \in Artifact /\ s \in Process
    BY Constants
  <1>2. CacheTypeOK'
    BY <1>1, Constants DEF CacheInv, Begin, CacheTypeOK, cache, history
  <1>3. place'[s] \in {"lease", "collect"} /\ op'[s].art = a /\ a # Nil
    BY <1>1, Constants DEF CacheInv, Begin, CacheTypeOK
  <1>4. \A q \in Process \ {s} : place'[q] = place[q] /\ op'[q] = op[q]
    BY <1>1 DEF CacheInv, Begin, CacheTypeOK
  <1>5. place[s] = "idle" /\ UNCHANGED <<file, written, entry, shared, exclusive>>
    BY DEF Begin, cache
  <1> QED
    BY <1>1, <1>2, <1>3, <1>4, <1>5
       DEF CacheInv, LeaseInv, ArtifactInv, EntryInv, FilesAreManaged, Holding, Deleting

LEMMA AcquireKeeps == ASSUME CacheInv, NEW s \in Session, AcquireLease(s) PROVE CacheInv'
  <1>1. s \in Process
    BY Constants
  <1>2. CacheTypeOK'
    BY <1>1 DEF CacheInv, AcquireLease, GoOn, CacheTypeOK, cache, history
  <1>3. /\ place[s] = "lease" /\ place'[s] = "record" /\ \A q \in Process \ {s} : place'[q] = place[q]
        /\ exclusive = Nil /\ shared' = shared \cup {s}
        /\ UNCHANGED <<file, written, entry, exclusive, op>>
    BY <1>1 DEF CacheInv, AcquireLease, GoOn, CacheTypeOK, cache
  <1> QED
    BY <1>1, <1>2, <1>3
       DEF CacheInv, LeaseInv, ArtifactInv, EntryInv, FilesAreManaged, Holding, Deleting

LEMMA RecordType ==
  ASSUME CacheTypeOK, NEW a \in Artifact, NEW committed \in BOOLEAN, Record(a, committed)
  PROVE  /\ entry' \in [Artifact -> [used : 0..MaxTime, committed : BOOLEAN] \cup {Nil}]
         /\ entry'[a] # Nil /\ \A b \in Artifact : entry[b] # Nil => entry'[b] # Nil
  <1>1. [used |-> now, committed |-> committed] \in [used : Nat, committed : BOOLEAN]
    BY Constants DEF CacheTypeOK
  <1> QED
    BY <1>1, Constants DEF Record, CacheTypeOK

LEMMA RecordKeeps ==
  ASSUME CacheInv, NEW s \in Session, RecordAccess(s) \/ CommitEntry(s) PROVE CacheInv'
  <1>1. s \in Process /\ CacheTypeOK /\ place[s] \in {"record", "finish"}
    BY Constants DEF CacheInv, RecordAccess, CommitEntry, GoOn
  <1>2. op[s].art \in Artifact
    BY <1>1 DEF CacheInv, ArtifactInv, Holding, CacheTypeOK
  <1>3. /\ entry' \in [Artifact -> [used : 0..MaxTime, committed : BOOLEAN] \cup {Nil}]
        /\ entry'[op[s].art] # Nil /\ \A b \in Artifact : entry[b] # Nil => entry'[b] # Nil
    BY <1>1, <1>2, RecordType DEF RecordAccess, CommitEntry
  <1>4. /\ place'[s] \in {"work", "release"} /\ place' \in [Process -> Place]
        /\ \A q \in Process \ {s} : place'[q] = place[q]
        /\ UNCHANGED <<file, written, shared, exclusive, op, now, ops, killed>>
    BY <1>1 DEF RecordAccess, CommitEntry, GoOn, CacheTypeOK, Place
  <1>5. failed' \in SUBSET Artifact /\ user' \in [Artifact -> Session \cup {Nil}]
    <2>1. CASE RecordAccess(s)
      BY <1>1, <1>2, <2>1 DEF RecordAccess, CacheTypeOK
    <2>2. CASE CommitEntry(s)
      BY <1>1, <1>2, <2>2 DEF CommitEntry, CacheTypeOK
    <2> QED
      BY <2>1, <2>2
  <1>6. CacheTypeOK'
    BY <1>1, <1>3, <1>4, <1>5 DEF CacheTypeOK, Place
  <1>7. \A q \in Process : place'[q] \in {"work", "finish", "release"} => entry'[op'[q].art] # Nil
    <2> SUFFICES ASSUME NEW q \in Process, place'[q] \in {"work", "finish", "release"}
                 PROVE  entry'[op'[q].art] # Nil
      OBVIOUS
    <2>1. CASE q = s
      BY <1>3, <1>4, <2>1
    <2>2. CASE q # s
      <3>1. place[q] \in {"work", "finish", "release"}
        BY <1>4, <2>2
      <3>2. op[q].art \in Artifact /\ entry[op[q].art] # Nil
        BY <1>1, <3>1 DEF CacheInv, EntryInv, ArtifactInv, Holding, CacheTypeOK
      <3> QED
        BY <1>3, <1>4, <3>2
    <2> QED
      BY <2>1, <2>2
  <1> QED
    BY <1>1, <1>3, <1>4, <1>6, <1>7
       DEF CacheInv, LeaseInv, ArtifactInv, EntryInv, FilesAreManaged, Holding, Deleting

LEMMA WorkKeeps == ASSUME CacheInv, NEW s \in Session, Work(s) PROVE CacheInv'
  <1>1. s \in Process /\ CacheTypeOK /\ place[s] = "work"
    BY Constants DEF CacheInv, Work
  <1>2. op[s].art \in Artifact /\ entry[op[s].art] # Nil
    BY <1>1 DEF CacheInv, ArtifactInv, EntryInv, Holding, CacheTypeOK
  <1>3. /\ \E f \in {"none", "partial", "whole"} : file' = [file EXCEPT ![op[s].art] = f]
        /\ written' \in {written, [written EXCEPT ![op[s].art] = now]}
        /\ UNCHANGED <<entry, shared, exclusive, place, op, failed, user, now, ops, killed>>
    BY DEF Work, history
  <1>4. CacheTypeOK'
    BY <1>1, <1>2, <1>3 DEF CacheTypeOK
  <1>5. \A q \in Process : place[q] \notin Deleting
    BY <1>1, DeletesAlone DEF CacheInv, Holding
  <1>6. \A a \in Artifact \ {op[s].art} : file'[a] = file[a]
    BY <1>1, <1>2, <1>3 DEF CacheTypeOK
  <1>7. FilesAreManaged'
    BY <1>2, <1>3, <1>6 DEF CacheInv, FilesAreManaged
  <1>8. LeaseInv' /\ ArtifactInv'
    BY <1>3 DEF CacheInv, LeaseInv, ArtifactInv, Holding, Deleting
  <1>9. EntryInv'
    BY <1>3, <1>5 DEF CacheInv, EntryInv, Deleting
  <1> QED
    BY <1>4, <1>7, <1>8, <1>9 DEF CacheInv

\* Succeed changes where a session is; a Fail gives up the lease.
LEMMA SucceedKeeps == ASSUME CacheInv, NEW s \in Session, Succeed(s) PROVE CacheInv'
  <1>1. s \in Process /\ CacheTypeOK
    BY Constants DEF CacheInv
  <1>2. /\ place[s] = "work" /\ place'[s] = "finish" /\ \A q \in Process \ {s} : place'[q] = place[q]
        /\ place' \in [Process -> Place]
        /\ UNCHANGED <<file, written, entry, shared, exclusive, op, failed, user, now, ops, killed>>
    BY <1>1 DEF Succeed, GoOn, CacheTypeOK, cache, history, Place
  <1>3. CacheTypeOK'
    BY <1>1, <1>2 DEF CacheTypeOK, Place
  <1> QED
    BY <1>1, <1>2, <1>3
       DEF CacheInv, LeaseInv, ArtifactInv, EntryInv, FilesAreManaged, Holding, Deleting

\* A process that gives up the lease and ends, by itself or killed.
LEMMA LeaveKeeps ==
  ASSUME CacheInv, NEW p \in Process, Drop(p), place' = [place EXCEPT ![p] = "idle"],
         op' = [op EXCEPT ![p] = Idle], UNCHANGED <<file, written, entry, user, now, ops>>,
         failed' \in SUBSET Artifact, killed' \in 0..MaxKilled
  PROVE  CacheInv'
  <1>1. place' \in [Process -> Place] /\ place'[p] = "idle" /\ \A q \in Process \ {p} : place'[q] = place[q]
    BY DEF CacheInv, CacheTypeOK, Place
  <1>2. LeaseInv' /\ shared' \in SUBSET Session /\ exclusive' \in Process \cup {Nil}
    BY <1>1, DropStep DEF CacheInv, Holding, Deleting
  <1>3. op' \in [Process -> Op] /\ op'[p] = Idle /\ \A q \in Process \ {p} : op'[q] = op[q]
    BY DEF CacheInv, CacheTypeOK, Op, Idle
  <1>4. CacheTypeOK'
    BY <1>1, <1>2, <1>3 DEF CacheInv, CacheTypeOK, Op, Place
  <1>5. ArtifactInv' /\ EntryInv'
    BY <1>1, <1>3 DEF CacheInv, ArtifactInv, EntryInv, Idle, Holding
  <1> QED
    BY <1>2, <1>4, <1>5 DEF CacheInv, FilesAreManaged

LEMMA FailKeeps == ASSUME CacheInv, NEW s \in Session, Fail(s) PROVE CacheInv'
  <1>1. s \in Process /\ CacheTypeOK /\ op[s].art \in Artifact
    BY Constants DEF CacheInv, Fail, ArtifactInv, CacheTypeOK, Holding
  <1>2. failed' \in SUBSET Artifact
    BY <1>1 DEF Fail, CacheTypeOK
  <1>3. killed' \in 0..MaxKilled
    BY <1>1 DEF Fail, CacheTypeOK
  <1> QED
    BY <1>1, <1>2, <1>3, LeaveKeeps DEF Fail, cache

LEMMA KillKeeps == ASSUME CacheInv, NEW p \in Process, KillProcess(p) PROVE CacheInv'
  <1>1. failed' \in SUBSET Artifact /\ killed' \in 0..MaxKilled
    BY Constants DEF CacheInv, KillProcess, CacheTypeOK
  <1> QED
    BY <1>1, LeaveKeeps DEF KillProcess, cache

LEMMA ReleaseKeeps == ASSUME CacheInv, NEW s \in Session, Release(s) PROVE CacheInv'
  <1>1. s \in Process /\ CacheTypeOK /\ place[s] = "release"
    BY Constants DEF CacheInv, Release, GoOn
  <1>2. /\ place' \in [Process -> Place] /\ place'[s] = "collect"
        /\ \A q \in Process \ {s} : place'[q] = place[q]
        /\ UNCHANGED <<file, written, entry, op, failed, user, now, ops, killed>>
    BY <1>1 DEF Release, GoOn, CacheTypeOK, Place, cache, history
  <1>3. LeaseInv' /\ shared' \in SUBSET Session /\ exclusive' \in Process \cup {Nil}
    BY <1>1, <1>2, DropStep DEF CacheInv, Release, Holding, Deleting
  <1>4. CacheTypeOK'
    BY <1>1, <1>2, <1>3 DEF CacheTypeOK, Place
  <1>5. ArtifactInv' /\ EntryInv'
    BY <1>2 DEF CacheInv, ArtifactInv, EntryInv, Holding
  <1> QED
    BY <1>2, <1>3, <1>4, <1>5 DEF CacheInv, FilesAreManaged

-----------------------------------------------------------------------------
(* The steps of a collection *)

LEMMA BeginCollectKeeps == ASSUME CacheInv, NEW c \in Collector, BeginCollect(c) PROVE CacheInv'
  <1>1. c \in Process /\ CacheTypeOK
    BY Constants DEF CacheInv
  <1>2. /\ place[c] = "idle" /\ place'[c] \in {"collect", "clean"} /\ place' \in [Process -> Place]
        /\ \A q \in Process \ {c} : place'[q] = place[q] /\ ops' \in 0..MaxOps
        /\ UNCHANGED <<file, written, entry, shared, exclusive, op, failed, user, now, killed>>
    BY <1>1, Constants DEF BeginCollect, CacheTypeOK, Place, cache, history
  <1>3. CacheTypeOK'
    BY <1>1, <1>2, Constants DEF BeginCollect, CacheTypeOK, Place
  <1> QED
    BY <1>1, <1>2, <1>3
       DEF CacheInv, LeaseInv, ArtifactInv, EntryInv, FilesAreManaged, Holding, Deleting

\* A collection that goes back to where it was called from.
LEMMA ReturnKeeps ==
  ASSUME CacheInv, NEW p \in Process, Resume(p), place[p] \notin Holding, LeaseInv',
         shared' \in SUBSET Session, exclusive' \in Process \cup {Nil},
         \A a \in Artifact : file'[a] \in {file[a], "none"},
         file' \in [Artifact -> {"none", "partial", "whole"}],
         UNCHANGED <<written, entry, failed, user, now, ops, killed>>
  PROVE  CacheInv'
  <1>1. /\ place' \in [Process -> Place] /\ op' \in [Process -> Op]
        /\ place'[p] = op[p].then /\ op'[p].then = "idle"
        /\ op[p].then = "lease" => op'[p].art = op[p].art
        /\ \A q \in Process \ {p} : place'[q] = place[q] /\ op'[q] = op[q]
    BY ResumeStep DEF CacheInv
  <1>2. op[p].then \in {"idle", "lease"}
    BY DEF CacheInv, CacheTypeOK
  <1>3. CacheTypeOK'
    BY <1>1 DEF CacheInv, CacheTypeOK, Op, Place
  <1>4. ArtifactInv'
    BY <1>1, <1>2 DEF CacheInv, ArtifactInv, Holding
  <1>5. EntryInv'
    <2>1. \A q \in Process : place'[q] \in {"work", "finish", "release"} => entry'[op'[q].art] # Nil
      BY <1>1, <1>2 DEF CacheInv, EntryInv
    <2>2. \A q \in Process : place'[q] = "unindex" => op'[q].hand # Nil /\ file'[op'[q].hand] = "none"
      <3> SUFFICES ASSUME NEW q \in Process, place'[q] = "unindex"
                   PROVE  op'[q].hand # Nil /\ file'[op'[q].hand] = "none"
        OBVIOUS
      <3>1. q # p /\ op'[q] = op[q] /\ place[q] = "unindex"
        BY <1>1, <1>2
      <3>2. op[q].hand # Nil /\ file[op[q].hand] = "none" /\ op[q].hand \in Artifact
        BY <3>1 DEF CacheInv, EntryInv, CacheTypeOK
      <3> QED
        BY <3>1, <3>2
    <2> QED
      BY <2>1, <2>2 DEF EntryInv
  <1>6. FilesAreManaged'
    BY DEF CacheInv, FilesAreManaged
  <1> QED
    BY <1>3, <1>4, <1>5, <1>6 DEF CacheInv

LEMMA BusyKeeps == ASSUME CacheInv, NEW p \in Process, Busy(p) PROVE CacheInv'
  <1>1. /\ CacheTypeOK /\ place[p] \in {"collect", "clean"} /\ Resume(p)
        /\ UNCHANGED <<file, written, entry, shared, exclusive, failed, user, now, ops, killed>>
    BY DEF CacheInv, Busy, cache, history
  <1>2. /\ place'[p] \in {"idle", "lease"} /\ \A q \in Process \ {p} : place'[q] = place[q]
    BY <1>1, ResumeStep DEF CacheTypeOK
  <1>3. LeaseInv'
    BY <1>1, <1>2 DEF CacheInv, LeaseInv, Holding, Deleting
  <1> QED
    BY <1>1, <1>3, ReturnKeeps DEF CacheTypeOK, Holding

LEMMA EndCollectKeeps == ASSUME CacheInv, NEW p \in Process, EndCollect(p) PROVE CacheInv'
  <1>1. /\ CacheTypeOK /\ LeaseInv /\ place[p] = "sweep" /\ Resume(p) /\ Drop(p)
        /\ UNCHANGED <<file, written, entry, failed, user, now, ops, killed>>
    BY DEF CacheInv, EndCollect, cache, history
  <1>2. /\ place' \in [Process -> Place] /\ place'[p] \in {"idle", "lease"}
        /\ \A q \in Process \ {p} : place'[q] = place[q]
    BY <1>1, ResumeStep DEF CacheTypeOK
  <1>3. LeaseInv' /\ shared' \in SUBSET Session /\ exclusive' \in Process \cup {Nil}
    BY <1>1, <1>2, DropStep DEF Holding, Deleting
  <1> QED
    BY <1>1, <1>3, ReturnKeeps DEF CacheTypeOK, Holding

LEMMA CleanKeeps == ASSUME CacheInv, NEW c \in Process, Clean(c) PROVE CacheInv'
  <1>1. /\ CacheTypeOK /\ place[c] = "clean" /\ Resume(c)
        /\ UNCHANGED <<written, entry, shared, exclusive, failed, user, now, ops, killed>>
    BY DEF CacheInv, Clean, history
  <1>2. /\ \A a \in Artifact : file'[a] \in {file[a], "none"}
        /\ file' \in [Artifact -> {"none", "partial", "whole"}]
    BY <1>1 DEF Clean, CacheTypeOK
  <1>3. place'[c] \in {"idle", "lease"} /\ \A q \in Process \ {c} : place'[q] = place[q]
    BY <1>1, ResumeStep DEF CacheTypeOK
  <1>4. LeaseInv'
    BY <1>1, <1>3 DEF CacheInv, LeaseInv, Holding, Deleting
  <1> QED
    BY <1>1, <1>2, <1>4, ReturnKeeps DEF CacheTypeOK, Holding

LEMMA ScanKeeps == ASSUME CacheInv, NEW p \in Process, Scan(p) PROVE CacheInv'
  <1> DEFINE chosen == Selected(IF op[p].offline THEN 0 ELSE MaxAge)
  <1>1. /\ CacheTypeOK /\ place[p] = "collect" /\ shared = {} /\ exclusive = Nil /\ exclusive' = p
        /\ UNCHANGED <<file, written, entry, shared, failed, user, now, ops, killed>>
    BY DEF CacheInv, Scan, GoOn, cache, history
  <1>2. /\ place' \in [Process -> Place] /\ place'[p] = "sweep"
        /\ \A q \in Process \ {p} : place'[q] = place[q]
    BY <1>1 DEF Scan, GoOn, CacheTypeOK, Place
  <1>3. chosen \in SUBSET Artifact
    BY <1>1, SelectedFacts
  <1>4. op' = [op EXCEPT ![p].victims = chosen]
    BY DEF Scan
  <1> HIDE DEF chosen
  <1>5. /\ op' \in [Process -> Op] /\ op'[p].art = op[p].art /\ op'[p].then = op[p].then
        /\ \A q \in Process \ {p} : op'[q] = op[q]
    BY <1>1, <1>3, <1>4 DEF CacheTypeOK, Op
  <1>6. CacheTypeOK'
    BY <1>1, <1>2, <1>5 DEF CacheTypeOK, Op, Place
  <1>7. LeaseInv'
    BY <1>1, <1>2, Constants DEF CacheInv, LeaseInv, Holding, Deleting
  <1>8. ArtifactInv' /\ EntryInv'
    BY <1>1, <1>2, <1>5 DEF CacheInv, ArtifactInv, EntryInv, Holding
  <1> QED
    BY <1>1, <1>6, <1>7, <1>8 DEF CacheInv, FilesAreManaged

LEMMA RemoveFilesKeeps ==
  ASSUME CacheInv, NEW p \in Process, NEW a \in Artifact, RemoveFiles(p, a) PROVE CacheInv'
  <1>1. /\ CacheTypeOK /\ place[p] = "sweep" /\ file' = [file EXCEPT ![a] = "none"]
        /\ UNCHANGED <<written, entry, shared, exclusive, failed, user, now, ops, killed>>
    BY DEF CacheInv, RemoveFiles, GoOn, history
  <1>2. /\ place' \in [Process -> Place] /\ place'[p] = "unindex"
        /\ \A q \in Process \ {p} : place'[q] = place[q]
    BY <1>1 DEF RemoveFiles, GoOn, CacheTypeOK, Place
  <1>3. /\ op' \in [Process -> Op] /\ op'[p].art = op[p].art /\ op'[p].then = op[p].then
        /\ op'[p].hand = a /\ \A q \in Process \ {p} : op'[q] = op[q]
    <2>1. op' = [op EXCEPT ![p].hand = a] /\ op \in [Process -> Op]
      BY <1>1 DEF RemoveFiles, CacheTypeOK, Op
    <2>2. op[p] \in Op
      BY <2>1
    <2> QED
      BY <2>1, <2>2 DEF Op
  <1>4. CacheTypeOK'
    BY <1>1, <1>2, <1>3 DEF CacheTypeOK, Op, Place
  <1>5. \A q \in Process : place[q] \notin Holding /\ (place[q] \in Deleting => q = p)
    BY <1>1, DeletesAlone DEF CacheInv, Deleting
  <1>6. LeaseInv' /\ ArtifactInv'
    BY <1>1, <1>2, <1>3 DEF CacheInv, LeaseInv, ArtifactInv, Holding, Deleting
  <1>7. EntryInv'
    <2>1. file'[a] = "none" /\ a # Nil
      BY <1>1, Constants DEF CacheTypeOK
    <2> QED
      BY <1>2, <1>3, <1>5, <2>1 DEF EntryInv, Holding, Deleting
  <1>8. FilesAreManaged'
    BY <1>1 DEF CacheInv, FilesAreManaged, CacheTypeOK
  <1> QED
    BY <1>4, <1>6, <1>7, <1>8 DEF CacheInv

LEMMA RemoveEntryKeeps == ASSUME CacheInv, NEW p \in Process, RemoveEntry(p) PROVE CacheInv'
  <1>1. /\ CacheTypeOK /\ place[p] = "unindex" /\ entry' = [entry EXCEPT ![op[p].hand] = Nil]
        /\ UNCHANGED <<file, written, shared, exclusive, failed, user, now, ops, killed>>
    BY DEF CacheInv, RemoveEntry, GoOn, history
  <1>2. op[p].hand \in Artifact /\ file[op[p].hand] = "none"
    BY <1>1 DEF CacheInv, EntryInv, CacheTypeOK
  <1>3. /\ place' \in [Process -> Place] /\ place'[p] = "sweep"
        /\ \A q \in Process \ {p} : place'[q] = place[q]
    BY <1>1 DEF RemoveEntry, GoOn, CacheTypeOK, Place
  <1>4. op' = [op EXCEPT ![p] = [[op[p] EXCEPT !.victims = op[p].victims \ {op[p].hand}]
                                   EXCEPT !.hand = Nil]]
    BY <1>1 DEF RemoveEntry, CacheTypeOK
  <1>5. /\ op' \in [Process -> Op] /\ op'[p].art = op[p].art /\ op'[p].then = op[p].then
        /\ \A q \in Process \ {p} : op'[q] = op[q]
    BY <1>1, <1>4 DEF CacheTypeOK, Op
  <1>6. CacheTypeOK'
    BY <1>1, <1>2, <1>3, <1>5 DEF CacheTypeOK, Op, Place
  <1>7. \A q \in Process : place[q] \notin Holding /\ (place[q] \in Deleting => q = p)
    BY <1>1, DeletesAlone DEF CacheInv, Deleting
  <1>8. LeaseInv' /\ ArtifactInv'
    BY <1>1, <1>3, <1>5 DEF CacheInv, LeaseInv, ArtifactInv, Holding, Deleting
  <1>9. EntryInv'
    BY <1>3, <1>7 DEF EntryInv, Holding, Deleting
  <1>10. FilesAreManaged'
    BY <1>1, <1>2 DEF CacheInv, FilesAreManaged, CacheTypeOK
  <1> QED
    BY <1>6, <1>8, <1>9, <1>10 DEF CacheInv

-----------------------------------------------------------------------------

LEMMA TickKeeps == ASSUME CacheInv, Tick PROVE CacheInv'
  <1>1. CacheTypeOK /\ now' \in 0..MaxTime /\ now' = now + 1
        /\ UNCHANGED <<file, written, entry, shared, exclusive, place, op, failed, user, ops, killed>>
    BY Constants DEF CacheInv, Tick, CacheTypeOK, cache, history
  <1>2. CacheTypeOK'
    BY <1>1 DEF CacheTypeOK
  <1> QED
    BY <1>1, <1>2 DEF CacheInv, LeaseInv, ArtifactInv, EntryInv, FilesAreManaged

LEMMA InvStep == ASSUME CacheInv, [CacheNext]_cacheVars PROVE CacheInv'
  <1>1. CASE UNCHANGED cacheVars
    BY <1>1 DEF cacheVars, cache, history, CacheInv, CacheTypeOK, LeaseInv, ArtifactInv, EntryInv, FilesAreManaged
  <1>2. ASSUME NEW p \in Process, CollectStep(p) PROVE CacheInv'
    BY <1>2, BusyKeeps, ScanKeeps, RemoveEntryKeeps, EndCollectKeeps, CleanKeeps, RemoveFilesKeeps
       DEF CollectStep
  <1>3. ASSUME NEW s \in Session, (\E a \in Uses[s] : Begin(s, a)) \/ Work(s) \/ SessionStep(s)
        PROVE  CacheInv'
    <2>1. CASE CollectStep(s)
      BY <1>2, <2>1, Constants
    <2> QED
      BY <1>3, <2>1, BeginKeeps, WorkKeeps, AcquireKeeps, RecordKeeps, SucceedKeeps, FailKeeps,
         ReleaseKeeps DEF SessionStep
  <1>4. ASSUME NEW c \in Collector, BeginCollect(c) \/ CollectStep(c) PROVE CacheInv'
    BY <1>2, <1>4, BeginCollectKeeps, Constants
  <1> QED
    BY <1>1, <1>3, <1>4, KillKeeps, TickKeeps DEF CacheNext

\* Every reachable state is well typed.
THEOREM CacheTypeCorrect == CacheSpec => []CacheTypeOK
  <1>1. CacheInv /\ [CacheNext]_cacheVars => CacheInv'
    BY InvStep
  <1>2. CacheInv => CacheTypeOK
    BY DEF CacheInv
  <1> QED
    BY <1>1, <1>2, InvInit, PTL DEF CacheSpec

\* The cache can account for every file, whatever was killed or collected.
THEOREM AllManaged == CacheSpec => []FilesAreManaged
  <1>1. CacheInv /\ [CacheNext]_cacheVars => CacheInv'
    BY InvStep
  <1>2. CacheInv => FilesAreManaged
    BY DEF CacheInv
  <1> QED
    BY <1>1, <1>2, InvInit, PTL DEF CacheSpec

LEMMA KeepStep ==
  ASSUME CacheInv, CacheNext, NEW a \in Artifact, file[a] # "none", file'[a] = "none",
         NEW s \in Session, place[s] \in {"work", "finish", "release"}, op[s].art = a
  PROVE  \E t \in Session : Work(t) /\ op[t].art = a
  <1>0. CacheTypeOK /\ s \in Process /\ s \in shared /\ exclusive = Nil
    BY Constants DEF CacheInv, LeaseInv, Holding
  <1>1. ASSUME NEW p \in Process, CollectStep(p) PROVE FALSE
    <2>1. place[p] \notin Deleting
      BY <1>0, DeletesAlone DEF CacheInv, Holding
    <2> QED
      BY <1>0, <1>1, <2>1 DEF CollectStep, Busy, Scan, RemoveEntry, EndCollect, Clean, RemoveFiles,
         GoOn, Deleting, cache
  <1>2. ASSUME NEW t \in Session, Work(t) PROVE op[t].art = a
    BY <1>2, <1>0 DEF Work, CacheTypeOK
  <1> QED
    BY <1>0, <1>1, <1>2, Constants DEF CacheNext, SessionStep, Begin, AcquireLease, RecordAccess,
       Succeed, Fail, CommitEntry, Release, BeginCollect, KillProcess, Tick, cache

\* The file of an artifact that a session works with is not collected.
THEOREM Kept == CacheSpec => InUseIsKept
  <1>1. CacheInv /\ [CacheNext]_cacheVars => CacheInv'
    BY InvStep
  <1>2. CacheInv /\ [CacheNext]_cacheVars =>
          [\A a \in Artifact, s \in Session :
             /\ file[a] # "none" /\ file'[a] = "none"
             /\ place[s] \in {"work", "finish", "release"} /\ op[s].art = a
             => \E t \in Session : Work(t) /\ op[t].art = a]_cacheVars
    BY KeepStep
  <1> QED
    BY <1>1, <1>2, InvInit, PTL DEF CacheSpec, InUseIsKept

\* A collection selects what brings the unprotected bytes under the limit, the least
\* recently used first, and nothing that need not go: for any sizes, limit and ages.
THEOREM CollectionsKeepToThePolicy == CacheSpec => CollectsWhatItMust
  <1>1. CacheInv /\ [CacheNext]_cacheVars => CacheInv'
    BY InvStep
  <1>2. ASSUME CacheInv, NEW p \in Process, Scan(p)
        PROVE  /\ MeetsBudget(op'[p].victims)
               /\ OnlyWhatMustGo(op'[p].victims, IF op[p].offline THEN 0 ELSE MaxAge)
    <2>1. op'[p].victims = Selected(IF op[p].offline THEN 0 ELSE MaxAge)
      BY <1>2 DEF Scan, CacheInv, CacheTypeOK
    <2> QED
      BY <1>2, <2>1, SelectedMeetsBudget, SelectedMustGo DEF CacheInv
  <1>3. CacheInv /\ [CacheNext]_cacheVars =>
          [\A p \in Process : Scan(p) =>
             /\ MeetsBudget(op'[p].victims)
             /\ OnlyWhatMustGo(op'[p].victims, IF op[p].offline THEN 0 ELSE MaxAge)]_cacheVars
    BY <1>2
  <1> QED
    BY <1>1, <1>3, InvInit, PTL DEF CacheSpec, CollectsWhatItMust

-----------------------------------------------------------------------------
(* A failed transfer *)

Using == {"work", "finish", "release"}

Unfinished(a) == entry[a] # Nil => ~entry[a].committed

\* The entry of what failed, or of what its last writer is still working with, is that of
\* an unfinished transfer.
FailedInv ==
  /\ \A p \in Process : place[p] = "work" /\ user[op[p].art] = p => Unfinished(op[p].art)
  /\ \A a \in failed : Unfinished(a)

\* What a collection has selected of it is not recent.
OldVictims ==
  \A p \in Process : place[p] \in Deleting =>
    \A a \in op[p].victims \cap failed : file[a] # "none" => now - written[a] >= Recent

RetryInv == FailedInv /\ OldVictims

LEMMA RetryInit == CacheInit => RetryInv
  BY DEF CacheInit, RetryInv, FailedInv, OldVictims, Deleting

\* A collection does not select a recent unfinished transfer.
LEMMA SelectedIsOld ==
  ASSUME CacheTypeOK, NEW maxAge, NEW a \in Selected(maxAge), Unfinished(a), file[a] # "none"
  PROVE  now - written[a] >= Recent
  <1>1. a \in Managed /\ ~Protected(a) /\ a \in Artifact
    BY SelectedFacts, PolicyTypes DEF Unprotected
  <1>2. ~entry[a].committed /\ ~(Age(a) < Recent)
    BY <1>1 DEF Protected, Unfinished, Managed
  <1>3. LastUsed(a) \in Nat /\ written[a] \in Nat /\ now \in Nat /\ Recent \in Nat
    BY <1>1, PolicyTypes, CacheAssumption DEF CacheTypeOK
  <1>4. entry[a].used \in Nat
    BY <1>1, CacheAssumption DEF CacheTypeOK, Managed
  <1>5. written[a] <= LastUsed(a)
    BY <1>2, <1>3, <1>4 DEF LastUsed
  <1> QED
    BY <1>2, <1>3, <1>5 DEF Age

\* A process that neither works with an artifact nor deletes any after its step.
LEMMA RetryApart ==
  ASSUME CacheInv, RetryInv, NEW p \in Process, place'[p] \notin Using \cup Deleting,
         \A q \in Process \ {p} : place'[q] = place[q] /\ op'[q] = op[q],
         \A a \in Artifact : file'[a] \in {file[a], "none"},
         UNCHANGED <<written, entry, failed, user, now>>
  PROVE  RetryInv'
  <1>2. FailedInv'
    BY DEF RetryInv, FailedInv, Unfinished, Using
  <1>3. OldVictims'
    <2> SUFFICES ASSUME NEW q \in Process, place'[q] \in Deleting,
                        NEW a \in op'[q].victims, a \in failed, file'[a] # "none"
                 PROVE  now - written[a] >= Recent
      BY DEF OldVictims
    <2>1. q # p /\ place[q] \in Deleting /\ a \in op[q].victims
      OBVIOUS
    <2>2. a \in Artifact
      BY DEF CacheInv, CacheTypeOK
    <2> QED
      BY <2>1, <2>2 DEF RetryInv, OldVictims
  <1> QED
    BY <1>2, <1>3 DEF RetryInv

\* A process that ends: what it leaves unfinished has failed.
LEMMA LeaveRetry ==
  ASSUME CacheInv, RetryInv, NEW p \in Process, place' = [place EXCEPT ![p] = "idle"],
         op' = [op EXCEPT ![p] = Idle], UNCHANGED <<file, written, entry, user, now>>,
         failed' \subseteq failed \cup
           {a \in Artifact : place[p] = "work" /\ user[a] = p /\ op[p].art = a}
  PROVE  RetryInv'
  <1>1. /\ place'[p] = "idle" /\ op'[p] = Idle
        /\ \A q \in Process \ {p} : place'[q] = place[q] /\ op'[q] = op[q]
    BY DEF CacheInv, CacheTypeOK
  <1>3. FailedInv'
    <2>1. \A q \in Process : place'[q] = "work" /\ user[op'[q].art] = q => Unfinished(op[q].art)
      BY <1>1 DEF RetryInv, FailedInv
    <2>2. \A a \in failed' : Unfinished(a)
      BY DEF RetryInv, FailedInv
    <2> QED
      BY <1>1, <2>1, <2>2 DEF FailedInv, Unfinished
  <1>4. OldVictims'
    <2>1. CASE place[p] = "work"
      <3>1. \A q \in Process : place'[q] \notin Deleting
        BY <1>1, <2>1, DeletesAlone DEF CacheInv, Holding, Deleting
      <3> QED
        BY <3>1 DEF OldVictims
    <2>2. CASE place[p] # "work"
      <3>1. failed' \subseteq failed
        BY <2>2
      <3> QED
        BY <1>1, <3>1 DEF RetryInv, OldVictims, Deleting
    <2> QED
      BY <2>1, <2>2
  <1> QED
    BY <1>3, <1>4 DEF RetryInv

LEMMA SessionRetry ==
  ASSUME CacheInv, RetryInv, NEW s \in Session,
         RecordAccess(s) \/ Work(s) \/ Succeed(s) \/ CommitEntry(s)
  PROVE  RetryInv'
  <1> DEFINE a == op[s].art
  <1>1. /\ s \in Process /\ CacheTypeOK /\ place[s] \in Holding /\ a # Nil /\ a \in Artifact
        /\ op \in [Process -> Op]
    BY Constants DEF RecordAccess, Work, Succeed, CommitEntry, GoOn, CacheInv, ArtifactInv,
       Holding, CacheTypeOK, Op
  <1>2. op' = op
    BY DEF RecordAccess, Work, Succeed, CommitEntry
  <1>3. \A q \in Process \ {s} : place'[q] = place[q]
    BY <1>1 DEF RecordAccess, Work, Succeed, CommitEntry, GoOn, CacheTypeOK
  <1>4. place'[s] \notin Deleting /\ \A q \in Process : place[q] \notin Deleting
    BY <1>1, DeletesAlone DEF CacheInv, RecordAccess, Work, Succeed, CommitEntry, GoOn, CacheTypeOK,
       Deleting
  <1>5. OldVictims'
    BY <1>3, <1>4 DEF OldVictims
  <1>6. ASSUME NEW c \in [used : 0..MaxTime, committed : BOOLEAN],
               entry' = [entry EXCEPT ![a] = c], user' = [user EXCEPT ![a] = s], failed' = failed \ {a},
               place'[s] = "work" => ~c.committed
        PROVE  FailedInv'
    <2>1. /\ entry'[a] = c /\ user'[a] = s
          /\ \A b \in Artifact \ {a} : entry'[b] = entry[b] /\ user'[b] = user[b]
      BY <1>1, <1>6 DEF CacheTypeOK
    <2> HIDE DEF a
    <2>2. ASSUME NEW q \in Process, place'[q] = "work", user'[op'[q].art] = q PROVE Unfinished(op[q].art)'
      <3>1. CASE op[q].art = a
        BY <1>2, <1>6, <2>1, <2>2, <3>1 DEF Unfinished
      <3>2. CASE op[q].art # a
        <4>1. q # s /\ place[q] = "work"
          BY <1>3, <2>2, <3>2 DEF a
        <4>2. op[q].art \in Artifact
          BY <4>1, Constants DEF CacheInv, ArtifactInv, Holding, CacheTypeOK
        <4>3. Unfinished(op[q].art)
          BY <1>2, <2>1, <2>2, <3>2, <4>1, <4>2 DEF RetryInv, FailedInv
        <4> QED
          BY <1>2, <2>1, <3>2, <4>2, <4>3 DEF Unfinished
      <3> QED
        BY <3>1, <3>2
    <2>3. ASSUME NEW b \in failed' PROVE Unfinished(b)'
      <3>1. b \in Artifact \ {a} /\ b \in failed
        BY <1>1, <1>6 DEF a, CacheTypeOK
      <3> QED
        BY <2>1, <3>1 DEF RetryInv, FailedInv, Unfinished
    <2> QED
      BY <2>2, <2>3 DEF FailedInv
  <1>7. FailedInv'
    <2>1. CASE RecordAccess(s)
      BY <1>1, <1>6, <2>1 DEF RecordAccess, Record, CacheTypeOK
    <2>2. CASE Work(s) \/ Succeed(s)
      <3>1. /\ entry' = entry /\ failed' = failed /\ user' = user /\ place[s] = "work"
            /\ place'[s] \in {"work", "finish"}
        BY <1>1, <2>2 DEF Work, Succeed, GoOn, CacheTypeOK, cache, history
      <3> QED
        BY <1>2, <1>3, <3>1 DEF RetryInv, FailedInv, Unfinished
    <2>3. CASE CommitEntry(s)
      <3>1. place'[s] = "release"
        BY <1>1, <2>3 DEF CommitEntry, GoOn, CacheTypeOK
      <3> QED
        BY <1>1, <1>6, <2>3, <3>1 DEF CommitEntry, Record, CacheTypeOK
    <2> QED
      BY <2>1, <2>2, <2>3
  <1> QED
    BY <1>5, <1>7 DEF RetryInv

\* What a collection that goes on, or back to where it was called from, leaves.
LEMMA ResumeRetry ==
  ASSUME CacheInv, NEW p \in Process, Resume(p)
  PROVE  /\ place'[p] \notin Using \cup Deleting
         /\ \A q \in Process \ {p} : place'[q] = place[q] /\ op'[q] = op[q]
  <1>1. op[p].then \in {"idle", "lease"} /\ place'[p] = op[p].then
    BY ResumeStep DEF CacheInv, CacheTypeOK
  <1> QED
    BY <1>1, ResumeStep DEF CacheInv, Using, Deleting

LEMMA CollectRetry ==
  ASSUME CacheInv, RetryInv, NEW p \in Process, CollectStep(p)
  PROVE  RetryInv'
  <1>0. CacheTypeOK
    BY DEF CacheInv
  <1>1. CASE Busy(p) \/ EndCollect(p)
    <2>1. Resume(p) /\ UNCHANGED <<file, written, entry, failed, user, now>>
      BY <1>1 DEF Busy, EndCollect, cache, history
    <2> QED
      BY <2>1, ResumeRetry, RetryApart
  <1>2. CASE Clean(p)
    <2>1. /\ Resume(p) /\ UNCHANGED <<written, entry, failed, user, now>>
          /\ \A a \in Artifact : file'[a] \in {file[a], "none"}
      BY <1>2 DEF Clean, history
    <2> QED
      BY <2>1, ResumeRetry, RetryApart
  <1>3. CASE Scan(p)
    <2> DEFINE chosen == Selected(IF op[p].offline THEN 0 ELSE MaxAge)
    <2>1. /\ place[p] = "collect" /\ place'[p] = "sweep" /\ exclusive = Nil
          /\ \A q \in Process \ {p} : place'[q] = place[q]
          /\ UNCHANGED <<file, written, entry, failed, user, now>>
      BY <1>0, <1>3 DEF Scan, GoOn, CacheTypeOK, cache, history
    <2>2. op' = [op EXCEPT ![p].victims = chosen]
      BY <1>3 DEF Scan
    <2>3. \A a \in chosen : Unfinished(a) /\ file[a] # "none" => now - written[a] >= Recent
      BY <1>0, SelectedIsOld
    <2> HIDE DEF chosen
    <2>4. /\ op'[p].victims = chosen /\ op'[p].art = op[p].art
          /\ \A q \in Process \ {p} : op'[q] = op[q]
      BY <1>0, <2>2 DEF CacheTypeOK
    <2>5. FailedInv'
      BY <2>1, <2>4 DEF RetryInv, FailedInv, Unfinished, Using
    <2>6. \A q \in Process \ {p} : place'[q] \notin Deleting
      BY <2>1, Constants DEF CacheInv, LeaseInv
    <2>7. OldVictims'
      BY <2>1, <2>3, <2>4, <2>6 DEF OldVictims, RetryInv, FailedInv
    <2> QED
      BY <2>5, <2>7 DEF RetryInv
  <1>4. ASSUME NEW a \in Artifact, RemoveFiles(p, a) PROVE RetryInv'
    <2>1. /\ place[p] = "sweep" /\ place'[p] = "unindex"
          /\ \A q \in Process \ {p} : place'[q] = place[q]
          /\ UNCHANGED <<written, entry, failed, user, now>>
          /\ \A b \in Artifact : file'[b] \in {file[b], "none"}
      BY <1>0, <1>4 DEF RemoveFiles, GoOn, CacheTypeOK, history
    <2>2. \A q \in Process : op'[q].victims = op[q].victims /\ op'[q].art = op[q].art
      BY <1>0, <1>4 DEF RemoveFiles, CacheTypeOK
    <2>3. FailedInv'
      BY <2>1, <2>2 DEF RetryInv, FailedInv, Unfinished, Using
    <2>4. \A q \in Process : place'[q] \in Deleting => place[q] \in Deleting
      BY <2>1 DEF Deleting
    <2>5. OldVictims'
      BY <1>0, <2>1, <2>2, <2>4 DEF OldVictims, RetryInv, CacheTypeOK
    <2> QED
      BY <2>3, <2>5 DEF RetryInv
  <1>5. CASE RemoveEntry(p)
    <2>1. /\ place[p] = "unindex" /\ place'[p] = "sweep"
          /\ \A q \in Process \ {p} : place'[q] = place[q]
          /\ UNCHANGED <<file, written, failed, user, now>>
          /\ \A b \in Artifact : entry'[b] \in {entry[b], Nil}
      BY <1>0, <1>5 DEF RemoveEntry, GoOn, CacheTypeOK, history
    <2>2. \A q \in Process : op'[q].victims \subseteq op[q].victims /\ op'[q].art = op[q].art
      BY <1>0, <1>5 DEF RemoveEntry, CacheTypeOK
    <2>4. \A b \in Artifact : Unfinished(b) => Unfinished(b)'
      BY <2>1 DEF Unfinished
    <2>5. \A q \in Process : place[q] \notin Using
      BY <2>1, DeletesAlone DEF CacheInv, Deleting, Using, Holding
    <2>6. FailedInv'
      BY <1>0, <2>1, <2>4, <2>5 DEF RetryInv, FailedInv, Using, CacheTypeOK
    <2>7. OldVictims'
      BY <2>1, <2>2 DEF OldVictims, RetryInv, Deleting
    <2> QED
      BY <2>6, <2>7 DEF RetryInv
  <1> QED
    BY <1>1, <1>2, <1>3, <1>4, <1>5 DEF CollectStep

LEMMA RetryStep ==
  ASSUME CacheInv, RetryInv, [CacheNext]_cacheVars
  PROVE  RetryInv'
  <1>0. CacheTypeOK
    BY DEF CacheInv
  <1>1. CASE UNCHANGED cacheVars
    BY <1>1 DEF cacheVars, cache, history, RetryInv, FailedInv, OldVictims, Unfinished
  <1>2. ASSUME NEW s \in Session, NEW a \in Uses[s], Begin(s, a) PROVE RetryInv'
    <2>1. /\ s \in Process /\ place'[s] \notin Using \cup Deleting 
          /\ \A q \in Process \ {s} : place'[q] = place[q] /\ op'[q] = op[q]
          /\ UNCHANGED <<file, written, entry, failed, user, now>>
      BY <1>0, <1>2, Constants DEF Begin, CacheTypeOK, cache, history, Using, Deleting
    <2> QED
      BY <2>1, RetryApart
  <1>3. ASSUME NEW s \in Session, AcquireLease(s) \/ Release(s) PROVE RetryInv'
    <2>1. /\ s \in Process /\ place'[s] \notin Using \cup Deleting /\ op' = op
          /\ \A q \in Process \ {s} : place'[q] = place[q]
          /\ UNCHANGED <<file, written, entry, failed, user, now>>
      BY <1>0, <1>3, Constants
         DEF AcquireLease, Release, GoOn, CacheTypeOK, cache, history, Using, Deleting
    <2> QED
      BY <2>1, RetryApart
  <1>4. ASSUME NEW s \in Session, Fail(s) PROVE RetryInv'
    <2>1. s \in Process /\ op[s].art \in Artifact /\ place[s] = "work"
      BY <1>4, Constants DEF Fail, CacheInv, ArtifactInv, Holding, CacheTypeOK
    <2>2. failed' \subseteq failed \cup
            {a \in Artifact : place[s] = "work" /\ user[a] = s /\ op[s].art = a}
      BY <1>4, <2>1 DEF Fail
    <2> QED
      BY <1>4, <2>1, <2>2, LeaveRetry DEF Fail, cache
  <1>5. ASSUME NEW p \in Process, KillProcess(p) PROVE RetryInv'
    <2>1. failed' \subseteq failed \cup
            {a \in Artifact : place[p] = "work" /\ user[a] = p /\ op[p].art = a}
      BY <1>5 DEF KillProcess
    <2> QED
      BY <1>5, <2>1, LeaveRetry DEF KillProcess, cache
  <1>6. ASSUME NEW c \in Collector, BeginCollect(c) PROVE RetryInv'
    <2>1. /\ c \in Process /\ place'[c] \notin Using \cup Deleting /\ op' = op
          /\ \A q \in Process \ {c} : place'[q] = place[q]
          /\ UNCHANGED <<file, written, entry, failed, user, now>>
      BY <1>0, <1>6, Constants DEF BeginCollect, CacheTypeOK, cache, history, Using, Deleting
    <2> QED
      BY <2>1, RetryApart
  <1>7. CASE Tick
    <2>1. /\ now' = now + 1 /\ UNCHANGED <<file, written, entry, place, op, failed, user>>
      BY <1>7 DEF Tick, cache, history
    <2>2. now \in Int /\ Recent \in Int /\ \A a \in Artifact : written[a] \in Int
      BY <1>0, CacheAssumption DEF CacheTypeOK
    <2>3. FailedInv'
      BY <2>1 DEF RetryInv, FailedInv, Unfinished
    <2>4. OldVictims'
      <3> SUFFICES ASSUME NEW p \in Process, place[p] \in Deleting,
                          NEW a \in op[p].victims \cap failed, file[a] # "none"
                   PROVE  now' - written[a] >= Recent
        BY <2>1 DEF OldVictims
      <3>1. a \in Artifact /\ now - written[a] >= Recent
        BY <1>0 DEF RetryInv, OldVictims, CacheTypeOK
      <3> QED
        BY <2>1, <2>2, <3>1
    <2> QED
      BY <2>3, <2>4 DEF RetryInv
  <1> QED
    BY <1>1, <1>2, <1>3, <1>4, <1>5, <1>6, <1>7, SessionRetry, CollectRetry, Constants
       DEF CacheNext, SessionStep

\* What a failed transfer has left can be retried: no collection deletes it while it is
\* recent and nobody else has recorded the artifact since, for any sizes, limit and ages,
\* any number of sessions, also with the same artifact, of collectors and of kills.
THEOREM FailedRetriesAreKept == CacheSpec => FailedRetryKept
  <1>1. CacheInv /\ [CacheNext]_cacheVars => CacheInv'
    BY InvStep
  <1>2. CacheInv /\ RetryInv /\ [CacheNext]_cacheVars => RetryInv'
    BY RetryStep
  <1>3. ASSUME RetryInv, NEW p \in Process, NEW a \in Artifact, RemoveFiles(p, a), a \in failed,
               file[a] # "none"
        PROVE  now - written[a] >= Recent
    BY <1>3 DEF RemoveFiles, GoOn, RetryInv, OldVictims, Deleting
  <1>4. RetryInv /\ [CacheNext]_cacheVars =>
          [\A p \in Process, a \in Artifact :
             RemoveFiles(p, a) /\ a \in failed /\ file[a] # "none" => now - written[a] >= Recent]_cacheVars
    BY <1>3
  <1> QED
    BY <1>1, <1>2, <1>4, InvInit, RetryInit, PTL DEF CacheSpec, FailedRetryKept
=============================================================================
