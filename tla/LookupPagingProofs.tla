-------------------------- MODULE LookupPagingProofs --------------------------
(***************************************************************************)
(* LookupPaging, proved for any documents, limit, page size and number of  *)
(* results: type correctness, the refinement of AtomicLookup, and that the *)
(* paging loop cannot go round for ever.                                   *)
(***************************************************************************)
EXTENDS LookupPaging, FiniteSetTheorems, TLAPS

\* The results that the client has been through.
Position ==
  CASE lookup \in {"idle", "send"} -> cursor
    [] lookup = "stream" -> cursor + received
    [] OTHER -> Len(results)

\* What the client holds are distinct results, and all it has been through as long as
\* it is below the limit; a follow-up has the page size of the first call.
CollectInv ==
  /\ SetOf(documentIds) \subseteq SetOf(results)
  /\ Cardinality(SetOf(documentIds)) = Len(documentIds)
  /\ lookup # "failed" /\ Len(documentIds) < Limit =>
       \A i \in 1 .. Position : results[i] \in SetOf(documentIds)
  /\ lookup = "send" /\ cursor # 0 => firstSize = PageSize
  /\ lookup = "stream" => firstSize = PageSize
  /\ lookup = "idle" => results = <<>> /\ cursor = 0 /\ documentIds = <<>>
  /\ lookup # "refused"

Inv == PagingTypeOK /\ CollectInv

-------------------------------------------------------------------------------
LEMMA PageSizeType == PageSize \in Nat \ {0}
  BY LookupPagingAssumption DEF PageSize

LEMMA SetOfAppend ==
  ASSUME NEW s \in Seq(Documents), NEW x \in Documents
  PROVE  SetOf(Append(s, x)) = SetOf(s) \union {x}
<1>1. /\ Len(s) \in Nat /\ Len(Append(s, x)) = Len(s) + 1
      /\ Append(s, x)[Len(s) + 1] = x
      /\ \A i \in 1 .. Len(s) : Append(s, x)[i] = s[i]
  OBVIOUS
<1> QED
  BY <1>1 DEF SetOf

\* A sequence of documents has a finite set of them.
LEMMA SetOfType ==
  ASSUME NEW s \in Seq(Documents)
  PROVE  SetOf(s) \in SUBSET Documents /\ IsFiniteSet(SetOf(s)) /\ Cardinality(SetOf(s)) \in Nat
<1>1. SetOf(s) \in SUBSET Documents
  BY DEF SetOf
<1> QED
  BY <1>1, LookupPagingAssumption, FS_Subset, FS_CardinalityType

-------------------------------------------------------------------------------
(* The invariant, step by step.                                            *)

LEMMA NothingYet == /\ <<>> \in Seq(Documents) /\ Len(<<>>) = 0
                    /\ SetOf(<<>>) = {} /\ Cardinality(SetOf(<<>>)) = 0
<1>1. SetOf(<<>>) = {}
  BY DEF SetOf
<1> QED
  BY <1>1, FS_EmptySet

LEMMA InitInv == PagingInit => Inv
<1> SUFFICES ASSUME PagingInit PROVE Inv
  OBVIOUS
<1> USE NothingYet, PageSizeType, LookupPagingAssumption DEF PagingInit
<1>1. PagingTypeOK
  BY DEF PagingTypeOK
<1>2. CollectInv
  BY DEF CollectInv, Position
<1> QED
  BY <1>1, <1>2 DEF Inv

LEMMA StartInv == Inv /\ StartLookup => Inv'
<1> SUFFICES ASSUME Inv, StartLookup PROVE Inv'
  OBVIOUS
<1> USE PageSizeType DEF Inv
<1>1. results' \in Seq(Documents) /\ lookup = "idle" /\ lookup' = "send"
  BY DEF StartLookup
<1>2. cursor = 0 /\ documentIds = <<>> /\ SetOf(<<>>) = {} /\ UNCHANGED <<cursor, received, firstSize, documentIds>>
  BY <1>1 DEF StartLookup, CollectInv, SetOf
<1>3. PagingTypeOK'
  BY <1>1, <1>2 DEF PagingTypeOK, PageSize
<1>4. CollectInv'
  BY <1>1, <1>2 DEF PagingTypeOK, CollectInv, Position
<1> QED
  BY <1>3, <1>4

LEMMA SendInv == Inv /\ SendPage => Inv'
<1> SUFFICES ASSUME Inv, SendPage PROVE Inv'
  OBVIOUS
<1> USE PageSizeType DEF Inv
<1>1. /\ lookup = "send" /\ lookup' = "stream" /\ firstSize' = PageSize /\ received' = 0
      /\ UNCHANGED <<results, cursor, documentIds>>
  BY DEF SendPage, CollectInv
<1>2. PagingTypeOK'
  BY <1>1 DEF PagingTypeOK, PageSize
<1>3. Position' = Position
  BY <1>1 DEF Position, PagingTypeOK
<1>4. CollectInv'
  BY <1>1, <1>3 DEF CollectInv, PageSize
<1> QED
  BY <1>2, <1>4

LEMMA ReceiveInv == Inv /\ ReceiveResult => Inv'
<1> SUFFICES ASSUME Inv, ReceiveResult PROVE Inv'
  OBVIOUS
<1> USE PageSizeType, LookupPagingAssumption DEF Inv
<1> DEFINE n == cursor + received + 1
           x == results[n]
<1>1. /\ lookup = "stream" /\ received' = received + 1 /\ documentIds' = Added(x)
      /\ UNCHANGED <<results, cursor, firstSize, lookup>>
  BY DEF ReceiveResult
<1>2. /\ cursor \in Nat /\ received \in Nat /\ Len(results) \in Nat
      /\ results \in Seq(Documents) /\ documentIds \in Seq(Documents)
      /\ Len(documentIds) \in Nat /\ Len(documentIds) <= Limit
  BY DEF PagingTypeOK
<1>3. n \in 1 .. Len(results) /\ received' \in 0 .. PageSize
  BY <1>1, <1>2 DEF ReceiveResult, StreamEnds, PagingTypeOK
<1>4. x \in Documents /\ x \in SetOf(results)
  BY <1>2, <1>3 DEF SetOf
<1> HIDE DEF x
<1>5. \/ UNCHANGED documentIds /\ (x \in SetOf(documentIds) \/ Len(documentIds) = Limit)
      \/ /\ documentIds' = Append(documentIds, x) /\ x \notin SetOf(documentIds)
         /\ Len(documentIds) < Limit
  BY <1>1, <1>2 DEF Added
<1>6. CASE UNCHANGED documentIds
  <2>1. PagingTypeOK'
    BY <1>1, <1>2, <1>3, <1>6 DEF PagingTypeOK, PageSize
  <2>2. Len(documentIds) < Limit => \A i \in 1 .. n : results[i] \in SetOf(documentIds)
    <3>1. Position = n - 1
      BY <1>1, <1>2 DEF Position
    <3>2. Len(documentIds) < Limit => x \in SetOf(documentIds)
      BY <1>2, <1>5, <1>6, LookupPagingAssumption, SetOfAppend DEF Added
    <3> QED
      BY <1>1, <1>2, <1>3, <3>1, <3>2 DEF CollectInv, x
  <2>3. Position' = n
    BY <1>1, <1>2 DEF Position
  <2>4. CollectInv'
    BY <1>1, <1>6, <2>2, <2>3 DEF CollectInv, PageSize
  <2> QED
    BY <2>1, <2>4
<1>7. CASE /\ documentIds' = Append(documentIds, x) /\ x \notin SetOf(documentIds)
           /\ Len(documentIds) < Limit
  <2>1. /\ documentIds' \in Seq(Documents) /\ Len(documentIds') = Len(documentIds) + 1
        /\ SetOf(documentIds') = SetOf(documentIds) \union {x}
    BY <1>2, <1>4, <1>7, SetOfAppend
  <2>2. Cardinality(SetOf(documentIds')) = Len(documentIds')
    <3>1. IsFiniteSet(SetOf(documentIds)) /\ Cardinality(SetOf(documentIds)) = Len(documentIds)
      BY <1>2, SetOfType DEF CollectInv
    <3>2. Cardinality(SetOf(documentIds) \union {x}) = Cardinality(SetOf(documentIds)) + 1
      BY <1>7, <3>1, FS_AddElement
    <3> QED
      BY <2>1, <3>1, <3>2
  <2>3. PagingTypeOK'
    <3>1. documentIds' \in Seq(Documents) /\ Len(documentIds') <= Limit
      BY <1>2, <1>7, <2>1
    <3>2. PageSize' = PageSize
      BY DEF PageSize
    <3>3. cursor + received' <= Len(results)
      BY <1>1, <1>2, <1>3
    <3> QED
      BY <1>1, <1>3, <3>1, <3>2, <3>3 DEF PagingTypeOK
  <2>4. Position = n - 1 /\ Position' = n
    BY <1>1, <1>2 DEF Position
  <2>5. \A i \in 1 .. n : results[i] \in SetOf(documentIds')
    BY <1>1, <1>2, <1>3, <1>7, <2>1, <2>4 DEF CollectInv, x
  <2>6. CollectInv'
    BY <1>1, <1>4, <2>1, <2>2, <2>4, <2>5 DEF CollectInv, PageSize
  <2> QED
    BY <2>3, <2>6
<1> QED
  BY <1>5, <1>6, <1>7

LEMMA EndInv == Inv /\ EndPage => Inv'
<1> SUFFICES ASSUME Inv, EndPage PROVE Inv'
  OBVIOUS
<1> USE PageSizeType, LookupPagingAssumption DEF Inv
<1>1. /\ lookup = "stream" /\ StreamEnds
      /\ \/ received < PageSize /\ lookup' = "done" /\ cursor' = cursor
         \/ /\ received = PageSize /\ cursor' = cursor + received
            /\ \/ Len(documentIds) < Limit /\ lookup' = "send"
               \/ Len(documentIds) = Limit /\ lookup' = "done"
      /\ UNCHANGED <<results, received, firstSize, documentIds>>
  BY DEF EndPage, NextCursor, PagingTypeOK
<1>2. /\ cursor \in Nat /\ received \in Nat /\ Len(results) \in Nat /\ Len(documentIds) \in Nat
      /\ cursor + received <= Len(results)
  BY <1>1 DEF PagingTypeOK
<1>3. PagingTypeOK'
  BY <1>1, <1>2 DEF PagingTypeOK, PageSize
<1>4. Len(documentIds) < Limit => Position' = Position
  BY <1>1, <1>2 DEF Position, StreamEnds
<1>5. CollectInv'
  BY <1>1, <1>2, <1>4 DEF CollectInv, PageSize
<1> QED
  BY <1>3, <1>5

LEMMA OverInv == Inv /\ (LookupFails \/ LookupReturns) => Inv'
<1> SUFFICES ASSUME Inv, LookupFails \/ LookupReturns PROVE Inv'
  OBVIOUS
<1> USE PageSizeType, LookupPagingAssumption DEF Inv
<1>1. CASE LookupFails
  BY <1>1 DEF LookupFails, PagingTypeOK, CollectInv, PageSize
<1>2. CASE LookupReturns
  <2>1. PagingTypeOK'
    BY <1>2, NothingYet DEF LookupReturns, PagingTypeOK, PageSize
  <2>2. CollectInv'
    BY <1>2, NothingYet DEF LookupReturns, CollectInv, Position
  <2> QED
    BY <2>1, <2>2
<1> QED
  BY <1>1, <1>2

LEMMA NextInv == Inv /\ [PagingNext]_pagingVars => Inv'
<1>1. Inv /\ UNCHANGED pagingVars => Inv'
  BY DEF pagingVars, Inv, PagingTypeOK, CollectInv, Position, PageSize
<1> QED
  BY <1>1, StartInv, SendInv, ReceiveInv, EndInv, OverInv DEF PagingNext, PagingStep

LEMMA Invariance == PagingSpec => []Inv
  BY InitInv, NextInv, PTL DEF PagingSpec

\* The values of the variables, and never more documents than the limit.
THEOREM LookupIsBounded == PagingSpec => []PagingTypeOK
<1>1. Inv => PagingTypeOK
  BY DEF Inv
<1> QED
  BY <1>1, Invariance, PTL

-------------------------------------------------------------------------------
(* The refinement.                                                         *)

\* What the client holds when the loop ends is a result of the atomic lookup.
LEMMA Collected ==
  Inv /\ lookup = "done" => SetOf(documentIds) \in LookupResults(SetOf(results), Limit)
<1> SUFFICES ASSUME Inv, lookup = "done"
             PROVE  SetOf(documentIds) \in LookupResults(SetOf(results), Limit)
  OBVIOUS
<1> USE LookupPagingAssumption DEF Inv
<1>1. /\ documentIds \in Seq(Documents) /\ results \in Seq(Documents)
      /\ Len(documentIds) \in Nat /\ Len(documentIds) <= Limit
  BY DEF PagingTypeOK
<1>2. /\ IsFiniteSet(SetOf(results)) /\ Cardinality(SetOf(results)) \in Nat
      /\ SetOf(documentIds) \in SUBSET SetOf(results)
      /\ Cardinality(SetOf(documentIds)) = Len(documentIds)
  BY <1>1, SetOfType DEF CollectInv
<1>3. Cardinality(SetOf(documentIds)) <= Cardinality(SetOf(results))
  BY <1>2, FS_Subset
<1>4. CASE Len(documentIds) < Limit
  <2>1. SetOf(documentIds) = SetOf(results)
    BY <1>2, <1>4 DEF CollectInv, Position, SetOf
  <2> QED
    BY <1>2, <1>4, <2>1 DEF LookupResults
<1>5. CASE Len(documentIds) = Limit
  BY <1>1, <1>2, <1>3, <1>5 DEF LookupResults
<1> QED
  BY <1>1, <1>4, <1>5

LEMMA SameContract ==
  ASSUME NEW viewable, NEW limit
  PROVE  Atomic!LookupResults(viewable, limit) = LookupResults(viewable, limit)
  BY Zenon DEF Atomic!LookupResults, LookupResults, Atomic!Cardinality, Cardinality

\* Pages are invisible to the caller; the end of the last one is the answer.
LEMMA StepRefines == Inv /\ Inv' /\ [PagingNext]_pagingVars => [Atomic!Next]_(Atomic!vars)
<1> SUFFICES ASSUME Inv, Inv', [PagingNext]_pagingVars PROVE [Atomic!Next]_(Atomic!vars)
  OBVIOUS
<1>1. CASE StartLookup
  <2>1. results' \in Seq(Documents)
    BY DEF Inv, PagingTypeOK
  <2>2. SetOf(results') \in SUBSET Documents
    BY <2>1, SetOfType
  <2>3. Atomic!Ask
    BY <1>1, <2>2 DEF StartLookup, Atomic!Ask, Status, SetOf
  <2> QED
    BY <2>3 DEF Atomic!Next
<1>2. CASE SendPage \/ ReceiveResult
  <2>1. lookup \in {"send", "stream"} /\ lookup' \in {"send", "stream"} /\ UNCHANGED results
    BY <1>2 DEF SendPage, ReceiveResult, Inv, CollectInv
  <2> QED
    BY <2>1 DEF Atomic!vars, Status, SetOf
<1>3. CASE EndPage
  <2>1. lookup = "stream" /\ lookup' \in {"send", "done"} /\ UNCHANGED <<results, documentIds>>
    BY <1>3 DEF EndPage
  <2>2. CASE lookup' = "send"
    BY <2>1, <2>2 DEF Atomic!vars, Status, SetOf
  <2>3. CASE lookup' = "done"
    <3>1. SetOf(documentIds') \in LookupResults(SetOf(results), Limit)
      <4>1. (lookup = "done")' /\ SetOf(results') = SetOf(results)
        BY <2>1, <2>3 DEF SetOf
      <4>2. (SetOf(documentIds) \in LookupResults(SetOf(results), Limit))'
        <5>1. (Inv /\ lookup = "done" => SetOf(documentIds) \in LookupResults(SetOf(results), Limit))'
          BY Collected, PTL
        <5> QED
          BY <4>1, <5>1
      <4> QED
        BY <2>1, <4>1, <4>2
    <3>2. Atomic!Answer
      BY <2>1, <2>3, <3>1, SameContract, Zenon DEF Atomic!Answer, Status
    <3> QED
      BY <3>2 DEF Atomic!Next
  <2> QED
    BY <2>1, <2>2, <2>3
<1>4. CASE LookupFails
  <2>1. Atomic!Fail
    BY <1>4 DEF LookupFails, Atomic!Fail, Status, SetOf
  <2> QED
    BY <2>1 DEF Atomic!Next
<1>5. CASE LookupReturns
  <2>1. lookup' = "idle" /\ SetOf(results') = {} /\ Status' = "idle"
    BY <1>5, NothingYet DEF LookupReturns, Status
  <2>2. Status \in {"answered", "failed"}
    BY <1>5 DEF LookupReturns, Inv, CollectInv, Status
  <2>3. Atomic!Return
    BY <2>1, <2>2 DEF Atomic!Return
  <2> QED
    BY <2>3 DEF Atomic!Next
<1>6. CASE UNCHANGED pagingVars
  BY <1>6 DEF pagingVars, Atomic!vars, Status, SetOf
<1> QED
  BY <1>1, <1>2, <1>3, <1>4, <1>5, <1>6 DEF PagingNext, PagingStep

\* LookupPaging implements AtomicLookup.
THEOREM PagingRefinesAtomic == PagingSpec => PagingIsAtomic
<1>1. PagingInit => Atomic!Init
  BY DEF PagingInit, Atomic!Init, Status, SetOf
<1> QED
  BY <1>1, Invariance, StepRefines, PTL DEF PagingSpec, PagingIsAtomic, Atomic!Spec
-------------------------------------------------------------------------------
(* What LookupEnds rests on, up to fairness.                               *)

\* The most steps the loop has left: a page costs its call, its results and its end.
Remaining ==
  CASE lookup = "send" -> 3 * (Len(results) - cursor) + 2
    [] lookup = "stream" -> 3 * (Len(results) - cursor) + 1 - received
    [] OTHER -> 0

\* The paging loop cannot go round for ever, not even when the last page is full and
\* its cursor leads to an empty one: every call, result and end of a page takes from a
\* number that is positive as long as the lookup runs.
THEOREM LoopShrinks ==
  PagingSpec =>
    /\ [](Remaining \in Nat /\ (lookup \in {"send", "stream"} => Remaining > 0))
    /\ [][PagingStep => Remaining' < Remaining]_pagingVars
<1>1. ASSUME Inv
      PROVE  Remaining \in Nat /\ (lookup \in {"send", "stream"} => Remaining > 0)
  <2>1. /\ cursor \in Nat /\ received \in Nat /\ Len(results) \in Nat
        /\ cursor <= Len(results)
        /\ lookup = "stream" => cursor + received <= Len(results)
    BY <1>1, PageSizeType DEF Inv, PagingTypeOK
  <2> QED
    BY <2>1 DEF Remaining
<1>2. ASSUME Inv, Inv', PagingStep PROVE Remaining' < Remaining
  <2>1. /\ cursor \in Nat /\ received \in Nat /\ Len(results) \in Nat
        /\ cursor <= Len(results)
        /\ lookup = "stream" => cursor + received <= Len(results)
    BY <1>2, PageSizeType DEF Inv, PagingTypeOK
  <2>2. CASE SendPage
    BY <1>2, <2>1, <2>2 DEF SendPage, Remaining, Inv, CollectInv
  <2>3. CASE ReceiveResult
    BY <2>1, <2>3 DEF ReceiveResult, Remaining
  <2>4. CASE EndPage
    <3>1. CASE received < PageSize
      BY <2>1, <2>4, <3>1 DEF EndPage, Remaining
    <3>2. CASE ~(received < PageSize)
      <4>1. received >= 1
        BY <2>1, <3>2, PageSizeType
      <4> QED
        BY <2>1, <2>4, <3>2, <4>1 DEF EndPage, Remaining, NextCursor
    <3> QED
      BY <3>1, <3>2
  <2> QED
    BY <1>2, <2>2, <2>3, <2>4 DEF PagingStep
<1> QED
  BY <1>1, <1>2, NextInv, Invariance, PTL DEF PagingSpec
===============================================================================
