---------------------------- MODULE RetrievalProofs ----------------------------
(***************************************************************************)
(* Retrieval, proved for any documents, departments, caps and numbers of   *)
(* concurrent questions and changes: type correctness, every answer comes  *)
(* from one fresh snapshot of the user's access, no deleted document is    *)
(* quoted, and below the cap no document the user may view is left out.    *)
(***************************************************************************)
EXTENDS Retrieval, FiniteSetTheorems, TLAPS

\* The revision a token stands for: without one, nothing was acknowledged and the
\* first revision will do.
Acknowledged(t) == IF t = 0 THEN 1 ELSE t

\* What a question reads with is as new as what was acknowledged when it came.
TokenInv ==
  /\ Len(views) >= 1
  /\ \A q \in Questions :
       /\ pc[q] = "token" => due[q] <= Acknowledged(token)
       /\ pc[q] = "lookup" => due[q] <= Acknowledged(pinned[q])
       /\ pc[q] \in {"ask", "token", "lookup", "filter"} => permitted[q] = {} /\ passages[q] = {}
       /\ pc[q] \in {"ask", "token", "lookup"} => looked[q] = {}
       /\ pc[q] # "ask" => live \subseteq everLive[q]

\* The lookup was answered from one revision, new enough; what is searched is a part
\* of it that was live, and what is quoted a part of that.
SnapshotInv ==
  \A q \in Questions :
    /\ \E i \in due[q] .. Len(views) : looked[q] \subseteq views[i]
    /\ permitted[q] \subseteq looked[q]
    /\ permitted[q] \subseteq everLive[q]
    /\ DocumentsOf(passages[q]) \subseteq permitted[q]

Inv == TypeOK /\ TokenInv /\ SnapshotInv

-------------------------------------------------------------------------------
\* A user views documents.
LEMMA ViewType == \A g : View(g) \in SUBSET Documents
  BY DEF View

\* A lookup returns documents of its revision, no more than the cap.
LEMMA LookupFacts ==
  ASSUME TypeOK, NEW i \in 1 .. Len(views), NEW S \in Lookups(i)
  PROVE  S \subseteq views[i] /\ S \in SUBSET Documents /\ Cardinality(S) <= MaxPermitted
<1>1. views[i] \in SUBSET Documents /\ MaxPermitted \in Nat
  BY RetrievalAssumption DEF TypeOK
<1>2. IsFiniteSet(views[i]) /\ Cardinality(views[i]) \in Nat
  BY <1>1, RetrievalAssumption, FS_Subset, FS_CardinalityType
<1> QED
  BY <1>1, <1>2 DEF Lookups, LookupResults

\* A new revision keeps the older ones.
LEMMA AppendFacts ==
  ASSUME TypeOK, NEW g \in Graphs, Becomes(g)
  PROVE  /\ graph' \in Graphs
         /\ views' \in Seq(SUBSET Documents)
         /\ Len(views') = Len(views) + 1
         /\ \A i \in 1 .. Len(views) : views'[i] = views[i]
  BY ViewType DEF Becomes, TypeOK

\* Every change and every purge makes a graph of a graph.
LEMMA GraphType ==
  ASSUME TypeOK
  PROVE  /\ Changes(graph, live \union purged) \subseteq Graphs
         /\ \A x \in Documents : Purged(graph, x) \in Graphs
<1>1. graph \in Graphs /\ live \union purged \subseteq Documents
  BY DEF TypeOK
<1>2. Changes(graph, live \union purged) \subseteq Graphs
  BY <1>1 DEF Changes, Graphs
<1>3. \A x \in Documents : Purged(graph, x) \in Graphs
  BY <1>1 DEF Purged, Graphs
<1> QED
  BY <1>2, <1>3

-------------------------------------------------------------------------------
\* The invariant, step by step.

LEMMA InitInv == Init => Inv
<1> SUFFICES ASSUME Init PROVE Inv
  OBVIOUS
<1>1. graph \in Graphs /\ views \in Seq(SUBSET Documents) /\ Len(views) = 1
  BY RetrievalAssumption, ViewType DEF Init
<1>2. Cardinality({}) = 0
  BY FS_EmptySet
<1>3. TypeOK
  BY <1>1, <1>2, RetrievalAssumption DEF Init, TypeOK, PCs
<1>4. TokenInv
  BY <1>1 DEF Init, TokenInv
<1>5. SnapshotInv
  BY <1>1 DEF Init, SnapshotInv, DocumentsOf
<1> QED
  BY <1>3, <1>4, <1>5 DEF Inv

\* A new graph leaves what is known of the older revisions as it is.
LEMMA BecomesInv ==
  ASSUME Inv, NEW g \in Graphs, Becomes(g), purged' \in SUBSET Documents,
         UNCHANGED <<token, live, pc, pinned, looked, permitted, truncated, passages, history>>
  PROVE  Inv'
<1> USE DEF Inv, history
<1>1. /\ graph' \in Graphs
      /\ views' \in Seq(SUBSET Documents)
      /\ Len(views) \in Nat /\ Len(views') = Len(views) + 1
      /\ \A i \in 1 .. Len(views) : views'[i] = views[i]
  BY AppendFacts DEF TypeOK
<1>2. TypeOK'
  BY <1>1 DEF TypeOK
<1>3. TokenInv'
  BY <1>1 DEF TokenInv, Acknowledged
<1>4. SnapshotInv'
  <2> SUFFICES ASSUME NEW q \in Questions
               PROVE  \E i \in due[q] .. Len(views') : looked[q] \subseteq views'[i]
    BY DEF SnapshotInv, DocumentsOf
  <2>1. PICK i \in due[q] .. Len(views) : looked[q] \subseteq views[i]
    BY DEF SnapshotInv
  <2>2. due[q] \in 1 .. Len(views)
    BY DEF TypeOK
  <2>3. i \in 1 .. Len(views) /\ i \in due[q] .. Len(views')
    BY <1>1, <2>1, <2>2
  <2> QED
    BY <1>1, <2>1, <2>3
<1> QED
  BY <1>2, <1>3, <1>4

\* The world's other steps: a token commits, a row comes or goes.
LEMMA WorldInv ==
  ASSUME Inv,
         \/ CheckpointCommits
         \/ \E x \in Documents : RowDeleted(x) \/ RowIngested(x)
  PROVE  Inv'
<1> USE DEF Inv, history
<1>1. CASE CheckpointCommits
  <2>1. TypeOK'
    BY <1>1 DEF CheckpointCommits, TypeOK
  <2>2. TokenInv'
    BY <1>1 DEF CheckpointCommits, TypeOK, TokenInv, Acknowledged
  <2>3. SnapshotInv'
    BY <1>1 DEF CheckpointCommits, SnapshotInv, DocumentsOf
  <2> QED
    BY <2>1, <2>2, <2>3
<1>2. CASE \E x \in Documents : RowDeleted(x)
  <2>1. TypeOK'
    BY <1>2 DEF RowDeleted, TypeOK
  <2>2. TokenInv'
    BY <1>2 DEF RowDeleted, TokenInv, Acknowledged
  <2>3. SnapshotInv'
    BY <1>2 DEF RowDeleted, SnapshotInv, DocumentsOf
  <2> QED
    BY <2>1, <2>2, <2>3
<1>3. ASSUME NEW x \in Documents, RowIngested(x) PROVE Inv'
  <2>1. TypeOK'
    BY <1>3 DEF RowIngested, TypeOK
  <2>2. TokenInv'
    BY <1>3 DEF RowIngested, TokenInv, Acknowledged, TypeOK
  <2>3. SnapshotInv'
    BY <1>3 DEF RowIngested, SnapshotInv, DocumentsOf, TypeOK
  <2> QED
    BY <2>1, <2>2, <2>3
<1> QED
  BY <1>1, <1>2, <1>3

\* A question comes, and takes the token.
LEMMA TokenStepsInv ==
  ASSUME Inv, NEW q \in Questions, Ask(q) \/ ReadToken(q) \/ Fail(q)
  PROVE  Inv'
<1> USE DEF Inv, history, world, GoTo
<1>1. CASE Ask(q)
  <2>1. token \in 0 .. Len(views) /\ Len(views) \in Nat /\ Len(views) >= 1
    BY DEF TypeOK, TokenInv
  <2>2. TypeOK'
    BY <1>1, <2>1 DEF Ask, TypeOK, PCs
  <2>3. TokenInv'
    BY <1>1, <2>1 DEF Ask, TypeOK, TokenInv, Acknowledged
  <2>4. SnapshotInv'
    <3> SUFFICES ASSUME NEW r \in Questions PROVE
          /\ \E i \in due'[r] .. Len(views) : looked[r] \subseteq views[i]
          /\ permitted[r] \subseteq looked[r]
          /\ permitted[r] \subseteq everLive'[r]
          /\ DocumentsOf(passages[r]) \subseteq permitted[r]
      BY <1>1 DEF Ask, SnapshotInv, DocumentsOf
    <3>1. CASE r = q
      <4>1. looked[q] = {} /\ permitted[q] = {} /\ passages[q] = {}
        BY <1>1 DEF Ask, TokenInv
      <4>2. Len(views) \in due'[q] .. Len(views)
        BY <1>1, <2>1 DEF Ask, TypeOK
      <4> QED
        BY <3>1, <4>1, <4>2 DEF DocumentsOf
    <3>2. CASE r # q
      BY <1>1, <3>2 DEF Ask, SnapshotInv, TypeOK
    <3> QED
      BY <3>1, <3>2
  <2> QED
    BY <2>2, <2>3, <2>4
<1>2. CASE ReadToken(q)
  <2>1. TypeOK'
    BY <1>2 DEF ReadToken, TypeOK, PCs
  <2>2. TokenInv'
    BY <1>2 DEF ReadToken, TypeOK, TokenInv, Acknowledged
  <2>3. SnapshotInv'
    BY <1>2 DEF ReadToken, SnapshotInv, DocumentsOf
  <2> QED
    BY <2>1, <2>2, <2>3
<1>3. CASE Fail(q)
  <2>1. TypeOK'
    BY <1>3 DEF Fail, TypeOK, PCs
  <2>2. TokenInv'
    BY <1>3 DEF Fail, TypeOK, TokenInv, Acknowledged
  <2>3. SnapshotInv'
    BY <1>3 DEF Fail, SnapshotInv, DocumentsOf
  <2> QED
    BY <2>1, <2>2, <2>3
<1> QED
  BY <1>1, <1>2, <1>3

\* The lookup is answered from a revision as new as the one that was due.
LEMMA LookupInv ==
  ASSUME Inv, NEW q \in Questions, Lookup(q)
  PROVE  Inv'
<1> USE DEF Inv, history, world, GoTo
<1>1. PICK i \in Revisions(q) : \E S \in Lookups(i) : looked' = [looked EXCEPT ![q] = S]
  BY DEF Lookup
<1>2. PICK S \in Lookups(i) : looked' = [looked EXCEPT ![q] = S]
  BY <1>1
<1>3. /\ due[q] \in 1 .. Len(views) /\ pinned[q] \in 0 .. Len(views)
      /\ due[q] <= Acknowledged(pinned[q])
      /\ Len(views) \in Nat
  BY DEF Lookup, TypeOK, TokenInv
<1>4. i \in due[q] .. Len(views)
  BY <1>3 DEF Revisions, Acknowledged
<1>5. S \subseteq views[i] /\ S \in SUBSET Documents /\ Cardinality(S) <= MaxPermitted
  BY <1>3, <1>4, LookupFacts
<1>6. TypeOK'
  BY <1>2, <1>5 DEF Lookup, TypeOK, PCs
<1>7. TokenInv'
  BY <1>2 DEF Lookup, TypeOK, TokenInv, Acknowledged
<1>8. SnapshotInv'
  <2> SUFFICES ASSUME NEW r \in Questions PROVE
        /\ \E j \in due[r] .. Len(views) : looked'[r] \subseteq views[j]
        /\ permitted[r] \subseteq looked'[r]
        /\ permitted[r] \subseteq everLive[r]
        /\ DocumentsOf(passages[r]) \subseteq permitted[r]
    BY DEF Lookup, SnapshotInv, DocumentsOf
  <2>1. CASE r = q
    <3>1. permitted[q] = {} /\ passages[q] = {} /\ looked'[q] = S
      BY <1>2 DEF Lookup, TokenInv, TypeOK
    <3> QED
      BY <1>4, <1>5, <2>1, <3>1 DEF DocumentsOf
  <2>2. CASE r # q
    BY <1>2, <2>2 DEF SnapshotInv, TypeOK
  <2> QED
    BY <2>1, <2>2
<1> QED
  BY <1>6, <1>7, <1>8

\* The filter and the search only narrow what the lookup returned.
LEMMA NarrowingInv ==
  ASSUME Inv, NEW q \in Questions, FilterLive(q) \/ Search(q)
  PROVE  Inv'
<1> USE DEF Inv, history, world, GoTo
<1>1. CASE FilterLive(q)
  <2>1. LiveOf(q) \subseteq looked[q] /\ LiveOf(q) \subseteq live /\ LiveOf(q) \in SUBSET Documents
    BY DEF LiveOf, TypeOK
  <2>2. TypeOK'
    BY <1>1, <2>1 DEF FilterLive, TypeOK, PCs
  <2>3. TokenInv'
    BY <1>1 DEF FilterLive, TypeOK, TokenInv, Acknowledged
  <2>4. SnapshotInv'
    <3> SUFFICES ASSUME NEW r \in Questions PROVE
          /\ permitted'[r] \subseteq looked[r]
          /\ permitted'[r] \subseteq everLive[r]
          /\ DocumentsOf(passages[r]) \subseteq permitted'[r]
      BY <1>1 DEF FilterLive, SnapshotInv, DocumentsOf
    <3>1. CASE r = q
      <4>1. passages[q] = {} /\ live \subseteq everLive[q] /\ permitted'[q] = LiveOf(q)
        BY <1>1 DEF FilterLive, TokenInv, TypeOK
      <4> QED
        BY <2>1, <3>1, <4>1 DEF DocumentsOf
    <3>2. CASE r # q
      BY <1>1, <3>2 DEF FilterLive, SnapshotInv, TypeOK
    <3> QED
      BY <3>1, <3>2
  <2> QED
    BY <2>2, <2>3, <2>4
<1>2. CASE Search(q)
  <2>1. PICK found \in SUBSET Chunks :
          \E S \in Kept(Verified(q, found)) : passages' = [passages EXCEPT ![q] = S]
    BY <1>2 DEF Search
  <2>2. PICK S \in Kept(Verified(q, found)) : passages' = [passages EXCEPT ![q] = S]
    BY <2>1
  <2>3. S \subseteq Chunks /\ Cardinality(S) <= TopK /\ DocumentsOf(S) \subseteq permitted[q]
    BY <2>1, <2>2 DEF Kept, Verified, DocumentsOf
  <2>4. TypeOK'
    BY <1>2, <2>2, <2>3 DEF Search, TypeOK, PCs
  <2>5. TokenInv'
    BY <1>2, <2>2 DEF Search, TypeOK, TokenInv, Acknowledged
  <2>6. SnapshotInv'
    <3>1. \A r \in Questions : passages'[r] = IF r = q THEN S ELSE passages[r]
      BY <2>2 DEF TypeOK
    <3>2. \A r \in Questions : DocumentsOf(passages'[r]) \subseteq permitted[r]
      BY <2>3, <3>1 DEF SnapshotInv
    <3> QED
      BY <1>2, <3>2 DEF Search, SnapshotInv, DocumentsOf
  <2> QED
    BY <2>4, <2>5, <2>6
<1> QED
  BY <1>1, <1>2

-------------------------------------------------------------------------------
\* Every reachable state satisfies the inductive invariant.
THEOREM Invariance == Spec => []Inv
<1>1. Inv /\ [Next]_vars => Inv'
  <2> SUFFICES ASSUME Inv, [Next]_vars PROVE Inv'
    OBVIOUS
  <2>1. CASE AccessChanges
    <3>1. PICK g \in Changes(graph, live \union purged) : Becomes(g)
      BY <2>1 DEF AccessChanges
    <3>2. g \in Graphs /\ purged' \in SUBSET Documents
      BY <2>1, <3>1, GraphType DEF AccessChanges, Inv, TypeOK
    <3> QED
      BY <2>1, <3>1, <3>2, BecomesInv DEF AccessChanges
  <2>2. ASSUME NEW x \in Documents, EdgesPurged(x) PROVE Inv'
    <3>1. Purged(graph, x) \in Graphs /\ purged' \in SUBSET Documents
      BY <2>2, GraphType DEF EdgesPurged, Inv, TypeOK
    <3> QED
      BY <2>2, <3>1, BecomesInv DEF EdgesPurged
  <2>3. CASE CheckpointCommits \/ \E x \in Documents : RowDeleted(x) \/ RowIngested(x)
    BY <2>3, WorldInv
  <2>4. ASSUME NEW q \in Questions, QuestionStep(q) PROVE Inv'
    BY <2>4, TokenStepsInv, LookupInv, NarrowingInv DEF QuestionStep
  <2>5. CASE UNCHANGED vars
    BY <2>5 DEF vars, world, history, Inv, TypeOK, TokenInv, SnapshotInv, DocumentsOf, Acknowledged
  <2> QED
    BY <2>1, <2>2, <2>3, <2>4, <2>5 DEF Next, Terminated
<1> QED
  BY <1>1, InitInv, PTL DEF Spec

\* The variables keep their types: no more than TopK passages reach the model, and no
\* lookup exceeds the cap.
THEOREM TypeCorrect == Spec => []TypeOK
<1>1. Inv => TypeOK
  BY DEF Inv
<1> QED
  BY <1>1, Invariance, PTL

\* Whatever changes while the question runs and whatever the search returns, the user
\* could view all documents of an answer in one revision that holds every change
\* acknowledged before the question came.
THEOREM Snapshot == Spec => []OneSnapshot
<1>1. Inv => OneSnapshot
  <2> SUFFICES ASSUME Inv, NEW q \in Questions
               PROVE  \E i \in due[q] .. Len(views) : DocumentsOf(passages[q]) \subseteq views[i]
    BY DEF OneSnapshot
  <2> QED
    BY DEF Inv, SnapshotInv
<1> QED
  BY <1>1, Invariance, PTL

\* No answer quotes a document that was deleted before its question came.
THEOREM NoDeleted == Spec => []DeletedStaysOut
<1>1. Inv => DeletedStaysOut
  BY DEF Inv, SnapshotInv, DeletedStaysOut
<1> QED
  BY <1>1, Invariance, PTL

-------------------------------------------------------------------------------
(* Completeness.                                                           *)

\* Below the cap, the lookup and the filter lose nothing that stayed visible and live.
CompleteInv ==
  \A q \in Questions :
    /\ pc[q] # "ask" => alwaysLive[q] \subseteq live
    /\ pc[q] = "filter" /\ Cardinality(looked[q]) < MaxPermitted =>
         Steady(q) \subseteq looked[q]
    /\ pc[q] \in {"search", "answered"} /\ Cardinality(looked[q]) < MaxPermitted =>
         Steady(q) \subseteq permitted[q]

\* Once a question has come, what stays visible and live only shrinks.
LEMMA SteadyShrinks ==
  ASSUME TypeOK, NEW q \in Questions, due'[q] = due[q], alwaysLive'[q] \subseteq alwaysLive[q],
         Len(views') \in Nat, Len(views) <= Len(views'),
         \A i \in 1 .. Len(views) : views'[i] = views[i]
  PROVE  Steady(q)' \subseteq Steady(q)
<1>1. due[q] \in 1 .. Len(views) /\ Len(views) \in Nat
  BY DEF TypeOK
<1>2. \A i \in due[q] .. Len(views) : i \in due[q] .. Len(views') /\ views'[i] = views[i]
  BY <1>1
<1> QED
  BY <1>2 DEF Steady

\* So a step that leaves a question where it is keeps what is known of it.
LEMMA QuestionUntouched ==
  ASSUME TypeOK, CompleteInv, NEW q \in Questions, due'[q] = due[q],
         pc'[q] = pc[q], looked'[q] = looked[q], permitted'[q] = permitted[q],
         alwaysLive'[q] \subseteq alwaysLive[q],
         pc[q] # "ask" => alwaysLive'[q] \subseteq live',
         Len(views') \in Nat, Len(views) <= Len(views'),
         \A i \in 1 .. Len(views) : views'[i] = views[i]
  PROVE  /\ pc'[q] # "ask" => alwaysLive'[q] \subseteq live'
         /\ pc'[q] = "filter" /\ Cardinality(looked'[q]) < MaxPermitted =>
              Steady(q)' \subseteq looked'[q]
         /\ pc'[q] \in {"search", "answered"} /\ Cardinality(looked'[q]) < MaxPermitted =>
              Steady(q)' \subseteq permitted'[q]
  BY SteadyShrinks DEF CompleteInv

\* The world takes nothing from an answer but what it takes from the user.
LEMMA WorldComplete ==
  ASSUME Inv, CompleteInv,
         \/ AccessChanges
         \/ CheckpointCommits
         \/ \E x \in Documents : EdgesPurged(x) \/ RowDeleted(x) \/ RowIngested(x)
         \/ UNCHANGED vars
  PROVE  CompleteInv'
<1> USE DEF Inv, history
<1>1. Len(views) \in Nat
  BY DEF TypeOK
<1>2. /\ UNCHANGED <<pc, due, looked, permitted>>
      /\ \A q \in Questions : alwaysLive'[q] \subseteq alwaysLive[q]
      /\ \A q \in Questions : pc[q] # "ask" => alwaysLive'[q] \subseteq live'
  <2>1. CASE AccessChanges \/ CheckpointCommits \/ (\E x \in Documents : EdgesPurged(x)) \/ UNCHANGED vars
    BY <2>1 DEF AccessChanges, CheckpointCommits, EdgesPurged, vars, world, CompleteInv
  <2>2. CASE \E x \in Documents : RowDeleted(x)
    BY <2>2 DEF RowDeleted, CompleteInv, TypeOK
  <2>3. CASE \E x \in Documents : RowIngested(x)
    BY <2>3 DEF RowIngested, CompleteInv
  <2> QED
    BY <2>1, <2>2, <2>3
<1>3. UNCHANGED views \/ \E g \in Graphs : Becomes(g)
  <2>1. CASE AccessChanges
    BY <2>1, GraphType DEF AccessChanges
  <2>2. CASE \E x \in Documents : EdgesPurged(x)
    BY <2>2, GraphType DEF EdgesPurged
  <2> QED
    BY <2>1, <2>2 DEF CheckpointCommits, RowDeleted, RowIngested, vars, world
<1>4. /\ Len(views') \in Nat /\ Len(views) <= Len(views')
      /\ \A i \in 1 .. Len(views) : views'[i] = views[i]
  <2>1. CASE UNCHANGED views
    BY <1>1, <2>1
  <2>2. CASE \E g \in Graphs : Becomes(g)
    BY <1>1, <2>2, AppendFacts
  <2> QED
    BY <1>3, <2>1, <2>2
<1> QED
  BY <1>2, <1>4, QuestionUntouched DEF CompleteInv

\* A question keeps what it needs from step to step.
LEMMA QuestionComplete ==
  ASSUME Inv, CompleteInv, NEW q \in Questions, QuestionStep(q)
  PROVE  CompleteInv'
<1> USE DEF Inv, history, world, GoTo
<1>1. /\ UNCHANGED <<views, live>>
      /\ \A r \in Questions \ {q} :
           /\ pc'[r] = pc[r] /\ looked'[r] = looked[r] /\ permitted'[r] = permitted[r]
           /\ due'[r] = due[r] /\ alwaysLive'[r] = alwaysLive[r]
  BY DEF QuestionStep, Ask, ReadToken, Lookup, FilterLive, Search, Fail, TypeOK
<1>2. Len(views) \in Nat
  BY DEF TypeOK
<1>3. ASSUME NEW r \in Questions, r # q
      PROVE  /\ pc'[r] # "ask" => alwaysLive'[r] \subseteq live'
             /\ pc'[r] = "filter" /\ Cardinality(looked'[r]) < MaxPermitted =>
                  Steady(r)' \subseteq looked'[r]
             /\ pc'[r] \in {"search", "answered"} /\ Cardinality(looked'[r]) < MaxPermitted =>
                  Steady(r)' \subseteq permitted'[r]
  <2>1. pc[r] # "ask" => alwaysLive[r] \subseteq live
    BY DEF CompleteInv
  <2> QED
    BY <1>1, <1>2, <1>3, <2>1, QuestionUntouched
<1>4. /\ pc'[q] # "ask" => alwaysLive'[q] \subseteq live'
      /\ pc'[q] = "filter" /\ Cardinality(looked'[q]) < MaxPermitted =>
           Steady(q)' \subseteq looked'[q]
      /\ pc'[q] \in {"search", "answered"} /\ Cardinality(looked'[q]) < MaxPermitted =>
           Steady(q)' \subseteq permitted'[q]
  <2>1. CASE Ask(q)
    BY <2>1 DEF Ask, TypeOK
  <2>2. CASE ReadToken(q) \/ Fail(q)
    BY <2>2 DEF ReadToken, Fail, CompleteInv, TypeOK
  <2>3. CASE Lookup(q)
    <3>1. PICK i \in Revisions(q) : \E S \in Lookups(i) : looked' = [looked EXCEPT ![q] = S]
      BY <2>3 DEF Lookup
    <3>2. PICK S \in Lookups(i) : looked' = [looked EXCEPT ![q] = S]
      BY <3>1
    <3>3. i \in due[q] .. Len(views)
      <4>1. /\ due[q] \in 1 .. Len(views) /\ pinned[q] \in 0 .. Len(views)
            /\ due[q] <= Acknowledged(pinned[q])
        BY <2>3 DEF Lookup, TypeOK, TokenInv
      <4> QED
        BY <1>2, <4>1 DEF Revisions, Acknowledged
    <3>4. looked'[q] = S /\ pc'[q] = "filter" /\ UNCHANGED <<due, alwaysLive, live, views>>
      BY <2>3, <3>2 DEF Lookup, TypeOK
    <3>5. Cardinality(S) < MaxPermitted => S = views[i]
      <4>1. MaxPermitted \in Nat
        BY RetrievalAssumption
      <4> QED
        BY <3>2, <4>1 DEF Lookups, LookupResults
    <3>6. Steady(q)' \subseteq views[i]
      BY <3>3, <3>4 DEF Steady
    <3>7. alwaysLive[q] \subseteq live
      BY <2>3 DEF Lookup, CompleteInv
    <3> QED
      BY <3>4, <3>5, <3>6, <3>7
  <2>4. CASE FilterLive(q)
    <3>1. /\ pc[q] = "filter" /\ pc'[q] \in {"search", "answered"}
          /\ permitted'[q] = looked[q] \intersect live /\ looked'[q] = looked[q]
          /\ UNCHANGED <<due, alwaysLive, live, views>>
      BY <2>4 DEF FilterLive, LiveOf, TypeOK
    <3>2. Steady(q)' = Steady(q) /\ Steady(q) \subseteq alwaysLive[q]
      BY <3>1 DEF Steady
    <3> QED
      BY <3>1, <3>2 DEF CompleteInv
  <2>5. CASE Search(q)
    <3>1. /\ pc[q] = "search" /\ pc'[q] = "answered"
          /\ UNCHANGED <<due, alwaysLive, live, views, looked, permitted>>
      BY <2>5 DEF Search, TypeOK
    <3>2. Steady(q)' = Steady(q)
      BY <3>1 DEF Steady
    <3> QED
      BY <3>1, <3>2 DEF CompleteInv
  <2> QED
    BY <2>1, <2>2, <2>3, <2>4, <2>5 DEF QuestionStep
<1> QED
  BY <1>3, <1>4 DEF CompleteInv

\* However access changes while a question runs, a document the user could view, and that
\* was live, ever since the question came is searched, unless the lookup hit its cap.
THEOREM Completeness == Spec => []CompleteBelowCap
<1>1. Init => CompleteInv
  BY DEF Init, CompleteInv
<1>2. Inv /\ CompleteInv /\ [Next]_vars => CompleteInv'
  BY WorldComplete, QuestionComplete DEF Next, Terminated
<1>3. CompleteInv => CompleteBelowCap
  BY DEF CompleteInv, CompleteBelowCap
<1> QED
  BY <1>1, <1>2, <1>3, Invariance, PTL DEF Spec
===============================================================================
